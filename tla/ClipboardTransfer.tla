-------------------------- MODULE ClipboardTransfer --------------------------
(***************************************************************************)
(* One clipboard write from the host to the guest, over the control server *)
(* of RuntimeControl: the command, the server's clipboard handler and the  *)
(* runtime owner, the guest helper that ssh starts, and the desktop owner  *)
(* that the helper forks to hold the selection.  The command is told       *)
(* unchanged, committed or unknown; connections, processes, machines and   *)
(* deadlines may give out at any step.  The command holds the transition   *)
(* and session locks, so that no lifecycle command runs beside it.         *)
(***************************************************************************)
EXTENDS RuntimeControl

VARIABLES
    client,     \* step of the command
    outcome,    \* what the command reports
    sent,       \* the terminator is on its way to the server
    reply,      \* reply on its way to the command
    clip,       \* step of the clipboard handler
    result,     \* outcome the handler holds
    helper,     \* guest helper with its operation process
    answer,     \* what it prints
    desk,       \* forked desktop owner
    lease,      \* write end of the precommit lease is open
    receipt,    \* what the desktop owner wrote to its pipe
    claimed     \* the guest selection was replaced

commandVars == <<client, outcome>>
handlerVars == <<clip, result>>
guestVars == <<helper, answer, desk, lease, receipt, claimed>>
clipboardVars == <<commandVars, sent, reply, handlerVars, guestVars>>
supervisorVars == <<controlVars, clipboardVars>>

-----------------------------------------------------------------------------
Outcomes == {"unchanged", "committed", "unknown"}
Statuses == {"ok", "error", "unknown"}

ClipboardTypeOK ==
    /\ ControlTypeOK
    /\ client \in {"idle", "handshake", "source", "await", "done"}
    /\ outcome \in Outcomes \cup {"none"}
    /\ sent \in BOOLEAN
    /\ reply \in Outcomes \cup {"none", "ready"}
    /\ clip \in {"hello", "payload", "admit", "dispatch", "ssh", "after",
                 "done"}
    /\ result \in Outcomes
    /\ helper \in {"none", "run", "forked", "done"}
    /\ answer \in Statuses \cup {"none", "lost"}
    /\ desk \in {"none", "armed", "leased", "claimed", "done"}
    /\ lease \in BOOLEAN
    /\ receipt \in Statuses \cup {"none"}
    /\ claimed \in BOOLEAN

ClipboardInit ==
    /\ ControlInit
    /\ client = "idle" /\ outcome = "none"
    /\ sent = FALSE /\ reply = "none"
    /\ clip = "hello" /\ result = "unchanged"
    /\ helper = "none" /\ answer = "none"
    /\ desk = "none" /\ lease = FALSE /\ receipt = "none" /\ claimed = FALSE

-----------------------------------------------------------------------------
(* The command                                                             *)

beginClipboard(c) ==
    /\ client = "idle"
    /\ Dial(c, "clipboard")
    /\ client' = "handshake"
    /\ UNCHANGED <<outcome, sent, reply, handlerVars, guestVars>>

(* The source is read only after the target was found ready.               *)
ReadSource ==
    /\ client = "handshake" /\ reply = "ready"
    /\ client' = "source"
    /\ reply' = "none"
    /\ UNCHANGED <<controlVars, outcome, sent, handlerVars, guestVars>>

Report(result_) ==
    /\ client' = "done"
    /\ outcome' = result_
    /\ reply' = "none"

(* Refused, cancelled or timed out before the terminator is written.       *)
Abandon ==
    /\ client \in {"handshake", "source"}
    /\ Report("unchanged")
    /\ UNCHANGED <<controlVars, sent, handlerVars, guestVars>>

(* Length, text and terminator.  A failed write of the terminator may      *)
(* still have reached the server.                                          *)
Write ==
    /\ client = "source"
    /\ \/ /\ client' = "await"
          /\ sent' = TRUE
          /\ UNCHANGED <<outcome, reply>>
       \/ /\ Report("unknown")
          /\ sent' \in BOOLEAN
    /\ UNCHANGED <<controlVars, handlerVars, guestVars>>

(* The reply, or none: connection lost, deadline, cancellation.            *)
readReply ==
    /\ client = "await"
    /\ \/ reply \in Outcomes /\ Report(reply)
       \/ Report("unknown")
    /\ UNCHANGED <<controlVars, sent, handlerVars, guestVars>>

-----------------------------------------------------------------------------
(* The handler on the server, and the owner's WriteClipboard               *)

At(step) == server = "clipboard" /\ clip = step
StillReady == snapshotReady /\ ~Expired

(* The handler returns; what it wrote may not arrive.                      *)
Return(message) ==
    /\ clip' = "done" /\ result' = "unchanged"
    /\ reply' \in IF client = "done" THEN {"none"} ELSE {message, reply}
    /\ Hangup
    /\ UNCHANGED <<stopSeen, ownerVars, waitVars, main, stop>>

Hello ==
    /\ At("hello")
    /\ \/ /\ StillReady
          /\ reply' = "ready" /\ clip' = "payload"
          /\ UNCHANGED controlVars
       \/ Return("unchanged")
    /\ UNCHANGED <<commandVars, sent, result, guestVars>>

Payload ==
    /\ At("payload")
    /\ \/ /\ sent /\ ~Expired
          /\ clip' = "admit"
          /\ UNCHANGED <<controlVars, reply>>
       \/ Return(reply)
    /\ UNCHANGED <<commandVars, sent, result, guestVars>>

Admit ==
    /\ At("admit")
    /\ \/ /\ StillReady
          /\ clip' = "dispatch"
          /\ UNCHANGED <<controlVars, reply>>
       \/ Return("unchanged")
    /\ UNCHANGED <<commandVars, sent, result, guestVars>>

(* admitClipboard and the checks of the ssh client refuse before anything  *)
(* is sent; then ssh runs the fixed helper.                                *)
Dispatch ==
    /\ At("dispatch")
    /\ \/ /\ StillReady
          /\ clip' = "ssh" /\ helper' = "run"
       \/ clip' = "after" /\ UNCHANGED helper
    /\ UNCHANGED <<controlVars, commandVars, sent, reply, result, answer,
                   desk, lease, receipt, claimed>>

WriteClipboard ==
    /\ At("ssh")
    /\ clip' = "after"
    /\ \/ /\ answer = "ok" /\ StillReady
          /\ result' = "committed"
       \/ /\ answer = "error" /\ StillReady
          /\ result' = "unchanged"
       \/ result' = "unknown"
    /\ UNCHANGED <<controlVars, commandVars, sent, reply, helper, desk, lease,
                   receipt, claimed>>
    /\ answer' = "none"

After ==
    /\ At("after")
    /\ \/ StillReady /\ Return(result)
       \/ Return(IF result = "unchanged" THEN result ELSE "unknown")
    /\ UNCHANGED <<commandVars, sent, guestVars>>

ClipboardServer ==
    Hello \/ Payload \/ Admit \/ Dispatch \/ WriteClipboard \/ After

-----------------------------------------------------------------------------
(* The guest, while its machine lives                                      *)

Guest == child = "live"
Elsewhere == UNCHANGED <<controlVars, commandVars, sent, reply, handlerVars>>

(* The helper ends; nobody reads what it prints once ssh has returned.     *)
Answers(status) ==
    /\ helper' = "done"
    /\ answer' = IF clip = "ssh" THEN status ELSE "none"
    /\ lease' = FALSE
    /\ receipt' = "none"

(* Before the fork: a refused request or binding ends the helper without   *)
(* an answer, a refusing desktop is an error.                              *)
HelperRefuses ==
    /\ Guest /\ helper = "run"
    /\ \E status \in {"lost", "error", "unknown"} : Answers(status)
    /\ UNCHANGED <<desk, claimed>>
    /\ Elsewhere

owner_write ==
    /\ Guest /\ helper = "run"
    /\ helper' = "forked"
    /\ desk' = "armed"
    /\ lease' = TRUE
    /\ UNCHANGED <<answer, receipt, claimed>>
    /\ Elsewhere

(* The receipt of the desktop owner; a changed binding makes ok unknown.   *)
HelperReceipt ==
    /\ Guest /\ helper = "forked"
    /\ receipt # "none"
    /\ \/ Answers(receipt)
       \/ receipt # "error" /\ Answers("unknown")
    /\ UNCHANGED <<desk, claimed>>
    /\ Elsewhere

(* Deadline without a receipt, or the process is killed.                   *)
HelperGivesUp ==
    /\ Guest /\ helper = "forked"
    /\ \E status \in {"unknown", "lost"} : Answers(status)
    /\ UNCHANGED <<desk, claimed>>
    /\ Elsewhere

Receipt(status) == receipt' = IF helper = "forked" THEN status ELSE "none"

DeskEnds(status) ==
    /\ desk' = "done"
    /\ Receipt(status)
    /\ UNCHANGED <<helper, answer, lease>>

(* The lease is checked right before the claim.                            *)
before_claim ==
    /\ Guest /\ desk = "armed"
    /\ \/ lease /\ desk' = "leased" /\ UNCHANGED <<helper, answer, lease, receipt>>
       \/ \E status \in {"error", "unknown", "none"} : DeskEnds(status)
    /\ UNCHANGED claimed
    /\ Elsewhere

(* Claimed, refused, failed or killed inside the native claim.             *)
claim_value ==
    /\ Guest /\ desk = "leased"
    /\ \/ /\ desk' = "claimed" /\ claimed' = TRUE
          /\ UNCHANGED <<helper, answer, lease, receipt>>
       \/ DeskEnds("error") /\ UNCHANGED claimed
       \/ /\ \E status \in {"unknown", "none"} : DeskEnds(status)
          /\ claimed' \in BOOLEAN
    /\ Elsewhere

(* Mutant: a desktop that changed after the claim is reported as refused.  *)
Mutacknowledge ==
    /\ Guest /\ desk = "claimed"
    /\ \/ /\ desk' = "done" /\ Receipt("ok")
          /\ UNCHANGED <<helper, answer, lease>>
       \/ DeskEnds("error")
    /\ UNCHANGED claimed
    /\ Elsewhere

(* The owner stays until the selection is lost, or ends at once.           *)
acknowledge ==
    /\ Guest /\ desk = "claimed"
    /\ \/ /\ desk' = "done" /\ Receipt("ok")
          /\ UNCHANGED <<helper, answer, lease>>
       \/ \E status \in {"unknown", "none"} : DeskEnds(status)
    /\ UNCHANGED claimed
    /\ Elsewhere

(* The machine takes the processes of the guest with it.                   *)
MachineExits ==
    /\ ChildExits
    /\ helper' = "done" /\ desk' = "done" /\ lease' = FALSE
    /\ answer' = "none" /\ receipt' = "none"
    /\ UNCHANGED <<claimed, commandVars, sent, reply, handlerVars>>

-----------------------------------------------------------------------------
CommandNext ==
    \/ \E c \in Calls : beginClipboard(c)
    \/ ReadSource \/ Abandon \/ Write \/ readReply

GuestNext ==
    \/ HelperRefuses \/ owner_write \/ HelperReceipt \/ HelperGivesUp
    \/ before_claim \/ claim_value \/ acknowledge

ClipboardNext ==
    \/ ControlNext /\ UNCHANGED clipboardVars
    \/ MachineExits
    \/ CommandNext \/ ClipboardServer \/ GuestNext

ClipboardSpec == ClipboardInit /\ [][ClipboardNext]_supervisorVars

-----------------------------------------------------------------------------
(* Properties                                                              *)

(* The guest selection was not replaced, and nothing is left that could.   *)
Quiet ==
    /\ ~claimed
    /\ helper \in {"none", "done"} /\ desk \in {"none", "done"}

(* What each party knows of the guest selection at its step.               *)
TransferExact ==
    /\ client \in {"idle", "handshake", "source"} => ~sent
    /\ outcome = "none" <=> client # "done"
    /\ ~sent => clip \in {"hello", "payload", "done"} /\ Quiet
    /\ clip \in {"hello", "payload", "admit", "dispatch"} =>
           Quiet /\ (child = "live" => helper = "none")
    /\ reply \in Outcomes => clip = "done"
    /\ helper \in {"none", "run"} => desk = "none" /\ ~claimed
    /\ desk \in {"none", "armed", "leased"} => ~claimed
    /\ desk = "claimed" => claimed
    /\ answer # "none" => clip = "ssh"
    /\ answer = "ok" \/ receipt = "ok" => claimed
    /\ receipt = "error" => desk = "done" /\ ~claimed
    /\ answer = "error" => Quiet
    /\ clip # "after" => result = "unchanged"
    /\ clip = "after" /\ result = "unchanged" => Quiet
    /\ result = "committed" => claimed
    /\ reply = "unchanged" => Quiet
    /\ reply = "committed" \/ outcome = "committed" => claimed
    /\ outcome = "unchanged" => Quiet /\ (~sent \/ clip = "done")

(* The threads of the supervisor keep their promises about credentials,    *)
(* stops and the release of the generation, because of what mutex, server  *)
(* and Wait exclude; every party of a transfer knows the guest selection   *)
(* it relies on (owner.go, supervisor.go, clipboard.go).                   *)
ControlInv ==
    /\ ClipboardTypeOK /\ CredentialsGone /\ StopHonest /\ ReleasedQuiet
    /\ MutexExact /\ ServerExact /\ WaitExact /\ TransferExact

(* What the command reports is true and stays true: unchanged means that   *)
(* the guest selection was not replaced and will not be, committed that it *)
(* was (clipboard.go WriteClipboard, clipboard.py owner_write).            *)
HonestOutcome ==
    /\ outcome = "unchanged" => ~claimed
    /\ outcome = "committed" => claimed

=============================================================================
