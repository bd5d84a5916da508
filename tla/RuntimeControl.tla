--------------------------- MODULE RuntimeControl ---------------------------
(***************************************************************************)
(* The process that owns one running generation: supervisor.Run with its   *)
(* control server, and the runtime owner behind it.  Four threads share    *)
(* the owner: Run itself, the control server (one connection at a time),   *)
(* the goroutine in owner.Wait that reaps the machine, and the certificate *)
(* maintenance that the first successful Ready starts.  readyMu excludes   *)
(* Ready, the guest inspections, the import transfer and the credential    *)
(* cleanup from each other; the owner's inner mutex and the observation    *)
(* mutex only ever cover one step of this module.                          *)
(*                                                                         *)
(* The model begins after a successful owner.Start.  Clipboard calls are   *)
(* continued in ClipboardTransfer.                                         *)
(***************************************************************************)
EXTENDS Naturals, FiniteSets

CONSTANTS
    Calls,      \* connections that clients hold at one time
    NoCall      \* absence of a connection

ASSUME ControlAssumption == NoCall \notin Calls

VARIABLES
    child,      \* the retained virtual machine process
    owner,      \* fields of the runtime owner
    creds,      \* generation credentials on disk
    due,        \* the published certificate asks for renewal
    readyMu,    \* thread that holds the readiness mutex
    ready,      \* thread -> step inside Owner.Ready
    maint,      \* maintenance goroutine
    canceled,   \* its context is cancelled
    waiter,     \* step of Owner.Wait; done when the reaped channel closes
    waitErr,    \* Wait returned an error: reap or cleanup is unproven
    main,       \* step of supervisor.Run
    server,     \* step of the control server
    serving,    \* connection it serves
    call,       \* connection -> the client's call
    stopSeen,   \* a client saw its stop succeed
    stop        \* the stop closure shared by Run and the server

ownerVars == <<owner, creds, due, readyMu, ready, maint, canceled>>
waitVars == <<child, waiter, waitErr>>
serverVars == <<server, serving, call, stopSeen>>
controlVars == <<ownerVars, waitVars, serverVars, main, stop>>

-----------------------------------------------------------------------------
(* use stands for the package, identity and import calls, which hold       *)
(* readyMu; action for the recipe actions, which do not.                   *)
Kinds == {"bootstrap", "ready", "stop", "use", "action",
          "clipboard"}
Threads == {"server", "maint"}
ReadySteps == {"idle", "lock", "check", "write", "probe", "publish"}

(* late: the deadline the client sent with its call has passed.            *)
Call == [kind : Kinds \cup {"none"}, late : BOOLEAN, ok : BOOLEAN]
NoRequest == [kind |-> "none", late |-> FALSE, ok |-> FALSE]

ControlTypeOK ==
    /\ child \in {"live", "exited"}
    /\ owner \in [active : BOOLEAN, pinned : BOOLEAN, established : BOOLEAN]
    /\ creds \in BOOLEAN /\ due \in BOOLEAN
    /\ readyMu \in {"free", "waiter"} \cup Threads
    /\ ready \in [Threads -> ReadySteps]
    /\ maint \in {"none", "idle", "renew", "done"} /\ canceled \in BOOLEAN
    /\ waiter \in {"wait", "deactivate", "join", "clean", "done"}
    /\ waitErr \in BOOLEAN
    /\ main \in {"serve", "join", "stop", "reap", "ended"}
    /\ server \in {"accept", "frame", "op", "using", "answer", "clipboard",
                   "exited"}
    /\ serving \in Calls \cup {NoCall}
    /\ call \in [Calls -> Call] /\ stopSeen \in BOOLEAN
    /\ stop \in [pc : {"idle", "enter", "window", "force", "await"},
                 sent : BOOLEAN, grace : BOOLEAN, failed : BOOLEAN]

ControlInit ==
    /\ child = "live"
    /\ owner = [active |-> TRUE, pinned |-> FALSE, established |-> FALSE]
    /\ creds = FALSE /\ due = FALSE
    /\ readyMu = "free"
    /\ ready = [t \in Threads |-> "idle"]
    /\ maint = "none" /\ canceled = FALSE
    /\ waiter = "wait" /\ waitErr = FALSE
    /\ main = "serve"
    /\ server = "accept" /\ serving = NoCall
    /\ call = [c \in Calls |-> NoRequest] /\ stopSeen = FALSE
    /\ stop = [pc |-> "idle", sent |-> FALSE, grace |-> FALSE,
               failed |-> FALSE]

-----------------------------------------------------------------------------
reaped == waiter = "done"

(* The contexts of the server's operations end with the call's deadline    *)
(* and when Run leaves its select.                                         *)
Expired == call[serving].late \/ main # "serve"
Cancelled(t) == IF t = "server" THEN Expired ELSE canceled

(* Owner.Snapshot with every predicate of READY.                           *)
snapshotReady ==
    /\ owner.active /\ child = "live"
    /\ owner.pinned /\ owner.established /\ ~due

(* The server finished the operation of its call.  Only the result of a    *)
(* stop is kept.                                                           *)
Finish(result) ==
    /\ server' = "answer"
    /\ call' = [call EXCEPT ![serving].ok =
                    result /\ call[serving].kind = "stop"]
    /\ UNCHANGED <<serving, stopSeen>>

-----------------------------------------------------------------------------
(* The virtual machine and the clock                                       *)

ChildExits ==
    /\ child = "live"
    /\ child' = "exited"
    /\ UNCHANGED <<ownerVars, waiter, waitErr, serverVars, main, stop>>

RenewalRequired ==
    /\ owner.established /\ ~due
    /\ due' = TRUE
    /\ UNCHANGED <<owner, creds, readyMu, ready, maint, canceled, waitVars,
                   serverVars, main, stop>>

(* A call that expires in the queue is dropped at its frame.               *)
DeadlinePasses(c) ==
    /\ c = serving /\ ~call[c].late
    /\ call' = [call EXCEPT ![c].late = TRUE]
    /\ UNCHANGED <<ownerVars, waitVars, server, serving, stopSeen, main, stop>>

-----------------------------------------------------------------------------
(* Owner.Ready, by the server or by maintenance                            *)

ReadyLock(t) ==
    /\ ready[t] = "lock" /\ readyMu = "free"
    /\ readyMu' = t
    /\ ready' = [ready EXCEPT ![t] = "check"]
    /\ UNCHANGED <<owner, creds, due, maint, canceled, waitVars, serverVars,
                   main, stop>>

(* Mutant: the context and the pin are checked, the runtime is not.        *)
MutReadyBegin(t) ==
    /\ ready[t] = "check"
    /\ ~Cancelled(t)
    /\ owner.pinned
    /\ ready' = [ready EXCEPT ![t] = "write"]
    /\ UNCHANGED <<owner, creds, due, readyMu, maint, canceled, waitVars,
                   serverVars, main, stop>>

ReadyBegin(t) ==
    /\ ready[t] = "check"
    /\ ~Cancelled(t)
    /\ owner.active /\ child = "live" /\ owner.pinned
    /\ ready' = [ready EXCEPT ![t] = "write"]
    /\ UNCHANGED <<owner, creds, due, readyMu, maint, canceled, waitVars,
                   serverVars, main, stop>>

(* Client key, known hosts file and certificate of the generation.         *)
ReadyWrite(t) ==
    /\ ready[t] = "write"
    /\ creds' = TRUE
    /\ ready' = [ready EXCEPT ![t] = "probe"]
    /\ UNCHANGED <<owner, due, readyMu, maint, canceled, waitVars, serverVars,
                   main, stop>>

(* Address, strict probe, time zone, workspace mounts, second probe.       *)
ReadyProbe(t) ==
    /\ ready[t] = "probe"
    /\ child = "live"
    /\ ready' = [ready EXCEPT ![t] = "publish"]
    /\ UNCHANGED <<owner, creds, due, readyMu, maint, canceled, waitVars,
                   serverVars, main, stop>>

(* The thread leaves Ready and releases the mutex.                         *)
ReadyReturn(t, result) ==
    /\ ready' = [ready EXCEPT ![t] = "idle"]
    /\ readyMu' = "free"
    /\ IF t = "server" THEN Finish(result) ELSE UNCHANGED serverVars

ReadyPublish(t) ==
    /\ ready[t] = "publish"
    /\ owner.active
    /\ owner' = [owner EXCEPT !.established = TRUE]
    /\ due' = FALSE
    /\ maint' = IF maint = "none" \/ t = "maint" THEN "idle" ELSE maint
    /\ ReadyReturn(t, TRUE)
    /\ UNCHANGED <<creds, canceled, waitVars, main, stop>>

(* Any step may fail; a failed write may have left a file.                 *)
ReadyFails(t) ==
    /\ ready[t] \in {"check", "write", "probe", "publish"}
    /\ creds' \in IF ready[t] = "write" THEN {creds, TRUE} ELSE {creds}
    /\ maint' = IF t = "maint" THEN "idle" ELSE maint
    /\ ReadyReturn(t, FALSE)
    /\ UNCHANGED <<owner, due, canceled, waitVars, main, stop>>

ReadyStep(t) ==
    ReadyLock(t) \/ ReadyBegin(t) \/ ReadyWrite(t) \/ ReadyProbe(t)
    \/ ReadyPublish(t) \/ ReadyFails(t)

-----------------------------------------------------------------------------
(* maintainCertificate.  A tick and a cancellation that are both ready are *)
(* chosen between at random, so a cancelled goroutine may still tick.      *)

MaintainTick ==
    /\ maint = "idle"
    /\ owner.active /\ due
    /\ maint' = "renew"
    /\ ready' = [ready EXCEPT !["maint"] = "lock"]
    /\ UNCHANGED <<owner, creds, due, readyMu, canceled, waitVars, serverVars,
                   main, stop>>

MaintainReturn ==
    /\ maint = "idle"
    /\ canceled \/ ~owner.active
    /\ maint' = "done"
    /\ UNCHANGED <<owner, creds, due, readyMu, ready, canceled, waitVars,
                   serverVars, main, stop>>

-----------------------------------------------------------------------------
(* Owner.Wait                                                              *)

WaitReap ==
    /\ waiter = "wait" /\ child = "exited"
    /\ waiter' = "deactivate"
    /\ waitErr' \in BOOLEAN
    /\ UNCHANGED <<child, ownerVars, serverVars, main, stop>>

(* Mutant: the mutex is held while the maintenance goroutine is joined.    *)
MutWaitDeactivate ==
    /\ waiter = "deactivate" /\ readyMu = "free"
    /\ owner' = [owner EXCEPT !.active = FALSE]
    /\ canceled' = (maint # "none")
    /\ readyMu' = IF maint = "none" THEN "free" ELSE "waiter"
    /\ waiter' = IF maint = "none" THEN "clean" ELSE "join"
    /\ UNCHANGED <<creds, due, ready, maint, child, waitErr, serverVars,
                   main, stop>>

WaitDeactivate ==
    /\ waiter = "deactivate" /\ readyMu = "free"
    /\ owner' = [owner EXCEPT !.active = FALSE]
    /\ canceled' = (maint # "none")
    /\ waiter' = IF maint = "none" THEN "clean" ELSE "join"
    /\ UNCHANGED <<creds, due, readyMu, ready, maint, child, waitErr,
                   serverVars, main, stop>>

WaitJoin ==
    /\ waiter = "join" /\ maint = "done"
    /\ waiter' = "clean"
    /\ UNCHANGED <<child, waitErr, ownerVars, serverVars, main, stop>>

(* CleanupGenerationCredentials when a Ready was attempted (only then are  *)
(* there credentials), then the serial line is closed.                     *)
WaitClean ==
    /\ waiter = "clean" /\ readyMu = "free"
    /\ \/ creds' = FALSE /\ UNCHANGED waitErr
       \/ waitErr' = TRUE /\ UNCHANGED creds
    /\ waiter' = "done"
    /\ UNCHANGED <<child, owner, due, readyMu, ready, maint, canceled,
                   serverVars, main, stop>>

-----------------------------------------------------------------------------
(* Clients and the control server                                          *)

(* callRequest: only a generation with a live owner is dialled.            *)
Dial(c, k) ==
    /\ call[c] = NoRequest
    /\ main = "serve"
    /\ call' = [call EXCEPT ![c].kind = k]
    /\ UNCHANGED <<ownerVars, waitVars, server, serving, stopSeen, main, stop>>

ServeAccept(c) ==
    /\ server = "accept" /\ main = "serve"
    /\ call[c] # NoRequest
    /\ server' = "frame" /\ serving' = c
    /\ UNCHANGED <<call, stopSeen, ownerVars, waitVars, main, stop>>

(* The listener is closed, or accepting failed.                            *)
ServeExit ==
    /\ server = "accept"
    /\ server' = "exited"
    /\ call' = [c \in Calls |-> NoRequest]
    /\ UNCHANGED <<serving, stopSeen, ownerVars, waitVars, main, stop>>

Hangup ==
    /\ server' = "accept" /\ serving' = NoCall
    /\ call' = [call EXCEPT ![serving] = NoRequest]

(* A frame that does not come in time, or asks for something else.         *)
ServeDrop ==
    /\ server = "frame"
    /\ Hangup
    /\ UNCHANGED <<stopSeen, ownerVars, waitVars, main, stop>>

(* handleControl: the deadline of the call is still ahead.                 *)
ServeAdmit ==
    /\ server = "frame"
    /\ ~call[serving].late
    /\ server' = IF call[serving].kind = "clipboard" THEN "clipboard" ELSE "op"
    /\ ready' = [ready EXCEPT !["server"] =
                    IF call[serving].kind = "ready" THEN "lock" ELSE @]
    /\ stop' = [stop EXCEPT !.pc =
                    IF call[serving].kind = "stop" THEN "enter" ELSE @]
    /\ UNCHANGED <<serving, call, stopSeen, owner, creds, due, readyMu, maint,
                   canceled, waitVars, main>>

(* Owner.Bootstrap: serial exchange once, then admission of the pin.       *)
ServeBootstrap ==
    /\ server = "op" /\ call[serving].kind = "bootstrap"
    /\ \/ /\ ~Expired /\ owner.active /\ child = "live"
          /\ owner' = [owner EXCEPT !.pinned = TRUE]
          /\ Finish(TRUE)
       \/ Finish(FALSE) /\ UNCHANGED owner
    /\ UNCHANGED <<creds, due, readyMu, ready, maint, canceled, waitVars,
                   main, stop>>

(* Actions run between two observations and leave readyMu alone.           *)
ServeOperation ==
    /\ server = "op" /\ call[serving].kind \in {"use", "action"}
    /\ call[serving].kind = "use" => readyMu = "free"
    /\ \/ /\ snapshotReady
          /\ readyMu' = IF call[serving].kind = "use" THEN "server"
                        ELSE readyMu
          /\ server' = "using"
          /\ UNCHANGED <<serving, call, stopSeen>>
       \/ Finish(FALSE) /\ UNCHANGED readyMu
    /\ UNCHANGED <<owner, creds, due, ready, maint, canceled, waitVars,
                   main, stop>>

(* The result counts only while the same runtime is still READY.           *)
ServeResult ==
    /\ server = "using"
    /\ readyMu' = IF readyMu = "server" THEN "free" ELSE readyMu
    /\ \/ snapshotReady /\ ~Expired /\ Finish(TRUE)
       \/ Finish(FALSE)
    /\ UNCHANGED <<owner, creds, due, ready, maint, canceled, waitVars,
                   main, stop>>

(* A reply after the deadline is not received.                             *)
ServeAnswer ==
    /\ server = "answer"
    /\ Hangup
    /\ \/ /\ ~call[serving].late
          /\ stopSeen' = (stopSeen \/ call[serving].ok)
       \/ UNCHANGED stopSeen
    /\ UNCHANGED <<ownerVars, waitVars, main, stop>>

-----------------------------------------------------------------------------
(* The stop closure: a cooperative request once, then a forced stop, then  *)
(* a bounded wait for the reap.  Both requests cancel the maintenance.     *)

StopReturn(result) ==
    IF main = "stop"
    THEN main' = "reap" /\ UNCHANGED serverVars
    ELSE UNCHANGED main /\ Finish(result)

StopEnter ==
    /\ stop.pc = "enter"
    /\ \/ /\ reaped
          /\ stop' = [stop EXCEPT !.pc = "idle"]
          /\ StopReturn(~stop.failed /\ ~waitErr)
          /\ UNCHANGED canceled
       \/ /\ ~reaped /\ stop.sent
          /\ stop' = [stop EXCEPT !.pc = "await"]
          /\ UNCHANGED <<main, serverVars, canceled>>
       \/ /\ ~reaped /\ ~stop.sent /\ stop.grace
          /\ stop' = [stop EXCEPT !.pc = "force"]
          /\ UNCHANGED <<main, serverVars, canceled>>
       \/ /\ ~reaped /\ ~stop.sent /\ ~stop.grace
          /\ canceled' = (canceled \/ maint # "none")
          /\ \E pc \in {"window", "force"} :
                stop' = [stop EXCEPT !.pc = pc, !.grace = TRUE]
          /\ UNCHANGED <<main, serverVars>>
    /\ UNCHANGED <<owner, creds, due, readyMu, ready, maint, waitVars>>

StopWindow ==
    /\ stop.pc = "window"
    /\ \/ /\ reaped
          /\ stop' = [stop EXCEPT !.pc = "idle"]
          /\ StopReturn(~waitErr)
       \/ /\ stop' = [stop EXCEPT !.pc = "force"]
          /\ UNCHANGED <<main, serverVars>>
    /\ UNCHANGED <<ownerVars, waitVars>>

StopForce ==
    /\ stop.pc = "force"
    /\ \/ /\ reaped
          /\ stop' = [stop EXCEPT !.pc = "idle"]
          /\ StopReturn(~waitErr)
          /\ UNCHANGED canceled
       \/ /\ ~reaped
          /\ canceled' = (canceled \/ maint # "none")
          /\ \/ /\ stop' = [stop EXCEPT !.pc = "await", !.sent = TRUE,
                                        !.failed = FALSE]
                /\ UNCHANGED <<main, serverVars>>
             \/ /\ stop' = [stop EXCEPT !.pc = "idle", !.failed = TRUE]
                /\ StopReturn(FALSE)
    /\ UNCHANGED <<owner, creds, due, readyMu, ready, maint, waitVars>>

StopAwait ==
    /\ stop.pc = "await"
    /\ stop' = [stop EXCEPT !.pc = "idle"]
    /\ \/ reaped /\ StopReturn(~waitErr)
       \/ StopReturn(FALSE)
    /\ UNCHANGED <<ownerVars, waitVars>>

-----------------------------------------------------------------------------
(* supervisor.Run                                                          *)

(* The machine is reaped, the server ended, or the process was signalled;  *)
(* the listener is closed.                                                 *)
RunLeaves ==
    /\ main = "serve"
    /\ main' = "join"
    /\ UNCHANGED <<ownerVars, waitVars, serverVars, stop>>

RunJoins ==
    /\ main = "join" /\ server = "exited"
    /\ main' = "stop"
    /\ stop' = [stop EXCEPT !.pc = "enter"]
    /\ UNCHANGED <<ownerVars, waitVars, serverVars>>

(* finish: ownership is retained until the reap.  The generation is        *)
(* removed unless the socket or the cleanup is in doubt.                   *)
RunEnds ==
    /\ main = "reap" /\ reaped
    /\ main' = "ended"
    /\ UNCHANGED <<ownerVars, waitVars, serverVars, stop>>

-----------------------------------------------------------------------------
OwnerNext ==
    \/ \E t \in Threads : ReadyStep(t)
    \/ MaintainTick \/ MaintainReturn
    \/ WaitReap \/ WaitDeactivate \/ WaitJoin \/ WaitClean

ServerNext ==
    \/ \E c \in Calls : ServeAccept(c)
    \/ ServeExit \/ ServeDrop \/ ServeAdmit
    \/ ServeBootstrap \/ ServeOperation \/ ServeResult
    \/ ServeAnswer

RunNext ==
    \/ StopEnter \/ StopWindow \/ StopForce \/ StopAwait
    \/ RunLeaves \/ RunJoins \/ RunEnds

ControlNext ==
    \/ RenewalRequired
    \/ \E c \in Calls : DeadlinePasses(c)
    \/ \E c \in Calls, k \in Kinds \ {"clipboard"} : Dial(c, k)
    \/ OwnerNext \/ ServerNext \/ RunNext

-----------------------------------------------------------------------------
(* Properties                                                              *)

(* Once Wait has returned without an error, no credential of the           *)
(* generation is on disk and none is written again, although Ready calls   *)
(* may still come from the server (owner.go Wait, Ready).                  *)
CredentialsGone == reaped /\ ~waitErr => ~creds

(* A stop that a client sees succeed means that the machine is gone and    *)
(* its credentials are cleaned up (supervisor.go stop, owner.go Wait).     *)
StopHonest ==
    stopSeen => reaped /\ child = "exited" /\ ~creds

(* When Run lets go of the generation, no thread that could touch its      *)
(* directory is left: the server is joined, maintenance has returned and   *)
(* nobody is inside Ready (supervisor.go Run, owner.go Wait).              *)
ReleasedQuiet ==
    main = "ended" =>
        /\ child = "exited" /\ server = "exited"
        /\ maint \in {"none", "done"}
        /\ \A t \in Threads : ready[t] = "idle"

(* Which steps of which thread hold readyMu; Wait only ever finds it free. *)
Holding == {"check", "write", "probe", "publish"}
MutexExact ==
    /\ readyMu # "waiter"
    /\ \A t \in Threads : ready[t] \in Holding => readyMu = t
    /\ readyMu = "maint" => ready["maint"] \in Holding
    /\ readyMu = "server" =>
           ready["server"] \in Holding
           \/ (server = "using" /\ call[serving].kind = "use")
    /\ server = "using" /\ call[serving].kind = "use" => readyMu = "server"

(* One operation at a time on the server, and one thread inside the stop   *)
(* closure: Run enters it only after the server is joined.                 *)
ServerExact ==
    /\ serving = NoCall <=> server \in {"accept", "exited"}
    /\ serving # NoCall => call[serving].kind # "none"
    /\ \A c \in Calls : call[c].kind = "none" => ~call[c].late /\ ~call[c].ok
    /\ server = "using" => call[serving].kind \in {"use", "action"}
    /\ ready["server"] # "idle" => server = "op" /\ call[serving].kind = "ready"
    /\ stop.pc # "idle" =>
           main = "stop" \/ (server = "op" /\ call[serving].kind = "stop")
    /\ main \in {"stop", "reap", "ended"} => server = "exited"
    /\ \A c \in Calls : call[c].ok => reaped /\ ~waitErr
    /\ stopSeen => reaped /\ ~waitErr

(* How far Wait is tells what the other threads can still do.              *)
WaitExact ==
    /\ waiter # "wait" => child = "exited"
    /\ waiter \in {"join", "clean", "done"} =>
           ~owner.active /\ \A t \in Threads : ready[t] \in {"idle", "lock", "check"}
    /\ waiter \in {"clean", "done"} => maint \in {"none", "done"}
    /\ ready["maint"] # "idle" => maint = "renew"
    /\ main = "ended" => reaped

(* What each blocked thread waits for without a deadline: the holder of    *)
(* readyMu, the maintenance goroutine, the server or the reap.             *)
WaitsFor(p) ==
    CASE p = "main" /\ main = "join" /\ server # "exited" -> "server"
      [] p = "main" /\ main = "reap" /\ ~reaped -> "waiter"
      [] p = "waiter" /\ waiter = "join" /\ maint # "done" -> "maint"
      [] \/ p = "waiter" /\ waiter \in {"deactivate", "clean"}
         \/ p \in Threads /\ ready[p] = "lock"
         \/ p = "server" /\ server = "op" /\ call[serving].kind = "use"
            -> readyMu
      [] OTHER -> "free"

(* No threads wait on each other in a circle, so that an exited machine is *)
(* always reaped and its generation released.  Wait joins maintenance,     *)
(* which may be about to take readyMu, and cleans up under readyMu itself; *)
(* Run joins a server that may hold it (owner.go Wait, supervisor.go Run). *)
NoCyclicWait ==
    \A p \in {"main", "server", "waiter", "maint"} :
        WaitsFor(WaitsFor(WaitsFor(WaitsFor(p)))) = "free"

=============================================================================
