----------------------------- MODULE CuRoboBridge ------------------------------
(***************************************************************************)
(* The cuRobo planner behind its process boundary: the bridge in the job's *)
(* process (astra_ros/curobo_bridge.py), the planning service in its own   *)
(* (scripts/curobo_plan_server.py), and the three pipes between them.      *)
(*                                                                         *)
(* A request or an answer is the number of the plan call it belongs to.    *)
(* Call 0 is the constructor, which waits for the service to announce that *)
(* it is ready.  Time is a deadline that has passed or has not.            *)
(***************************************************************************)
EXTENDS Integers, Sequences

CONSTANTS
    MaxCalls,       \* bound: plan calls
    MaxNoise,       \* bound: lines on stdout that are not the protocol's
    StderrRoom,     \* writes that fit the pipe of stderr
    MayBeLate,      \* may a deadline pass before the answer?
    MayDie,         \* may the service crash?
    MayHang,        \* may a solve never end?
    MayWarn         \* do its libraries write to stderr?

ASSUME BridgeAssumption ==
    /\ MaxCalls \in Nat /\ MaxNoise \in Nat /\ StderrRoom \in Nat
    /\ {MayBeLate, MayDie, MayHang, MayWarn} \subseteq BOOLEAN

(* Lines that answer no plan call. *)
Ready == 0          \* the announcement, which answers call 0
NotReady == -1      \* its failure
Noise == -2         \* a line json.loads refuses

Failed == 0         \* a call's result without a response of the service

VARIABLES
    client,         \* what the thread of the job is doing: see ClientState
    call,           \* number of the plan call made last
    late,           \* has the deadline of this _recv passed?
    result,         \* what the last finished plan call returned
    abandoned,      \* plan calls given up while their answer was still to come
    toServer,       \* stdin of the service
    toClient,       \* its stdout
    errors,         \* writes in its stderr, which nobody reads while it runs
    server,         \* what the service is doing: see ServerState
    job,            \* the call it works on, or worked on last
    noise           \* lines of noise so far

clientVars == <<client, call, late, result, abandoned>>
serverVars == <<server, job, noise>>
pipes == <<toServer, toClient, errors>>
bridgeVars == <<clientVars, serverVars, pipes>>

(* "check": at the head of the loop of _recv; "read": in readline; "idle":   *)
(* between two plan calls; "drain": in stderr.read() of a failed start;      *)
(* "refused": RuntimeError raised; "broken": BrokenPipeError raised; "gone": *)
(* the job's process has exited.                                             *)
ClientState == {"check", "read", "idle", "drain", "refused", "broken", "gone"}

(* "stuck": blocked in a write to a full stderr; "hung": in a solve that     *)
(* does not end.                                                             *)
ServerState == {"booting", "idle", "planning", "stuck", "hung", "exited"}

Calls == 1 .. MaxCalls
Working == server \in {"booting", "planning"}
Alive == server # "exited"

Init ==
    /\ client = "check"
    /\ call = 0
    /\ late = FALSE
    /\ result = Failed
    /\ abandoned = 0
    /\ toServer = <<>>
    /\ toClient = <<>>
    /\ errors = 0
    /\ server = "booting"
    /\ job = 0
    /\ noise = 0

-------------------------------------------------------------------------------
(* The job's process.                                                       *)

(* plan() on a service that has died: the write breaks the pipe.            *)
AskDead ==
    /\ client = "idle"
    /\ call < MaxCalls
    /\ ~ Alive
    /\ client' = "broken"
    /\ UNCHANGED <<call, late, result, abandoned, serverVars, pipes>>

Ask ==
    /\ client = "idle"
    /\ call < MaxCalls
    /\ Alive
    /\ call' = call + 1
    /\ toServer' = Append(toServer, call + 1)
    /\ late' = FALSE
    /\ client' = "check"
    /\ UNCHANGED <<result, abandoned, serverVars, toClient, errors>>

DeadlinePasses ==
    /\ MayBeLate
    /\ client \in {"check", "read"}
    /\ ~ late
    /\ late' = TRUE
    /\ UNCHANGED <<client, call, result, abandoned, serverVars, pipes>>

(* _recv returns None: a plan call failed, or the service did not start.    *)
GiveUp ==
    IF call = 0
    THEN /\ client' = "drain"
         /\ UNCHANGED <<result, abandoned>>
    ELSE /\ client' = "idle"
         /\ result' = Failed
         /\ abandoned' = abandoned + 1

(* The head of the loop: the deadline first, then whether the service lives. *)
CheckDeadlineOnly ==
    /\ client = "check"
    /\ IF late THEN GiveUp ELSE client' = "read" /\ UNCHANGED <<result, abandoned>>
    /\ UNCHANGED <<call, late, serverVars, pipes>>
Check ==
    /\ client = "check"
    /\ IF late \/ ~ Alive THEN GiveUp ELSE client' = "read" /\ UNCHANGED <<result, abandoned>>
    /\ UNCHANGED <<call, late, serverVars, pipes>>

(* readline returned a line that is not JSON: round the loop again.         *)
NoiseGivesUp ==
    /\ client = "read"
    /\ toClient # <<>> /\ Head(toClient) = Noise
    /\ toClient' = Tail(toClient)
    /\ GiveUp
    /\ UNCHANGED <<call, late, toServer, errors, serverVars>>
ReadNoise ==
    /\ client = "read"
    /\ toClient # <<>> /\ Head(toClient) = Noise
    /\ toClient' = Tail(toClient)
    /\ client' = "check"
    /\ UNCHANGED <<call, late, result, abandoned, toServer, errors, serverVars>>

(* readline returned a line of the protocol: the caller gets it, as it is.  *)
ReadAnswer ==
    /\ client = "read"
    /\ toClient # <<>> /\ Head(toClient) # Noise
    /\ toClient' = Tail(toClient)
    /\ IF call = 0
       THEN /\ client' = IF Head(toClient) = Ready THEN "idle" ELSE "drain"
            /\ UNCHANGED result
       ELSE /\ client' = "idle"
            /\ result' = Head(toClient)
    /\ UNCHANGED <<call, late, abandoned, toServer, errors, serverVars>>

(* readline at the end of the stream of a dead service returns at once.     *)
ReadEOF ==
    /\ client = "read"
    /\ toClient = <<>>
    /\ ~ Alive
    /\ client' = "check"
    /\ UNCHANGED <<call, late, result, abandoned, serverVars, pipes>>

(* The constructor failed: stderr.read() returns only at end of stream, and  *)
(* what it reads meanwhile lets a blocked service write on.                  *)
Drain ==
    /\ client = "drain"
    /\ errors > 0
    /\ errors' = 0
    /\ server' = IF server = "stuck" THEN "booting" ELSE server
    /\ UNCHANGED <<clientVars, toServer, toClient, job, noise>>

Refuse ==
    /\ client = "drain"
    /\ ~ Alive
    /\ client' = "refused"
    /\ UNCHANGED <<call, late, result, abandoned, serverVars, pipes>>

(* The job ends; nothing calls shutdown(), the pipes close with the process. *)
Leave ==
    /\ client = "idle"
    /\ client' = "gone"
    /\ UNCHANGED <<call, late, result, abandoned, serverVars, pipes>>

Left == client \in {"refused", "broken", "gone"}

-------------------------------------------------------------------------------
(* The service's process.                                                   *)

Emit(line) == toClient' = Append(toClient, line)

Announce ==
    /\ server = "booting"
    /\ server' = "idle"
    /\ Emit(Ready)
    /\ UNCHANGED <<clientVars, toServer, errors, job, noise>>

(* cuRobo cannot be imported, or its planner cannot be built. *)
AnnounceFailure ==
    /\ server = "booting"
    /\ server' = "exited"
    /\ Emit(NotReady)
    /\ UNCHANGED <<clientVars, toServer, errors, job, noise>>

TakeNewest ==
    /\ server = "idle"
    /\ toServer # <<>>
    /\ job' = toServer[Len(toServer)]
    /\ toServer' = <<>>
    /\ server' = "planning"
    /\ UNCHANGED <<clientVars, toClient, errors, noise>>
TakeRequest ==
    /\ server = "idle"
    /\ toServer # <<>>
    /\ job' = Head(toServer)
    /\ toServer' = Tail(toServer)
    /\ server' = "planning"
    /\ UNCHANGED <<clientVars, toClient, errors, noise>>

(* A trajectory, no solution or an exception: one line for every request;    *)
(* with nobody left to read it the write fails and ends the service.         *)
AnswerOnlySuccess ==
    /\ server = "planning"
    /\ server' = "idle"
    /\ toClient' \in {toClient, Append(toClient, job)}
    /\ UNCHANGED <<clientVars, toServer, errors, job, noise>>
Answer ==
    /\ server = "planning"
    /\ server' = IF Left THEN "exited" ELSE "idle"
    /\ Emit(job)
    /\ UNCHANGED <<clientVars, toServer, errors, job, noise>>

(* stdin at end of stream ends the loop over its lines. *)
EndOfInputIgnored == FALSE /\ UNCHANGED bridgeVars
EndOfInput ==
    /\ server = "idle"
    /\ toServer = <<>>
    /\ Left
    /\ server' = "exited"
    /\ UNCHANGED <<clientVars, pipes, job, noise>>

PrintNoise ==
    /\ Working
    /\ ~ Left
    /\ noise < MaxNoise
    /\ Emit(Noise)
    /\ noise' = noise + 1
    /\ UNCHANGED <<clientVars, toServer, errors, server, job>>

(* A warning goes to stderr; when its pipe is full the write blocks.        *)
Warn ==
    /\ MayWarn
    /\ Working
    /\ ~ Left
    /\ IF errors < StderrRoom
       THEN errors' = errors + 1 /\ UNCHANGED server
       ELSE server' = "stuck" /\ UNCHANGED errors
    /\ UNCHANGED <<clientVars, toServer, toClient, job, noise>>

(* Its write to the stderr of a process that has exited fails and ends it.  *)
PipesBreak ==
    /\ server = "stuck"
    /\ Left
    /\ server' = "exited"
    /\ UNCHANGED <<clientVars, pipes, job, noise>>

Hang ==
    /\ MayHang
    /\ Working
    /\ server' = "hung"
    /\ UNCHANGED <<clientVars, pipes, job, noise>>

Die ==
    /\ MayDie
    /\ Alive
    /\ server' = "exited"
    /\ UNCHANGED <<clientVars, pipes, job, noise>>

-------------------------------------------------------------------------------
ClientStep == Check \/ ReadNoise \/ ReadAnswer \/ ReadEOF \/ Drain \/ Refuse
ServerStep == Announce \/ AnnounceFailure \/ TakeRequest \/ Answer \/ EndOfInput \/ PipesBreak
Next ==
    \/ Ask \/ AskDead \/ DeadlinePasses \/ ClientStep \/ Leave
    \/ ServerStep \/ PrintNoise \/ Warn \/ Hang \/ Die

(* Both processes are scheduled, and time passes.  Nothing makes the job ask *)
(* again or leave, and nothing makes a library print, hang or crash.         *)
Fairness ==
    /\ WF_bridgeVars(ClientStep)
    /\ WF_bridgeVars(ServerStep)
    /\ WF_bridgeVars(DeadlinePasses)

(* The job has left or has no call left to make, and nothing more happens.  *)
Quiet ==
    /\ client = "idle" \/ Left
    /\ UNCHANGED bridgeVars

Spec == Init /\ [][Next \/ Quiet]_bridgeVars /\ Fairness
-------------------------------------------------------------------------------
(* The properties.                                                          *)

UnderWay == call > 0 /\ client \in {"check", "read"}

(* What has been asked and not yet been read: answers on their way, the     *)
(* request being worked on, requests still to be taken.                     *)
CallsOn(pipe) == {pipe[k] : k \in DOMAIN pipe} \cap Calls
Busy == server \in {"planning", "stuck", "hung"} /\ job > 0
InWork == IF Busy THEN {job} ELSE {}

(* The lines of a pipe that are calls are each on it once, in order.        *)
InStep(pipe) ==
    \A j, k \in DOMAIN pipe :
        j < k /\ pipe[j] \in Calls /\ pipe[k] \in Calls => pipe[j] < pipe[k]

Before(earlier, later) == \A a \in earlier, b \in later : a < b

(* curobo_plan_server.py:10, one object per line, in and out: while the     *)
(* service lives, every request is answered once and in order, those given  *)
(* up included; what is pending is the calls given up and the one under way.*)
InOrder ==
    Alive =>
        /\ CallsOn(toClient) \cup InWork \cup CallsOn(toServer) =
               (call - abandoned + (IF UnderWay THEN 0 ELSE 1)) .. call
        /\ InStep(toClient) /\ InStep(toServer)
        /\ Before(CallsOn(toClient), InWork \cup CallsOn(toServer))
        /\ Before(InWork, CallsOn(toServer))

(* curobo_bridge.py:60-66: nothing ties an answer to its call but its place *)
(* in the stream, so each call given up sets every later answer back by one,*)
(* by one only, and for good.                                               *)
AnswersLag ==
    client = "idle" /\ result \in Calls => result = call - abandoned

(* curobo_bridge.py:36-47, 65: every plan call returns, even one whose      *)
(* answer died with the service.  It does with a service that answers or    *)
(* dies, and does not with one that hangs: readline has no deadline.        *)
PlanCallsReturn == UnderWay ~> ~ UnderWay

(* curobo_plan_server.py:92: nobody calls shutdown(), and still no service  *)
(* outlives the job that started it, however that job ended.                *)
ServiceEnds == Left ~> ~ Alive

(* planner_port.py:38-40: while no deadline is missed, the two processes    *)
(* together behave as one planner that is asked and answers.                *)
Service == INSTANCE PlanService WITH
    Limit <- MaxCalls, asked <- call, busy <- UnderWay, reply <- result

ImplementsPlanService == Service!Spec

-------------------------------------------------------------------------------
(* What comments in the code promise and the code does not do.              *)

(* curobo_bridge.py:51, "One plan call. Returns the raw response dict": what *)
(* plan() returns is the response to the request it sent.                    *)
AnswersThisCall ==
    client = "idle" /\ result \in Calls => result = call
===============================================================================
