-------------------------- MODULE CuRoboBridgeProofs --------------------------
(***************************************************************************)
(* Proofs about CuRoboBridge, for any number of calls, any noise and any   *)
(* size of the pipe of stderr: in which order requests are answered, how   *)
(* far answers lag behind their calls, and that bridge and service         *)
(* implement PlanService while no deadline is missed.                      *)
(***************************************************************************)
EXTENDS CuRoboBridge, SequenceTheorems, TLAPS

Start == {Ready, NotReady}
Line == Start \cup {Noise} \cup Calls

BridgeTypeOK ==
    /\ client \in ClientState
    /\ call \in 0 .. MaxCalls
    /\ late \in BOOLEAN
    /\ result \in Line /\ (call = 0 => result = Failed)
    /\ abandoned \in Nat
    /\ toServer \in Seq(Calls)
    /\ toClient \in Seq(Line)
    /\ server \in ServerState
    /\ job \in 0 .. call

OnPipe(line) == \E k \in DOMAIN toClient : toClient[k] = line

(* The announcement is made once, at the end of booting, and read before    *)
(* any call is made.                                                        *)
AnnouncedOnce ==
    /\ \A j, k \in DOMAIN toClient : toClient[j] \in Start /\ toClient[k] \in Start => j = k
    /\ client = "idle" \/ call > 0 \/ server \in {"booting", "stuck"} =>
           \A line \in Start : ~ OnPipe(line)
    /\ server = "booting" => call = 0 /\ client \in {"check", "read", "drain"}
    /\ server = "planning" => job > 0
    /\ client = "drain" => call = 0

(* The requests not yet taken are the latest ones, in order.                *)
RequestsOK ==
    /\ Len(toServer) = call - job
    /\ \A k \in DOMAIN toServer : toServer[k] = job + k

(* The call whose answer is read next: each call given up sets it back.     *)
Oldest == call - abandoned + (IF UnderWay THEN 0 ELSE 1)

(* The answers on the pipe are those from there to the last one given, in   *)
(* order.                                                                   *)
AnsweredTo(m) ==
    /\ \A v \in Calls : OnPipe(v) <=> Oldest <= v /\ v <= m
    /\ InStep(toClient)
    /\ Oldest <= m + 1
AnswersOK ==
    /\ 1 <= Oldest
    /\ \E m \in {job - 1, job} :
          /\ server \in {"booting", "idle"} => m = job
          /\ Busy => m = job - 1
          /\ AnsweredTo(m)

BridgeOK == BridgeTypeOK /\ AnnouncedOnce /\ RequestsOK /\ AnswersOK /\ AnswersLag

-------------------------------------------------------------------------------
(* Pipes.                                                                   *)

LEMMA Appended ==
    ASSUME NEW S, NEW q \in Seq(S), NEW x \in S
    PROVE  /\ Append(q, x) \in Seq(S)
           /\ Len(Append(q, x)) = Len(q) + 1 /\ Len(q) \in Nat
           /\ DOMAIN q = 1 .. Len(q)
           /\ DOMAIN Append(q, x) = 1 .. Len(q) + 1
           /\ \A k \in 1 .. Len(q) : Append(q, x)[k] = q[k]
           /\ Append(q, x)[Len(q) + 1] = x
BY AppendProperties, LenProperties

LEMMA Rest ==
    ASSUME NEW S, NEW q \in Seq(S), q # <<>>
    PROVE  /\ Tail(q) \in Seq(S) /\ Head(q) \in S /\ Head(q) = q[1]
           /\ Len(q) \in Nat /\ Len(q) > 0
           /\ Len(Tail(q)) = Len(q) - 1
           /\ DOMAIN q = 1 .. Len(q)
           /\ DOMAIN Tail(q) = 1 .. Len(q) - 1
           /\ \A k \in 1 .. Len(q) - 1 : Tail(q)[k] = q[k + 1]
<1>1. Len(q) \in Nat \ {0}
  BY EmptySeq
<1>2. /\ Head(q) \in S /\ Tail(q) \in Seq(S) /\ Len(Tail(q)) = Len(q) - 1
      /\ \A k \in 1 .. Len(Tail(q)) : Tail(q)[k] = q[k + 1]
  BY HeadTailProperties
<1>3. DOMAIN q = 1 .. Len(q) /\ DOMAIN Tail(q) = 1 .. Len(Tail(q))
  BY <1>2, LenProperties
<1>4. Head(q) = q[1]
  OBVIOUS
<1>5. QED
  BY <1>1, <1>2, <1>3, <1>4

LEMMA Constants ==
    /\ MaxCalls \in Nat /\ Ready = 0 /\ NotReady = -1 /\ Noise = -2 /\ Failed = 0
    /\ Start \cap Calls = {} /\ Noise \notin Start /\ Noise \notin Calls
    /\ Start \subseteq Line /\ Calls \subseteq Line /\ Noise \in Line
BY BridgeAssumption DEF Ready, NotReady, Noise, Failed, Start, Calls, Line

-------------------------------------------------------------------------------
(* What a write and a read do to the answers on the pipe.                   *)

LEMMA Emitted ==
    ASSUME BridgeTypeOK, NEW line \in Line, Emit(line)
    PROVE  /\ toClient' \in Seq(Line)
           /\ Len(toClient) \in Nat
           /\ DOMAIN toClient = 1 .. Len(toClient)
           /\ DOMAIN toClient' = 1 .. Len(toClient) + 1
           /\ \A k \in 1 .. Len(toClient) : toClient'[k] = toClient[k]
           /\ toClient'[Len(toClient) + 1] = line
           /\ \A v : OnPipe(v)' <=> OnPipe(v) \/ v = line
<1>1. /\ toClient' \in Seq(Line)
      /\ Len(toClient) \in Nat
      /\ DOMAIN toClient = 1 .. Len(toClient)
      /\ DOMAIN toClient' = 1 .. Len(toClient) + 1
      /\ \A k \in 1 .. Len(toClient) : toClient'[k] = toClient[k]
      /\ toClient'[Len(toClient) + 1] = line
  BY Appended DEF BridgeTypeOK, Emit
<1>2. \A v : OnPipe(v)' <=> OnPipe(v) \/ v = line
  BY <1>1 DEF OnPipe
<1>3. QED
  BY <1>1, <1>2

LEMMA ReadOff ==
    ASSUME BridgeTypeOK, toClient # <<>>, toClient' = Tail(toClient)
    PROVE  /\ toClient' \in Seq(Line)
           /\ Len(toClient) \in Nat /\ Len(toClient) > 0
           /\ Head(toClient) = toClient[1] /\ Head(toClient) \in Line
           /\ DOMAIN toClient = 1 .. Len(toClient)
           /\ DOMAIN toClient' = 1 .. Len(toClient) - 1
           /\ \A k \in 1 .. Len(toClient) - 1 : toClient'[k] = toClient[k + 1]
           /\ \A v : OnPipe(v) <=> OnPipe(v)' \/ v = Head(toClient)
<1>1. /\ toClient' \in Seq(Line)
      /\ Len(toClient) \in Nat /\ Len(toClient) > 0
      /\ Head(toClient) = toClient[1] /\ Head(toClient) \in Line
      /\ DOMAIN toClient = 1 .. Len(toClient)
      /\ DOMAIN toClient' = 1 .. Len(toClient) - 1
      /\ \A k \in 1 .. Len(toClient) - 1 : toClient'[k] = toClient[k + 1]
  BY Rest DEF BridgeTypeOK
<1>2. ASSUME NEW v
      PROVE  OnPipe(v) <=> OnPipe(v)' \/ v = Head(toClient)
  <2>1. ASSUME OnPipe(v)
        PROVE  OnPipe(v)' \/ v = Head(toClient)
    <3>1. PICK k \in 1 .. Len(toClient) : toClient[k] = v
      BY <1>1, <2>1 DEF OnPipe
    <3>2. CASE k = 1
      BY <1>1, <3>1, <3>2
    <3>3. CASE k # 1
      <4>1. k - 1 \in 1 .. Len(toClient) - 1 /\ (k - 1) + 1 = k
        BY <1>1, <3>3
      <4>2. QED
        BY <1>1, <3>1, <4>1 DEF OnPipe
    <3>4. QED
      BY <3>2, <3>3
  <2>2. ASSUME OnPipe(v)'
        PROVE  OnPipe(v)
    <3>1. PICK k \in 1 .. Len(toClient) - 1 : toClient'[k] = v
      BY <1>1, <2>2 DEF OnPipe
    <3>2. k + 1 \in 1 .. Len(toClient) /\ toClient[k + 1] = v
      BY <1>1, <3>1
    <3>3. QED
      BY <1>1, <3>2 DEF OnPipe
  <2>3. ASSUME v = Head(toClient)
        PROVE  OnPipe(v)
    <3>1. 1 \in DOMAIN toClient
      BY <1>1
    <3>2. QED
      BY <1>1, <2>3, <3>1 DEF OnPipe
  <2>4. QED
    BY <2>1, <2>2, <2>3
<1>3. QED
  BY <1>1, <1>2

(* Steps that leave the answers alone. *)
LEMMA AnswersQuiet ==
    ASSUME BridgeTypeOK, AnswersOK, toClient' = toClient, job' = job, Oldest' = Oldest,
           server' \in {"booting", "idle"} => server \in {"booting", "idle"} \/ job = 0,
           Busy' => Busy
    PROVE  AnswersOK'
<1>1. PICK m \in {job - 1, job} :
          /\ server \in {"booting", "idle"} => m = job
          /\ Busy => m = job - 1
          /\ AnsweredTo(m)
  BY DEF AnswersOK
<1>2. 1 <= Oldest /\ Oldest <= m + 1 /\ Oldest \in Int /\ job \in Int
  BY <1>1 DEF AnswersOK, AnsweredTo, Oldest, BridgeTypeOK
<1>3. job = 0 => m = job
  BY <1>2
<1>4. AnsweredTo(m)'
  BY <1>1 DEF AnsweredTo, InStep, OnPipe
<1>5. QED
  BY <1>1, <1>2, <1>3, <1>4 DEF AnswersOK

LEMMA NoAnswerWritten ==
    ASSUME BridgeTypeOK, AnswersOK, NEW line \in Line \ Calls, Emit(line),
           job' = job, Oldest' = Oldest,
           server' \in {"booting", "idle"} => server \in {"booting", "idle"},
           Busy' => Busy
    PROVE  AnswersOK'
<1>1. PICK m \in {job - 1, job} :
          /\ server \in {"booting", "idle"} => m = job
          /\ Busy => m = job - 1
          /\ AnsweredTo(m)
  BY DEF AnswersOK
<1>2. \A v \in Calls : OnPipe(v)' <=> OnPipe(v)
  BY Emitted
<1>3. \A j, k \in DOMAIN toClient' :
          toClient'[j] \in Calls /\ toClient'[k] \in Calls =>
              /\ j \in DOMAIN toClient /\ toClient'[j] = toClient[j]
              /\ k \in DOMAIN toClient /\ toClient'[k] = toClient[k]
  BY Emitted
<1>4. AnsweredTo(m)'
  BY <1>1, <1>2, <1>3 DEF AnsweredTo, InStep
<1>5. QED
  BY <1>1, <1>4 DEF AnswersOK

LEMMA NoAnswerRead ==
    ASSUME BridgeTypeOK, AnswersOK, toClient # <<>>, toClient' = Tail(toClient),
           Head(toClient) \notin Calls, job' = job, Oldest' = Oldest, server' = server
    PROVE  AnswersOK'
<1>1. PICK m \in {job - 1, job} :
          /\ server \in {"booting", "idle"} => m = job
          /\ Busy => m = job - 1
          /\ AnsweredTo(m)
  BY DEF AnswersOK
<1>2. \A v \in Calls : OnPipe(v)' <=> OnPipe(v)
  BY ReadOff
<1>3. ASSUME NEW j \in DOMAIN toClient', NEW k \in DOMAIN toClient', j < k,
             toClient'[j] \in Calls, toClient'[k] \in Calls
      PROVE  toClient'[j] < toClient'[k]
  <2>1. /\ j + 1 \in DOMAIN toClient /\ toClient'[j] = toClient[j + 1]
        /\ k + 1 \in DOMAIN toClient /\ toClient'[k] = toClient[k + 1]
        /\ j + 1 < k + 1
    BY <1>3, ReadOff
  <2>2. QED
    BY <1>1, <1>3, <2>1 DEF AnsweredTo, InStep
<1>4. AnsweredTo(m)'
  BY <1>1, <1>2, <1>3 DEF AnsweredTo, InStep
<1>5. QED
  BY <1>1, <1>4 DEF AnswersOK, Busy

(* The first answer on the pipe is the oldest one.                          *)
LEMMA OldestFirst ==
    ASSUME BridgeTypeOK, AnswersOK, toClient # <<>>, Head(toClient) \in Calls
    PROVE  Head(toClient) = Oldest
<1>1. PICK m \in {job - 1, job} : AnsweredTo(m)
  BY DEF AnswersOK
<1>2. /\ Len(toClient) \in Nat /\ Len(toClient) > 0
      /\ Head(toClient) = toClient[1]
      /\ DOMAIN toClient = 1 .. Len(toClient)
  BY Rest DEF BridgeTypeOK
<1>3. Oldest <= Head(toClient) /\ Head(toClient) <= m
  BY <1>1, <1>2 DEF AnsweredTo, InStep, OnPipe
<1>4. Oldest \in Calls /\ Oldest \in Int /\ Oldest <= m /\ Head(toClient) \in Int
  BY <1>1, <1>3, BridgeAssumption DEF AnswersOK, Oldest, BridgeTypeOK, Calls
<1>5. PICK k \in DOMAIN toClient : toClient[k] = Oldest
  BY <1>1, <1>4 DEF AnsweredTo, OnPipe
<1>6. k # 1 => Head(toClient) < Oldest
  BY <1>1, <1>2, <1>4, <1>5 DEF AnsweredTo, InStep
<1>7. QED
  BY <1>2, <1>3, <1>4, <1>5, <1>6 DEF Oldest, BridgeTypeOK

LEMMA AnswerRead ==
    ASSUME BridgeTypeOK, AnswersOK, toClient # <<>>, toClient' = Tail(toClient),
           Head(toClient) \in Calls, job' = job, Oldest' = Oldest + 1, server' = server
    PROVE  AnswersOK'
<1>1. PICK m \in {job - 1, job} :
          /\ server \in {"booting", "idle"} => m = job
          /\ Busy => m = job - 1
          /\ AnsweredTo(m)
  BY DEF AnswersOK
<1>2. PICK o \in Int : o = Oldest /\ Head(toClient) = o /\ m \in Int
  BY OldestFirst DEF Oldest, BridgeTypeOK
<1>3. ASSUME NEW j \in DOMAIN toClient', NEW k \in DOMAIN toClient', j < k,
             toClient'[j] \in Calls, toClient'[k] \in Calls
      PROVE  toClient'[j] < toClient'[k]
  <2>1. /\ j + 1 \in DOMAIN toClient /\ toClient'[j] = toClient[j + 1]
        /\ k + 1 \in DOMAIN toClient /\ toClient'[k] = toClient[k + 1]
        /\ j + 1 < k + 1
    BY <1>3, ReadOff
  <2>2. QED
    BY <1>1, <1>3, <2>1 DEF AnsweredTo, InStep
<1>4. ~ OnPipe(o)'
  <2>1. ASSUME NEW k \in DOMAIN toClient', toClient'[k] = o
        PROVE  FALSE
    <3>1. /\ 1 \in DOMAIN toClient /\ toClient[1] = o
          /\ k + 1 \in DOMAIN toClient /\ toClient[k + 1] = o
          /\ 1 < k + 1
      BY <1>2, <2>1, ReadOff
    <3>2. QED
      BY <1>1, <1>2, <3>1 DEF AnsweredTo, InStep
  <2>2. QED
    BY <2>1 DEF OnPipe
<1>5. ASSUME NEW v \in Calls
      PROVE  OnPipe(v)' <=> Oldest' <= v /\ v <= m
  <2>1. OnPipe(v)' <=> OnPipe(v) /\ v # o
    BY <1>2, <1>4, ReadOff
  <2>2. v \in Int
    BY DEF Calls
  <2>3. QED
    BY <1>1, <1>2, <2>1, <2>2 DEF AnsweredTo
<1>6. Oldest' <= m + 1
  <2>1. OnPipe(o) /\ o \in Calls
    BY <1>2, ReadOff
  <2>2. QED
    BY <1>1, <1>2, <2>1 DEF AnsweredTo
<1>7. AnsweredTo(m)'
  BY <1>3, <1>5, <1>6 DEF AnsweredTo, InStep
<1>8. 1 <= Oldest'
  BY <1>2 DEF AnswersOK
<1>9. QED
  BY <1>1, <1>7, <1>8 DEF AnswersOK, Busy

LEMMA AnswerWritten ==
    ASSUME BridgeTypeOK, AnswersOK, Emit(job), job \in Calls, server = "planning",
           job' = job, Oldest' = Oldest, server' \in {"idle", "exited"}
    PROVE  AnswersOK'
<1>1. AnsweredTo(job - 1)
  BY DEF AnswersOK, Busy, Calls
<1>2. Oldest \in Int /\ job \in Int /\ job \in Line /\ Oldest <= job
  BY <1>1 DEF Oldest, BridgeTypeOK, AnsweredTo, Line
<1>3. ASSUME NEW v \in Calls
      PROVE  OnPipe(v)' <=> Oldest' <= v /\ v <= job
  <2>1. OnPipe(v)' <=> OnPipe(v) \/ v = job
    BY <1>2, Emitted
  <2>2. v \in Int
    BY DEF Calls
  <2>3. QED
    BY <1>1, <1>2, <2>1, <2>2 DEF AnsweredTo
<1>4. ASSUME NEW j \in DOMAIN toClient', NEW k \in DOMAIN toClient', j < k,
             toClient'[j] \in Calls, toClient'[k] \in Calls
      PROVE  toClient'[j] < toClient'[k]
  <2>1. j \in DOMAIN toClient /\ toClient'[j] = toClient[j]
    BY <1>2, <1>4, Emitted
  <2>2. CASE k \in DOMAIN toClient
    <3>1. toClient'[k] = toClient[k]
      BY <1>2, <2>2, Emitted
    <3>2. QED
      BY <1>1, <1>4, <2>1, <2>2, <3>1 DEF AnsweredTo, InStep
  <2>3. CASE k \notin DOMAIN toClient
    <3>1. toClient'[k] = job
      BY <1>2, <2>3, Emitted
    <3>2. OnPipe(toClient'[j]) /\ toClient'[j] \in Int
      BY <1>4, <2>1 DEF OnPipe, Calls
    <3>3. toClient'[j] <= job - 1
      BY <1>1, <1>4, <3>2 DEF AnsweredTo
    <3>4. QED
      BY <1>2, <3>1, <3>2, <3>3
  <2>4. QED
    BY <2>2, <2>3
<1>5. AnsweredTo(job)'
  BY <1>2, <1>3, <1>4 DEF AnsweredTo, InStep
<1>6. QED
  BY <1>2, <1>5 DEF AnswersOK, Busy

-------------------------------------------------------------------------------
(* The announcement.                                                        *)

LEMMA AnnouncedQuiet ==
    ASSUME AnnouncedOnce, toClient' = toClient,
           client' = "idle" \/ call' > 0 \/ server' \in {"booting", "stuck"} =>
               client = "idle" \/ call > 0 \/ server \in {"booting", "stuck"},
           server' = "booting" => call' = 0 /\ client' \in {"check", "read", "drain"},
           server' = "planning" => job' > 0,
           client' = "drain" => call' = 0
    PROVE  AnnouncedOnce'
BY DEF AnnouncedOnce, OnPipe

(* No other line is one.                                                    *)
LEMMA AnnouncedOther ==
    ASSUME BridgeTypeOK, AnnouncedOnce, NEW line \in Line \ Start, Emit(line),
           call' = call, client' = client,
           server' \in {"booting", "stuck"} => server \in {"booting", "stuck"},
           server' = "booting" => server = "booting",
           server' = "planning" => job' > 0
    PROVE  AnnouncedOnce'
<1>1. \A start \in Start : OnPipe(start)' <=> OnPipe(start)
  BY Emitted
<1>2. \A k \in DOMAIN toClient' : toClient'[k] \in Start =>
          k \in DOMAIN toClient /\ toClient[k] \in Start
  BY Emitted
<1>3. QED
  BY <1>1, <1>2 DEF AnnouncedOnce

LEMMA AnnouncedNow ==
    ASSUME BridgeOK, NEW line \in Start, Emit(line), server = "booting",
           call' = call, client' = client, server' \in {"idle", "exited"}
    PROVE  AnnouncedOnce'
<1>1. line \in Line
  BY DEF Line
<1>2. \A k \in DOMAIN toClient : toClient[k] \notin Start
  BY DEF BridgeOK, AnnouncedOnce, OnPipe
<1>3. \A k \in DOMAIN toClient' : toClient'[k] \in Start => k = Len(toClient) + 1
  BY <1>1, <1>2, Emitted DEF BridgeOK
<1>4. call = 0 /\ client \in {"check", "read", "drain"}
  BY DEF BridgeOK, AnnouncedOnce
<1>5. QED
  BY <1>3, <1>4 DEF AnnouncedOnce

LEMMA AnnouncedRead ==
    ASSUME BridgeTypeOK, AnnouncedOnce, toClient # <<>>, toClient' = Tail(toClient),
           client \in {"check", "read"}, call' = call, server' = server, job' = job,
           client' \in {"check", "idle"} \/ (client' = "drain" /\ call = 0),
           client' = "idle" => call > 0 \/ Head(toClient) \in Start,
           server = "booting" => client' # "idle"
    PROVE  AnnouncedOnce'
<1>1. \A line \in Start : OnPipe(line)' => OnPipe(line)
  BY ReadOff
<1>2. ASSUME NEW j \in DOMAIN toClient', NEW k \in DOMAIN toClient',
             toClient'[j] \in Start, toClient'[k] \in Start
      PROVE  j = k
  <2>1. /\ j + 1 \in DOMAIN toClient /\ toClient[j + 1] \in Start
        /\ k + 1 \in DOMAIN toClient /\ toClient[k + 1] \in Start
    BY <1>2, ReadOff
  <2>2. j + 1 = k + 1
    BY <2>1 DEF AnnouncedOnce
  <2>3. j \in Int /\ k \in Int
    BY ReadOff
  <2>4. QED
    BY <2>2, <2>3
<1>3. ASSUME Head(toClient) \in Start, NEW line \in Start, OnPipe(line)'
      PROVE  FALSE
  <2>1. PICK k \in DOMAIN toClient' : toClient'[k] = line
    BY <1>3 DEF OnPipe
  <2>2. /\ 1 \in DOMAIN toClient /\ toClient[1] \in Start
        /\ k + 1 \in DOMAIN toClient /\ toClient[k + 1] \in Start
        /\ 1 # k + 1
    BY <1>3, <2>1, ReadOff
  <2>3. QED
    BY <2>2 DEF AnnouncedOnce
<1>4. QED
  BY <1>1, <1>2, <1>3 DEF AnnouncedOnce

-------------------------------------------------------------------------------
(* Every step.                                                              *)

LEMMA OldestKept ==
    ASSUME BridgeTypeOK,
           \/ UNCHANGED <<call, abandoned, UnderWay>>
           \/ call' = call /\ abandoned' = abandoned + 1 /\ UnderWay /\ ~ UnderWay'
    PROVE  Oldest' = Oldest
BY DEF Oldest, BridgeTypeOK

(* Steps that write no line and read none, and take no request. *)
QuietClientStep == AskDead \/ DeadlinePasses \/ Check \/ ReadEOF \/ Drain \/ Refuse \/ Leave
QuietServerStep == EndOfInput \/ Warn \/ PipesBreak \/ Hang \/ Die

LEMMA QuietSteps ==
    ASSUME BridgeOK, QuietClientStep \/ QuietServerStep \/ UNCHANGED bridgeVars
    PROVE  BridgeOK'
<1> USE DEF BridgeOK
<1>1. UNCHANGED <<call, toServer, toClient, job>>
  <2>1. CASE QuietClientStep
    <3>1. CASE AskDead \/ DeadlinePasses
      BY <3>1 DEF AskDead, DeadlinePasses, serverVars, pipes
    <3>2. CASE Check
      BY <3>2 DEF Check, serverVars, pipes
    <3>3. CASE ReadEOF
      BY <3>3 DEF ReadEOF, serverVars, pipes
    <3>4. CASE Drain
      BY <3>4 DEF Drain, clientVars
    <3>5. CASE Refuse \/ Leave
      BY <3>5 DEF Refuse, Leave, serverVars, pipes
    <3>6. QED
      BY <2>1, <3>1, <3>2, <3>3, <3>4, <3>5 DEF QuietClientStep
  <2>2. CASE QuietServerStep
    BY <2>2 DEF QuietServerStep, EndOfInput, Warn, PipesBreak, Hang, Die, clientVars, pipes
  <2>3. CASE UNCHANGED bridgeVars
    BY <2>3 DEF bridgeVars, clientVars, serverVars, pipes
  <2>4. QED
    BY <2>1, <2>2, <2>3
<1>2. CASE UNCHANGED <<clientVars, serverVars>>
  <2>1. AnnouncedOnce' /\ Oldest' = Oldest
    BY <1>1, <1>2, AnnouncedQuiet
       DEF AnnouncedOnce, Oldest, UnderWay, clientVars, serverVars
  <2>2. Busy' = Busy
    BY <1>2 DEF Busy, serverVars
  <2>3. QED
    BY <1>1, <1>2, <2>1, <2>2, AnswersQuiet
       DEF BridgeTypeOK, RequestsOK, AnswersLag, clientVars, serverVars
<1>3. CASE QuietServerStep
  <2>1. /\ UNCHANGED clientVars
        /\ server' \in ServerState \ {"booting", "idle", "planning"} \/ server' = server
        /\ server' = "stuck" => server \in {"booting", "planning", "stuck"}
    BY <1>3 DEF QuietServerStep, EndOfInput, Warn, PipesBreak, Hang, Die, Working, ServerState
  <2>2. BridgeTypeOK' /\ RequestsOK' /\ AnswersLag'
    BY <1>1, <2>1 DEF BridgeTypeOK, RequestsOK, AnswersLag, clientVars
  <2>3. server = "planning" => call > 0
    BY DEF AnnouncedOnce, BridgeTypeOK
  <2>4. AnnouncedOnce'
    BY <1>1, <2>1, <2>3, AnnouncedQuiet DEF AnnouncedOnce, clientVars, ServerState
  <2>5. Oldest' = Oldest
    BY <2>1 DEF Oldest, UnderWay, clientVars
  <2>6. Busy' => Busy
    <3>1. server' = "hung" => server \in {"booting", "planning", "hung"}
      BY <1>3 DEF QuietServerStep, EndOfInput, Warn, PipesBreak, Hang, Die, Working
    <3>2. server = "booting" => job = 0
      BY DEF AnnouncedOnce, BridgeTypeOK
    <3>3. QED
      BY <1>1, <2>1, <3>1, <3>2 DEF Busy
  <2>7. QED
    BY <1>1, <2>1, <2>2, <2>4, <2>5, <2>6, AnswersQuiet
<1>4. CASE QuietClientStep
  <2>1. CASE Drain
    <3>1. /\ UNCHANGED clientVars /\ client = "drain" /\ call = 0 /\ job = 0
          /\ server' = IF server = "stuck" THEN "booting" ELSE server
      BY <2>1 DEF Drain, AnnouncedOnce, BridgeTypeOK
    <3>2. BridgeTypeOK' /\ RequestsOK' /\ AnswersLag'
      BY <1>1, <3>1 DEF BridgeTypeOK, RequestsOK, AnswersLag, clientVars, ServerState
    <3>3. AnnouncedOnce'
      BY <1>1, <3>1, AnnouncedQuiet DEF AnnouncedOnce, clientVars
    <3>4. Oldest' = Oldest
      BY <3>1 DEF Oldest, UnderWay, clientVars
    <3>5. ~ Busy'
      BY <1>1, <3>1 DEF Busy
    <3>6. QED
      BY <1>1, <3>1, <3>2, <3>3, <3>4, <3>5, AnswersQuiet
  <2>2. CASE AskDead \/ DeadlinePasses \/ Check \/ ReadEOF \/ Refuse \/ Leave
    <3>1. /\ server' = server
          /\ late' \in BOOLEAN /\ client' \in ClientState
          /\ \/ /\ UNCHANGED <<result, abandoned, UnderWay>>
                /\ client' # "idle" \/ client = "idle"
             \/ result' = Failed /\ abandoned' = abandoned + 1 /\ UnderWay /\ ~ UnderWay'
          /\ client' = "idle" => client = "idle" \/ call > 0
          /\ client' = "drain" => call = 0
      <4>1. CASE AskDead \/ DeadlinePasses
        BY <1>1, <4>1 DEF AskDead, DeadlinePasses, serverVars, UnderWay, AnnouncedOnce,
                          BridgeTypeOK, ClientState
      <4>2. CASE Check /\ call = 0
        BY <1>1, <4>2 DEF Check, GiveUp, serverVars, UnderWay, BridgeTypeOK, ClientState
      <4>3. CASE Check /\ call # 0
        BY <1>1, <4>3 DEF Check, GiveUp, serverVars, UnderWay, BridgeTypeOK, ClientState
      <4>4. CASE ReadEOF
        BY <1>1, <4>4 DEF ReadEOF, serverVars, UnderWay, BridgeTypeOK, ClientState
      <4>5. CASE Refuse \/ Leave
        BY <1>1, <4>5 DEF Refuse, Leave, serverVars, UnderWay, BridgeTypeOK, ClientState
      <4>6. QED
        BY <2>2, <4>1, <4>2, <4>3, <4>4, <4>5
    <3>2. server = "booting" => client' \in {"check", "read", "drain"} /\ call = 0
      BY <2>2 DEF AskDead, DeadlinePasses, Check, GiveUp, ReadEOF, Refuse, Leave, AnnouncedOnce,
                  Alive
    <3>3. BridgeTypeOK' /\ RequestsOK'
      <4>1. result' \in Line /\ abandoned' \in Nat
        BY <3>1 DEF BridgeTypeOK, Line, Start, Failed, Ready
      <4>2. QED
        BY <1>1, <3>1, <4>1 DEF BridgeTypeOK, RequestsOK
    <3>4. AnswersLag'
      BY <1>1, <3>1, Constants DEF AnswersLag, Calls
    <3>5. AnnouncedOnce'
      BY <1>1, <3>1, <3>2, AnnouncedQuiet DEF AnnouncedOnce
    <3>6. Oldest' = Oldest
      BY <1>1, <3>1, OldestKept
    <3>7. QED
      BY <1>1, <3>1, <3>3, <3>4, <3>5, <3>6, AnswersQuiet DEF Busy
  <2>3. QED
    BY <1>4, <2>1, <2>2 DEF QuietClientStep
<1>5. QED
  BY <1>2, <1>3, <1>4 DEF bridgeVars

LEMMA AskStep ==
    ASSUME BridgeOK, Ask
    PROVE  BridgeOK'
<1> USE DEF BridgeOK
<1>1. /\ client = "idle" /\ client' = "check" /\ call' = call + 1 /\ call + 1 \in Calls
      /\ toServer' = Append(toServer, call + 1)
      /\ late' = FALSE
      /\ UNCHANGED <<result, abandoned, server, job, toClient>>
  <2>1. call \in Nat /\ MaxCalls \in Nat /\ call < MaxCalls
    BY BridgeAssumption DEF Ask, BridgeTypeOK
  <2>2. call + 1 \in Calls
    BY <2>1 DEF Calls
  <2>3. QED
    BY <2>2 DEF Ask, serverVars
<1>2. /\ toServer' \in Seq(Calls)
      /\ Len(toServer') = Len(toServer) + 1 /\ Len(toServer) \in Nat
      /\ DOMAIN toServer = 1 .. Len(toServer)
      /\ DOMAIN toServer' = 1 .. Len(toServer) + 1
      /\ \A k \in 1 .. Len(toServer) : toServer'[k] = toServer[k]
      /\ toServer'[Len(toServer) + 1] = call + 1
  BY <1>1, Appended DEF BridgeTypeOK
<1>3. BridgeTypeOK'
  <2>1. call \in Nat /\ call + 1 # 0 /\ call + 1 \in 0 .. MaxCalls /\ job \in 0 .. call + 1
    BY <1>1, BridgeAssumption DEF BridgeTypeOK, Calls
  <2>2. QED
    BY <1>1, <1>2, <2>1 DEF BridgeTypeOK, ClientState
<1>4. RequestsOK'
  <2>1. Len(toServer) = call - job /\ job \in Int /\ call \in Int
    BY DEF RequestsOK, BridgeTypeOK
  <2>2. ASSUME NEW k \in DOMAIN toServer'
        PROVE  toServer'[k] = job + k
    <3>1. CASE k \in DOMAIN toServer
      BY <1>2, <3>1 DEF RequestsOK
    <3>2. CASE k = Len(toServer) + 1
      BY <1>2, <2>1, <3>2
    <3>3. QED
      BY <1>2, <2>2, <3>1, <3>2
  <2>3. QED
    BY <1>1, <1>2, <2>1, <2>2 DEF RequestsOK
<1>5. AnnouncedOnce'
  <2>1. server # "booting"
    BY <1>1 DEF AnnouncedOnce
  <2>2. QED
    BY <1>1, <2>1, AnnouncedQuiet DEF AnnouncedOnce
<1>6. Oldest' = Oldest
  BY <1>1 DEF Oldest, UnderWay, BridgeTypeOK
<1>7. AnswersOK'
  BY <1>1, <1>6, AnswersQuiet DEF Busy
<1>8. QED
  BY <1>1, <1>3, <1>4, <1>5, <1>7 DEF AnswersLag

(* The announcement is what the constructor reads, and no call reads it.    *)
LEMMA HeadOfPipe ==
    ASSUME BridgeOK, toClient # <<>>
    PROVE  /\ Head(toClient) \in Line /\ OnPipe(Head(toClient))
           /\ Head(toClient) \in Start => call = 0 /\ server # "booting"
<1> USE DEF BridgeOK
<1>1. Head(toClient) \in Line /\ OnPipe(Head(toClient))
  <2>1. /\ Head(toClient) \in Line
        /\ 1 \in DOMAIN toClient /\ toClient[1] = Head(toClient)
    BY Rest DEF BridgeTypeOK
  <2>2. QED
    BY <2>1 DEF OnPipe
<1>2. Head(toClient) \in Start => call = 0 /\ server # "booting"
  BY <1>1 DEF AnnouncedOnce, BridgeTypeOK
<1>3. QED
  BY <1>1, <1>2

LEMMA ReadStep ==
    ASSUME BridgeOK, ReadNoise \/ ReadAnswer
    PROVE  BridgeOK'
<1> USE DEF BridgeOK
<1>1. /\ client = "read" /\ toClient # <<>> /\ toClient' = Tail(toClient)
      /\ UNCHANGED <<call, late, abandoned, toServer, server, job>>
  BY DEF ReadNoise, ReadAnswer, serverVars
<1>2. toClient' \in Seq(Line) /\ Head(toClient) \in Line /\ OnPipe(Head(toClient))
  BY <1>1, ReadOff, HeadOfPipe
<1>3. RequestsOK'
  BY <1>1 DEF RequestsOK
<1>4. Head(toClient) \in Start => call = 0 /\ server # "booting"
  BY <1>1, HeadOfPipe
<1>5. Head(toClient) \in Calls => call > 0
  <2>1. PICK m \in {job - 1, job} : AnsweredTo(m)
    BY DEF AnswersOK
  <2>2. Head(toClient) \in Calls => Head(toClient) <= m
    BY <1>2, <2>1 DEF AnsweredTo
  <2>3. QED
    BY <2>2 DEF BridgeTypeOK, Calls
<1>6. CASE ReadNoise
  <2>1. client' = "check" /\ result' = result /\ Head(toClient) \notin Calls
    BY <1>6, Constants DEF ReadNoise
  <2>2. BridgeTypeOK' /\ AnswersLag'
    BY <1>1, <1>2, <2>1 DEF BridgeTypeOK, ClientState, AnswersLag
  <2>3. AnnouncedOnce'
    BY <1>1, <2>1, AnnouncedRead
  <2>4. Oldest' = Oldest
    BY <1>1, <2>1 DEF Oldest, UnderWay
  <2>5. AnswersOK'
    BY <1>1, <2>1, <2>4, NoAnswerRead
  <2>6. QED
    BY <1>3, <2>2, <2>3, <2>5
<1>7. CASE ReadAnswer /\ call = 0
  <2>1. /\ Head(toClient) \in Start /\ result' = result
        /\ client' = IF Head(toClient) = Ready THEN "idle" ELSE "drain"
    BY <1>2, <1>5, <1>7 DEF ReadAnswer, Line
  <2>2. BridgeTypeOK'
    BY <1>1, <1>2, <2>1 DEF BridgeTypeOK, ClientState
  <2>3. Oldest' = Oldest
    BY <1>1, <1>7 DEF Oldest, UnderWay
  <2>4. AnnouncedOnce'
    BY <1>1, <1>4, <1>7, <2>1, AnnouncedRead
  <2>5. AnswersOK'
    <3>1. Head(toClient) \notin Calls
      BY <2>1, Constants
    <3>2. QED
      BY <1>1, <2>3, <3>1, NoAnswerRead
  <2>6. result \notin Calls
    BY <1>7 DEF BridgeTypeOK, Failed, Calls
  <2>7. QED
    BY <1>3, <2>1, <2>2, <2>4, <2>5, <2>6 DEF AnswersLag
<1>8. CASE ReadAnswer /\ call > 0
  <2>1. /\ Head(toClient) \in Calls
        /\ client' = "idle" /\ result' = Head(toClient)
    BY <1>2, <1>4, <1>8 DEF ReadAnswer, Line
  <2>2. BridgeTypeOK'
    BY <1>1, <1>2, <1>8, <2>1 DEF BridgeTypeOK, ClientState
  <2>3. Oldest = call - abandoned /\ Oldest' = Oldest + 1
    BY <1>1, <1>8, <2>1 DEF Oldest, UnderWay, BridgeTypeOK
  <2>4. AnnouncedOnce'
    BY <1>1, <1>8, <2>1, AnnouncedRead DEF AnnouncedOnce
  <2>5. AnswersOK'
    BY <1>1, <2>1, <2>3, AnswerRead
  <2>6. AnswersLag'
    BY <1>1, <2>1, <2>3, OldestFirst DEF AnswersLag
  <2>7. QED
    BY <1>3, <2>2, <2>4, <2>5, <2>6
<1>9. QED
  BY <1>6, <1>7, <1>8 DEF BridgeTypeOK

LEMMA TakeStep ==
    ASSUME BridgeOK, TakeRequest
    PROVE  BridgeOK'
<1> USE DEF BridgeOK
<1>1. /\ server = "idle" /\ server' = "planning" /\ toServer # <<>>
      /\ job' = Head(toServer) /\ toServer' = Tail(toServer)
      /\ UNCHANGED <<client, call, late, result, abandoned, toClient>>
  BY DEF TakeRequest, clientVars
<1>2. /\ toServer' \in Seq(Calls) /\ Head(toServer) \in Calls /\ Head(toServer) = toServer[1]
      /\ Len(toServer) \in Nat /\ Len(toServer) > 0
      /\ Len(toServer') = Len(toServer) - 1
      /\ DOMAIN toServer = 1 .. Len(toServer)
      /\ DOMAIN toServer' = 1 .. Len(toServer) - 1
      /\ \A k \in 1 .. Len(toServer) - 1 : toServer'[k] = toServer[k + 1]
  BY <1>1, Rest DEF BridgeTypeOK
<1>3. job \in Int /\ call \in Int /\ Len(toServer) = call - job
  BY DEF BridgeTypeOK, RequestsOK
<1>4. job' = job + 1 /\ job + 1 \in 1 .. call
  BY <1>1, <1>2, <1>3 DEF RequestsOK, BridgeTypeOK
<1>5. BridgeTypeOK'
  BY <1>1, <1>2, <1>4 DEF BridgeTypeOK, ServerState
<1>6. RequestsOK'
  <2>1. ASSUME NEW k \in DOMAIN toServer'
        PROVE  toServer'[k] = job' + k
    <3>1. toServer'[k] = toServer[k + 1] /\ k + 1 \in DOMAIN toServer /\ k \in Int
      BY <1>2, <2>1
    <3>2. QED
      BY <1>3, <1>4, <3>1 DEF RequestsOK
  <2>2. QED
    BY <1>1, <1>2, <1>3, <1>4, <2>1 DEF RequestsOK
<1>7. AnnouncedOnce'
  BY <1>1, <1>4, AnnouncedQuiet DEF AnnouncedOnce
<1>8. AnswersOK'
  <2>1. AnsweredTo(job) /\ 1 <= Oldest
    BY <1>1 DEF AnswersOK
  <2>2. PICK m : m = job
    OBVIOUS
  <2>3. AnsweredTo(m)' /\ 1 <= Oldest'
    BY <1>1, <2>1, <2>2 DEF AnsweredTo, InStep, OnPipe, Oldest, UnderWay
  <2>4. m = job' - 1
    BY <1>3, <1>4, <2>2
  <2>5. QED
    BY <1>1, <2>3, <2>4 DEF AnswersOK
<1>9. QED
  BY <1>1, <1>5, <1>6, <1>7, <1>8 DEF AnswersLag

LEMMA WriteStep ==
    ASSUME BridgeOK, Announce \/ AnnounceFailure \/ Answer \/ PrintNoise
    PROVE  BridgeOK'
<1> USE DEF BridgeOK
<1>1. UNCHANGED <<client, call, late, result, abandoned, toServer, job>>
  BY DEF Announce, AnnounceFailure, Answer, PrintNoise, clientVars
<1>2. RequestsOK' /\ AnswersLag' /\ Oldest' = Oldest
  BY <1>1 DEF RequestsOK, AnswersLag, Oldest, UnderWay
<1>3. ASSUME NEW line \in Line, Emit(line), server' \in ServerState
      PROVE  BridgeTypeOK'
  BY <1>1, <1>3, Emitted DEF BridgeTypeOK
<1>4. CASE Announce \/ AnnounceFailure
  <2>1. PICK line \in Start : Emit(line)
    BY <1>4 DEF Announce, AnnounceFailure, Start
  <2>2. server = "booting" /\ server' \in {"idle", "exited"} /\ line \in Line \ Calls
    BY <1>4, Constants DEF Announce, AnnounceFailure
  <2>3. QED
    BY <1>1, <1>2, <1>3, <2>1, <2>2, AnnouncedNow, NoAnswerWritten DEF ServerState, Busy
<1>5. CASE PrintNoise
  <2>1. Emit(Noise) /\ Noise \in Line \ (Calls \cup Start) /\ server' = server
    BY <1>5, Constants DEF PrintNoise
  <2>2. server = "planning" => job > 0
    BY DEF AnnouncedOnce
  <2>3. BridgeTypeOK' /\ AnnouncedOnce' /\ AnswersOK'
    BY <1>1, <1>2, <1>3, <2>1, <2>2, AnnouncedOther, NoAnswerWritten DEF BridgeTypeOK, Busy
  <2>4. QED
    BY <1>2, <2>3
<1>6. CASE Answer
  <2>1. /\ Emit(job) /\ server = "planning" /\ server' \in {"idle", "exited"}
        /\ job \in Calls /\ job \in Line \ Start
    BY <1>6, Constants DEF Answer, AnnouncedOnce, BridgeTypeOK, Calls
  <2>2. BridgeTypeOK' /\ AnnouncedOnce' /\ AnswersOK'
    BY <1>1, <1>2, <1>3, <2>1, AnnouncedOther, AnswerWritten DEF ServerState
  <2>3. QED
    BY <1>2, <2>2
<1>7. QED
  BY <1>4, <1>5, <1>6

LEMMA BridgeStart == Init => BridgeOK
<1> SUFFICES ASSUME Init PROVE BridgeOK
  OBVIOUS
<1>1. <<>> \in Seq(Calls) /\ <<>> \in Seq(Line) /\ Len(<<>>) = 0 /\ DOMAIN <<>> = {}
  BY EmptySeq
<1>2. BridgeTypeOK
  <2>1. 0 \in 0 .. MaxCalls /\ 0 \in 0 .. 0 /\ 0 \in Nat /\ Failed \in Line
    BY BridgeAssumption DEF Failed, Line, Start, Ready
  <2>2. QED
    BY <1>1, <2>1 DEF Init, BridgeTypeOK, ClientState, ServerState
<1>3. \A line : ~ OnPipe(line)
  BY <1>1 DEF Init, OnPipe
<1>4. Oldest = 1
  BY DEF Init, Oldest, UnderWay
<1>5. AnsweredTo(0)
  BY <1>1, <1>3, <1>4 DEF Init, AnsweredTo, InStep, Calls
<1>6. QED
  BY <1>1, <1>2, <1>3, <1>4, <1>5
     DEF Init, BridgeOK, AnnouncedOnce, RequestsOK, AnswersOK, AnswersLag, Busy

LEMMA BridgePreserved == BridgeOK /\ [Next \/ Quiet]_bridgeVars => BridgeOK'
BY QuietSteps, AskStep, ReadStep, TakeStep, WriteStep
   DEF Next, Quiet, ClientStep, ServerStep, QuietClientStep, QuietServerStep

LEMMA BridgeAlways == Spec => []BridgeOK
BY BridgeStart, BridgePreserved, PTL DEF Spec

(* curobo_bridge.py:60-66: a call that gets an answer gets that of as many  *)
(* calls before as have been given up, neither more nor fewer, and for good.*)
THEOREM AnswersLagBehind == Spec => []AnswersLag
BY BridgeAlways, PTL DEF BridgeOK

(* The last answer given is that to the call before the one being worked on. *)
LEMMA LastAnswer ==
    ASSUME BridgeOK, Alive
    PROVE  \E m \in {job - 1, job} :
               /\ AnsweredTo(m)
               /\ Busy => m = job - 1
               /\ ~ Busy => m = job
<1> USE DEF BridgeOK
<1>1. PICK m \in {job - 1, job} :
          /\ server \in {"booting", "idle"} => m = job
          /\ Busy => m = job - 1
          /\ AnsweredTo(m)
  BY DEF AnswersOK
<1>2. 1 <= Oldest /\ Oldest <= m + 1 /\ Oldest \in Int /\ job \in Nat
  BY <1>1 DEF AnswersOK, AnsweredTo, Oldest, BridgeTypeOK
<1>3. ASSUME ~ Busy
      PROVE  m = job
  <2>1. CASE job = 0
    BY <1>2, <2>1
  <2>2. CASE job # 0
    <3>1. server \in {"booting", "idle"}
      BY <1>2, <1>3, <2>2 DEF Busy, Alive, BridgeTypeOK, ServerState
    <3>2. QED
      BY <1>1, <3>1
  <2>3. QED
    BY <2>1, <2>2
<1>4. QED
  BY <1>1, <1>3

LEMMA RequestsToCome ==
    ASSUME BridgeTypeOK, RequestsOK
    PROVE  CallsOn(toServer) = (job + 1) .. call /\ InStep(toServer)
<1>1. /\ DOMAIN toServer = 1 .. Len(toServer) /\ Len(toServer) = call - job
      /\ \A k \in DOMAIN toServer : toServer[k] = job + k /\ toServer[k] \in Calls
      /\ job \in Nat /\ call \in Nat /\ job <= call
  BY ElementOfSeq, LenProperties DEF BridgeTypeOK, RequestsOK
<1>2. ASSUME NEW v \in (job + 1) .. call
      PROVE  v \in CallsOn(toServer)
  <2>1. v - job \in DOMAIN toServer /\ job + (v - job) = v
    BY <1>1, <1>2
  <2>2. QED
    BY <1>1, <2>1 DEF CallsOn
<1>3. ASSUME NEW v \in CallsOn(toServer)
      PROVE  v \in (job + 1) .. call
  <2>1. PICK k \in DOMAIN toServer : v = toServer[k]
    BY <1>3 DEF CallsOn
  <2>2. QED
    BY <1>1, <2>1
<1>4. InStep(toServer)
  BY <1>1 DEF InStep
<1>5. QED
  BY <1>2, <1>3, <1>4

LEMMA PendingInOrder == BridgeOK => InOrder
<1> SUFFICES ASSUME BridgeOK, Alive
             PROVE  /\ CallsOn(toClient) \cup InWork \cup CallsOn(toServer) = Oldest .. call
                    /\ InStep(toClient) /\ InStep(toServer)
                    /\ Before(CallsOn(toClient), InWork \cup CallsOn(toServer))
                    /\ Before(InWork, CallsOn(toServer))
  BY DEF InOrder, Oldest
<1> USE DEF BridgeOK
<1>1. CallsOn(toServer) = (job + 1) .. call /\ InStep(toServer)
  BY RequestsToCome
<1>2. PICK m \in {job - 1, job} :
          AnsweredTo(m) /\ (Busy => m = job - 1) /\ (~ Busy => m = job)
  BY LastAnswer
<1>3. /\ Oldest \in Int /\ 1 <= Oldest /\ Oldest <= m + 1 /\ m \in Int
      /\ job \in Nat /\ call \in Nat /\ job <= call /\ call <= MaxCalls /\ MaxCalls \in Nat
  BY <1>2, BridgeAssumption DEF AnswersOK, AnsweredTo, Oldest, BridgeTypeOK
<1>4. CallsOn(toClient) = Oldest .. m
  <2>1. \A v : v \in CallsOn(toClient) <=> v \in Calls /\ OnPipe(v)
    BY DEF CallsOn, OnPipe
  <2>2. \A v : v \in CallsOn(toClient) <=> v \in Calls /\ Oldest <= v /\ v <= m
    BY <1>2, <2>1 DEF AnsweredTo
  <2>3. \A v : v \in Calls /\ Oldest <= v /\ v <= m <=> v \in Oldest .. m
    BY <1>3 DEF Calls
  <2>4. QED
    BY <2>2, <2>3
<1>5. InStep(toClient)
  BY <1>2 DEF AnsweredTo
<1>6. CASE Busy
  <2>1. InWork = {job} /\ m = job - 1
    BY <1>2, <1>6 DEF InWork
  <2>2. QED
    BY <1>1, <1>3, <1>4, <1>5, <2>1 DEF Before
<1>7. CASE ~ Busy
  <2>1. InWork = {} /\ m = job
    BY <1>2, <1>7 DEF InWork
  <2>2. QED
    BY <1>1, <1>3, <1>4, <1>5, <2>1 DEF Before
<1>8. QED
  BY <1>6, <1>7

(* curobo_plan_server.py:10: while the service lives no request is lost,    *)
(* answered twice or answered out of turn, whatever deadlines are missed.   *)
THEOREM RequestsAnsweredInOrder == Spec => []InOrder
BY BridgeAlways, PendingInOrder, PTL

-------------------------------------------------------------------------------
(* While no deadline is missed.                                             *)

(* Only the death of the service gives a call up, and it ends the calls.    *)
PunctualOK ==
    /\ ~ late
    /\ abandoned > 0 => ~ Alive /\ ~ UnderWay

LEMMA DeadStaysDead ==
    ASSUME Next \/ UNCHANGED bridgeVars, ~ Alive
    PROVE  ~ Alive'
<1>1. CASE Ask \/ AskDead \/ DeadlinePasses \/ Check \/ ReadNoise \/ ReadAnswer \/ ReadEOF
             \/ Refuse \/ Leave
  BY <1>1 DEF Ask, AskDead, DeadlinePasses, Check, ReadNoise, ReadAnswer, ReadEOF, Refuse, Leave,
              serverVars, Alive
<1>2. CASE Drain
  BY <1>2 DEF Drain, Alive
<1>3. CASE ServerStep \/ PrintNoise \/ Warn \/ Hang \/ Die
  BY <1>3 DEF ServerStep, Announce, AnnounceFailure, TakeRequest, Answer, EndOfInput, PipesBreak,
              PrintNoise, Warn, Hang, Die, Working, Alive
<1>4. CASE UNCHANGED bridgeVars
  BY <1>4 DEF bridgeVars, serverVars, Alive
<1>5. QED
  BY <1>1, <1>2, <1>3, <1>4 DEF Next, ClientStep

(* What a step of the two processes is to the caller of the port. *)
CallerStep ==
    \/ Service!Ask
    \/ Service!Reply
    \/ UNCHANGED <<call, UnderWay, result>>

LEMMA PunctualStep ==
    ASSUME MayBeLate = FALSE, BridgeOK, PunctualOK, Next \/ UNCHANGED bridgeVars
    PROVE  PunctualOK' /\ CallerStep
<1> USE DEF BridgeOK
<1>1. abandoned \in Nat /\ call \in Nat /\ (UnderWay => abandoned = 0)
  BY DEF BridgeTypeOK, PunctualOK
<1>2. ASSUME UNCHANGED <<client, call, late, abandoned, result>>
      PROVE  PunctualOK' /\ CallerStep
  BY <1>2, DeadStaysDead DEF PunctualOK, CallerStep, UnderWay
<1>3. CASE ServerStep \/ PrintNoise \/ Warn \/ Hang \/ Die \/ Drain \/ UNCHANGED bridgeVars
  BY <1>2, <1>3
     DEF ServerStep, Announce, AnnounceFailure, TakeRequest, Answer, EndOfInput, PipesBreak,
         PrintNoise, Warn, Hang, Die, Drain, clientVars, bridgeVars
<1>4. CASE Ask
  <2>1. /\ client = "idle" /\ call < MaxCalls /\ Alive
        /\ call' = call + 1 /\ client' = "check" /\ late' = FALSE
        /\ result' = result /\ abandoned' = abandoned
    BY <1>4 DEF Ask
  <2>2. abandoned = 0
    BY <1>1, <2>1 DEF PunctualOK
  <2>3. PunctualOK'
    BY <2>1, <2>2 DEF PunctualOK
  <2>4. ~ UnderWay /\ UnderWay'
    BY <1>1, <2>1 DEF UnderWay
  <2>5. QED
    BY <2>1, <2>3, <2>4 DEF CallerStep, Service!Ask
<1>5. CASE AskDead \/ ReadEOF \/ Refuse \/ Leave \/ ReadNoise
  <2>1. UNCHANGED <<call, late, abandoned, result, UnderWay>>
    BY <1>5 DEF AskDead, ReadEOF, Refuse, Leave, ReadNoise, UnderWay
  <2>2. QED
    BY <2>1, DeadStaysDead DEF PunctualOK, CallerStep
<1>6. CASE Check
  <2>1. /\ client = "check" /\ ~ late
        /\ UNCHANGED <<call, late>> /\ server' = server
    BY <1>6 DEF Check, PunctualOK, serverVars
  <2>2. CASE Alive \/ call = 0
    <3>1. UNCHANGED <<abandoned, result, UnderWay>>
      BY <1>6, <2>1, <2>2 DEF Check, GiveUp, UnderWay
    <3>2. QED
      BY <2>1, <3>1, DeadStaysDead DEF PunctualOK, CallerStep
  <2>3. CASE ~ Alive /\ call # 0
    <3>1. client' = "idle" /\ result' = 0
      BY <1>6, <2>1, <2>3 DEF Check, GiveUp, Failed
    <3>2. UnderWay /\ UnderWay' = FALSE
      BY <1>1, <2>1, <2>3, <3>1 DEF UnderWay
    <3>3. PunctualOK'
      BY <2>1, <2>3, <3>2, DeadStaysDead DEF PunctualOK
    <3>4. QED
      BY <2>1, <3>1, <3>2, <3>3 DEF CallerStep, Service!Reply
  <2>4. QED
    BY <2>2, <2>3
<1>7. CASE ReadAnswer
  <2>1. /\ client = "read" /\ toClient # <<>>
        /\ UNCHANGED <<call, late, abandoned>> /\ server' = server
    BY <1>7 DEF ReadAnswer, serverVars
  <2>2. CASE call = 0
    <3>1. UNCHANGED <<result, UnderWay>>
      BY <1>7, <2>1, <2>2 DEF ReadAnswer, UnderWay
    <3>2. QED
      BY <2>1, <3>1, DeadStaysDead DEF PunctualOK, CallerStep
  <2>3. CASE call # 0
    <3>1. UnderWay /\ abandoned = 0
      BY <1>1, <2>1, <2>3 DEF UnderWay
    <3>2. Head(toClient) \in Calls
      BY <1>7, <2>1, <2>3, HeadOfPipe DEF ReadAnswer, Line
    <3>3. Head(toClient) = call
      BY <1>1, <2>1, <3>1, <3>2, OldestFirst DEF Oldest
    <3>4. client' = "idle" /\ result' = call
      BY <1>7, <2>3, <3>3 DEF ReadAnswer
    <3>5. UnderWay' = FALSE
      BY <3>4 DEF UnderWay
    <3>6. PunctualOK'
      BY <2>1, <3>1, <3>5 DEF PunctualOK
    <3>7. QED
      BY <2>1, <3>1, <3>4, <3>5, <3>6 DEF CallerStep, Service!Reply
  <2>4. QED
    BY <2>2, <2>3
<1>8. CASE DeadlinePasses
  BY <1>8 DEF DeadlinePasses
<1>9. QED
  BY <1>3, <1>4, <1>5, <1>6, <1>7, <1>8 DEF Next, ClientStep

(* The safety part of ImplementsPlanService: bridge and service together    *)
(* are one planner, asked once at a time, whose every reply is an answer to *)
(* the call it was asked or a failure.                                      *)
THEOREM RefinesPlanService ==
    ASSUME MayBeLate = FALSE
    PROVE  Spec => Service!Init /\ [][Service!Next]_(Service!serviceVars)
<1>1. Init => Service!Init /\ PunctualOK
  BY DEF Init, Service!Init, PunctualOK, UnderWay, Failed
<1>2. BridgeOK /\ PunctualOK /\ [Next \/ Quiet]_bridgeVars =>
          PunctualOK' /\ [Service!Next]_(Service!serviceVars)
  BY PunctualStep DEF Quiet, CallerStep, Service!Next, Service!serviceVars
<1>3. QED
  BY <1>1, <1>2, BridgeAlways, PTL DEF Spec
===============================================================================
