-------------------------- MODULE LifecycleProofs ---------------------------
(***************************************************************************)
(* Proofs about Lifecycle, for any number of signals and both validators.  *)
(* Part of the invariant holds whatever signals come; the other part as    *)
(* long as no SIGTERM comes while main is not listening.                   *)
(***************************************************************************)
EXTENDS Lifecycle, SequenceTheorems, TLAPS

(* The elements of a sequence, of the stack and of what has run. *)
Elems(s) == {s[i] : i \in 1..Len(s)}
Stacked  == Elems(stack)
Done     == Elems(ran)

(* The places of main, and those of a flow that runs the exit stack. *)
BeforeKvdb == {"conf", "handlers", "level", "kvdb"}
BeforeApi  == {"store", "catalog", "makeApi"}
AfterApi   == {"routes", "startApi", "waitApi", "apiReady", "makeEngine", "addRoute", "startEngine"}
Executing  == {"take", "pop", "run", "join", "log"}
Leaving    == {"leave", "unwind"}
MainPlaces == {"logger", "addKvdb", "listening"} \union Leaving
                \union BeforeKvdb \union BeforeApi \union AfterApi \union Executing

(* Some flow is about to call the exit function x. *)
Running(x) == \E f \in Flows : at[f] = "run" /\ fn[f] = x

(* TypeOK in three parts. *)
StackOK ==
  /\ stack \in Seq(Functions)
  /\ \A i, j \in 1..Len(stack) : i < j => Before(stack[i], stack[j])

ValuesOK ==
  /\ DOMAIN at = Flows /\ fn \in [Flows -> Functions \union {"none"}]
  /\ code \in {"none", "exit", "return"}
  /\ up \subseteq {"logger", "kvdb", "api", "event"}
  /\ thread \in {"none", "starting", "listening", "unbound", "stopping", "ended"}
  /\ "api" \in up <=> thread \in {"listening", "stopping"}
  /\ engine \in {"null", "made"}
  /\ end \in {"running", "failed", "finished", "aborted", "crashed"}
  /\ ran \in Seq(Functions)

SignalsOK ==
  /\ int \in [Threads -> {"none", "inner", "outer"}]
  /\ lock \in {Free} \union (Threads \X {"base", "term", "int"})

PlacesOK ==
  /\ at[MainFlow] \in MainPlaces
  /\ \A f \in Flows \ {MainFlow} : at[f] \in Executing \union {"none"}

(* Main adds each function once, at its place. *)
AddedSoFar ==
  /\ at[MainFlow] = "logger" => Stacked = {}
  /\ at[MainFlow] \in BeforeKvdb \union {"addKvdb"} => Stacked \subseteq {"logger"}
  /\ at[MainFlow] \in BeforeApi => Stacked \subseteq {"logger", "kvdb"}

(* The API server has no thread before main starts it. *)
NoThreadYet ==
  at[MainFlow] \in {"logger", "addKvdb", "routes", "startApi"} \union BeforeKvdb \union BeforeApi
    => thread = "none"

(* What the start has brought up and added to the stack so far. *)
Started ==
  /\ at[MainFlow] \in MainPlaces \ (Executing \union {"listening"} \union Leaving) => Done = {}
  /\ at[MainFlow] = "logger"     => Stacked = {} /\ up \intersect {"logger", "kvdb"} = {}
  /\ at[MainFlow] \in BeforeKvdb => Stacked = {"logger"} /\ up \intersect {"logger", "kvdb"} = {"logger"}
  /\ at[MainFlow] = "addKvdb"    => Stacked = {"logger"} /\ {"logger", "kvdb"} \subseteq up
  /\ at[MainFlow] \in BeforeApi  => Stacked = {"logger", "kvdb"} /\ {"logger", "kvdb"} \subseteq up
  /\ at[MainFlow] \in AfterApi   => Stacked = Functions /\ {"logger", "kvdb"} \subseteq up

(* One flow runs the stack; what it stops next was added after all that  *)
(* is left and before all that has been stopped.                           *)
InOrder ==
  /\ \A f \in Flows \ {MainFlow} : at[f] # "none" => f = OnTerm("main") /\ at[MainFlow] = "listening"
  /\ ExecutedInOrder
  /\ \A x \in Stacked, y \in Done : Before(x, y)
  /\ \A f \in Flows :
       /\ at[f] = "pop" => stack # <<>> /\ fn[f] = Top(stack)
       /\ at[f] = "run" => /\ \A x \in Stacked : Before(x, fn[f])
                           /\ \A y \in Done : Before(fn[f], y)
  /\ at[MainFlow] \in Leaving => stack = <<>>

(* What is up will be stopped; and while the thread of the API server may *)
(* serve, the stop of that server is still to come, or waits for it.       *)
StopsComing ==
  /\ \A x \in {"logger", "kvdb"} : x \in up =>
       x \in Stacked \/ Running(x) \/ (x = "kvdb" /\ at[MainFlow] = "addKvdb")
  /\ thread \in {"starting", "listening", "stopping"} =>
       /\ {"logger", "kvdb"} \subseteq up \intersect Stacked
       /\ "api" \in Stacked \/ Running("api") \/ \E f \in Flows : at[f] = "join"

AlwaysInv == ValuesOK /\ StackOK /\ PlacesOK /\ AddedSoFar /\ NoThreadYet

(* What holds until a SIGTERM comes that is not main's, or while main is   *)
(* not listening.                                                          *)
Timely == AlwaysInv /\ Started /\ InOrder /\ StopsComing

LifecycleInv == SignalsOK /\ AlwaysInv /\ (~untimely => Started /\ InOrder /\ StopsComing)

-----------------------------------------------------------------------------
LEMMA ElemsFacts ==
  ASSUME NEW s \in Seq(Functions)
  PROVE  Elems(s) \subseteq Functions /\ (Elems(s) = {} <=> s = <<>>)
<1>1. Elems(s) = {} => s = <<>>
  <2>1. s # <<>> => s[1] \in Elems(s)
    BY DEF Elems
  <2> QED
    BY <2>1
<1> QED
  BY <1>1 DEF Elems

LEMMA AppendFacts ==
  ASSUME NEW s \in Seq(Functions), NEW x \in Functions
  PROVE  /\ Append(s, x) \in Seq(Functions)
         /\ Elems(Append(s, x)) = Elems(s) \union {x}
         /\ \A i \in 1..Len(s) : Append(s, x)[i] = s[i] /\ s[i] \in Elems(s)
         /\ Append(s, x)[Len(s) + 1] = x /\ Len(Append(s, x)) = Len(s) + 1
<1>1. /\ Append(s, x) \in Seq(Functions)
      /\ \A i \in 1..Len(s) : Append(s, x)[i] = s[i] /\ s[i] \in Elems(s)
      /\ Append(s, x)[Len(s) + 1] = x /\ Len(Append(s, x)) = Len(s) + 1
  BY DEF Elems
<1>2. Elems(Append(s, x)) \subseteq Elems(s) \union {x}
  BY <1>1 DEF Elems
<1>3. \A i \in 1..Len(s) : s[i] \in Elems(Append(s, x))
  BY <1>1 DEF Elems
<1>4. x \in Elems(Append(s, x))
  BY <1>1 DEF Elems
<1>5. Elems(s) \subseteq Elems(Append(s, x))
  BY <1>3 DEF Elems
<1> QED
  BY <1>1, <1>2, <1>4, <1>5

LEMMA PopFacts ==
  ASSUME NEW s \in Seq(Functions), s # <<>>
  PROVE  LET r == SubSeq(s, 1, Len(s) - 1)
         IN  /\ r \in Seq(Functions) /\ Len(r) = Len(s) - 1
             /\ \A i \in 1..Len(r) : r[i] = s[i]
             /\ Elems(s) = Elems(r) \union {Top(s)}
             /\ Top(s) \in Functions /\ Len(s) \in 1..Len(s)
<1> DEFINE r == SubSeq(s, 1, Len(s) - 1)
<1>1. /\ r \in Seq(Functions) /\ Len(r) = Len(s) - 1
      /\ \A i \in 1..Len(r) : r[i] = s[i]
      /\ Top(s) \in Functions /\ Len(s) \in 1..Len(s)
  <2>1. Len(s) \in Nat /\ Len(s) # 0 /\ s \in [1..Len(s) -> Functions]
    OBVIOUS
  <2>2. Len(s) \in 1..Len(s) /\ 0 + 1 \in 1..Len(s) /\ Len(s) - 1 \in 0..Len(s)
    BY <2>1
  <2>3. r \in Seq(Functions) /\ Len(r) = Len(s) - 1 /\ \A i \in 1..Len(r) : r[i] = s[i]
    BY <2>1, <2>2, SubSeqProperties
  <2> QED
    BY <2>1, <2>2, <2>3 DEF Top
<1> HIDE DEF r
<1>2. Elems(r) \subseteq Elems(s)
  BY <1>1 DEF Elems
<1>3. Top(s) \in Elems(s)
  BY <1>1 DEF Elems, Top
<1>4. \A i \in 1..Len(s) : s[i] \in Elems(r) \union {Top(s)}
  BY <1>1 DEF Elems, Top
<1>5. Elems(s) \subseteq Elems(r) \union {Top(s)}
  BY <1>4 DEF Elems
<1> QED
  BY <1>1, <1>2, <1>3, <1>5 DEF r

(* What the changes of the stack and of the history do to their elements.  *)
LEMMA Pushing ==
  ASSUME StackOK, NEW x \in Functions, \A y \in Stacked : Before(y, x),
         stack' = Added(x)
  PROVE  StackOK' /\ Stacked' = Stacked \union {x}
  BY AppendFacts DEF StackOK, Stacked, Added

LEMMA Popping ==
  ASSUME StackOK, stack # <<>>, stack' = SubSeq(stack, 1, Len(stack) - 1)
  PROVE  /\ StackOK' /\ Stacked = Stacked' \union {Top(stack)} /\ Top(stack) \in Functions
         /\ \A x \in Stacked' : Before(x, Top(stack))
<1>1. /\ stack' \in Seq(Functions) /\ Len(stack') = Len(stack) - 1
      /\ \A i \in 1..Len(stack') : stack'[i] = stack[i]
      /\ Elems(stack) = Elems(stack') \union {Top(stack)}
      /\ Top(stack) \in Functions /\ Len(stack) \in 1..Len(stack)
  BY PopFacts DEF StackOK
<1>2. StackOK'
  BY <1>1 DEF StackOK
<1>3. \A i \in 1..Len(stack') : Before(stack'[i], Top(stack))
  BY <1>1 DEF StackOK, Top
<1>4. \A x \in Stacked' : Before(x, Top(stack))
  BY <1>3 DEF Stacked, Elems
<1> QED
  BY <1>1, <1>2, <1>4 DEF Stacked

LEMMA Beginning ==
  ASSUME ran \in Seq(Functions), NEW x \in Functions, ran' = Append(ran, x)
  PROVE  /\ ran' \in Seq(Functions) /\ Done' = Done \union {x}
         /\ ExecutedInOrder /\ (\A y \in Done : Before(x, y)) => ExecutedInOrder'
<1>1. /\ ran' \in Seq(Functions) /\ Done' = Done \union {x}
      /\ \A i \in 1..Len(ran) : ran'[i] = ran[i] /\ ran[i] \in Done
      /\ ran'[Len(ran) + 1] = x /\ Len(ran') = Len(ran) + 1
  BY AppendFacts DEF Done
<1>2. ASSUME ExecutedInOrder, \A y \in Done : Before(x, y) PROVE ExecutedInOrder'
  <2> SUFFICES ASSUME NEW i \in 1..Len(ran'), NEW j \in 1..Len(ran'), i < j
               PROVE  Before(ran'[j], ran'[i])
    BY DEF ExecutedInOrder
  <2>1. i \in 1..Len(ran) /\ (j \in 1..Len(ran) \/ j = Len(ran) + 1)
    BY <1>1
  <2> QED
    BY <1>1, <1>2, <2>1 DEF ExecutedInOrder
<1> QED
  BY <1>1, <1>2

LEMMA SameElements ==
  /\ UNCHANGED stack => UNCHANGED Stacked
  /\ UNCHANGED ran => UNCHANGED Done /\ (ExecutedInOrder' <=> ExecutedInOrder)
  BY DEF Stacked, Done, ExecutedInOrder

LEMMA TypeParts == TypeOK <=> ValuesOK /\ StackOK /\ SignalsOK
  BY DEF TypeOK, ValuesOK, StackOK, SignalsOK

(* Which flows there are; the proofs need no more of them. *)
LEMMA FlowFacts ==
  /\ MainFlow \in Flows /\ OnTerm("main") \in Flows /\ OnTerm("main") # MainFlow
  /\ \A t \in Threads : OnTerm(t) \in Flows /\ OnTerm(t) # MainFlow
  /\ \A f \in Flows : f = MainFlow \/ \E t \in Threads : f = OnTerm(t)
  BY DEF MainFlow, Flows, Base, OnTerm, Threads

(* Main runs when the handler of SIGTERM does not interrupt it. *)
LEMMA MainRuns == Runs(MainFlow) => ~Over /\ at[OnTerm("main")] = "none"
  BY DEF Runs, Current, MainFlow, Base, OnTerm, OnInt

(* Every step is one of these. *)
LEMMA Steps ==
  ASSUME [Next]_vars
  PROVE  \/ Block \/ Bind \/ Unlisten \/ UNCHANGED vars
         \/ \E f \in Flows : Execute(f)
         \/ \E t \in Threads : IntLog(t) \/ RequestLog(t) \/ SigInt(t) \/ SigTerm(t)
  BY FlowFacts DEF Next, Step, MainStep

-----------------------------------------------------------------------------
(* The handler of SIGINT and the mutex of the logger *)

LEMMA SignalsStep == SignalsOK /\ [Next]_vars => SignalsOK'
<1> SUFFICES ASSUME SignalsOK, [Next]_vars PROVE SignalsOK'
  OBVIOUS
<1> DEFINE Same == int' = int /\ lock' \in {lock, Free}
<1>a. Same => SignalsOK'
  BY DEF SignalsOK
<1>1. CASE Block
  <2>1. UNCHANGED int
    BY <1>1 DEF Block, StartLogger, LoadConf, InstallHandlers, SetLevel, InitKvdb, AddKvdb,
       InitStore, InitCatalog, MakeApi, AddRoutes, StartApi, WaitApi, LogReady, MakeEngine, AddRoute,
       StartEngine, Dangling, Unwind, Leave, Idle, rest, caught
  <2>2. lock' \in {lock, Free}
    BY <1>1 DEF Block, StartLogger, LoadConf, InstallHandlers, SetLevel, InitKvdb, AddKvdb,
       InitStore, InitCatalog, MakeApi, AddRoutes, StartApi, WaitApi, LogReady, MakeEngine, AddRoute,
       StartEngine, Dangling, Unwind, Leave, Goto, LogGoto, Fail, Die, UseEngine, UseLock
  <2> QED
    BY <1>a, <2>1, <2>2
<1>2. ASSUME NEW f \in Flows, Execute(f) PROVE SignalsOK'
  <2>1. lock' \in {lock, Free}
    BY <1>2 DEF Execute, Take, Pop, Return, StopApi, JoinApi, StopKvdb, StopLogger, LogStopped,
       Goto, LogGoto, Die, UseLock
  <2>2. CASE Return(f)
    <3>1. int' \in {int, Resumed(f[1])}
      BY <2>2 DEF Return
    <3>2. Resumed(f[1]) \in [Threads -> {"none", "inner", "outer"}]
      BY DEF SignalsOK, Resumed
    <3> QED
      BY <2>1, <3>1, <3>2 DEF SignalsOK
  <2>3. CASE ~Return(f)
    <3>1. UNCHANGED int
      BY <1>2, <2>3 DEF Execute, Take, Pop, StopApi, JoinApi, StopKvdb, StopLogger, LogStopped,
         Begin, Idle, rest, caught
    <3> QED
      BY <1>a, <2>1, <3>1
  <2> QED
    BY <2>2, <2>3
<1>3. ASSUME NEW t \in Threads, SigInt(t) \/ SigTerm(t) PROVE SignalsOK'
  <2>1. Current(t) \in Threads \X {"base", "term", "int"}
    BY DEF Current, Base, OnTerm, OnInt
  <2>2. lock' \in {lock, Free, Current(t)}
    BY <1>3 DEF SigInt, SigTerm, Interrupt
  <2>3. int' \in [Threads -> {"none", "inner", "outer"}]
    BY <1>3 DEF SigInt, SigTerm, SignalsOK
  <2> QED
    BY <2>1, <2>2, <2>3 DEF SignalsOK
<1>4. ASSUME NEW t \in Threads, IntLog(t) \/ RequestLog(t) PROVE SignalsOK'
  <2>1. lock' = Free
    BY <1>4 DEF IntLog, RequestLog, UseLock
  <2>2. int' \in [Threads -> {"none", "inner", "outer"}]
    BY <1>4 DEF IntLog, RequestLog, SignalsOK, Idle, rest, caught
  <2> QED
    BY <2>1, <2>2 DEF SignalsOK
<1>5. CASE Bind \/ Unlisten \/ UNCHANGED vars
  BY <1>a, <1>5 DEF Bind, Unlisten, vars, rest, caught
<1> QED
  BY <1>1, <1>2, <1>3, <1>4, <1>5, Steps

-----------------------------------------------------------------------------
(* What holds whatever signals come *)

LEMMA AlwaysStep == AlwaysInv /\ [Next]_vars => AlwaysInv'
<1> SUFFICES ASSUME AlwaysInv, [Next]_vars PROVE AlwaysInv'
  OBVIOUS
<1> USE DEF AlwaysInv, MainPlaces, Leaving, BeforeKvdb, BeforeApi, AfterApi, Executing
<1>a. DOMAIN at = Flows /\ MainFlow \in Flows
  BY FlowFacts DEF ValuesOK
<1>b. UNCHANGED stack => StackOK' /\ Stacked' = Stacked
  BY SameElements DEF StackOK
<1>1. CASE StartLogger
  <2>1. StackOK' /\ Stacked' = Stacked \union {"logger"}
    BY <1>1, Pushing DEF StartLogger, AddedSoFar, Main, At, Functions
  <2>2. ValuesOK'
    BY <1>1, <1>a DEF StartLogger, ValuesOK, Goto, rest
  <2> QED
    BY <1>1, <1>a, <2>1, <2>2 DEF StartLogger, Main, At, Goto, PlacesOK, AddedSoFar, NoThreadYet
<1>2. CASE LoadConf \/ InstallHandlers \/ SetLevel \/ InitStore \/ InitCatalog \/ AddRoutes \/ AddRoute \/ LogReady
  <2>1. UNCHANGED <<stack, fn, up, thread, engine, ran>>
    BY <1>2 DEF LoadConf, InstallHandlers, SetLevel, InitStore, InitCatalog, AddRoutes, AddRoute, LogReady,
       Idle, servers, rest
  <2>2. ValuesOK'
    BY <1>2, <1>a, <2>1 DEF LoadConf, InstallHandlers, SetLevel, InitStore, InitCatalog, AddRoutes,
       AddRoute, LogReady, ValuesOK, Goto, LogGoto, Fail, Die, UseEngine
  <2> QED
    BY <1>2, <1>a, <1>b, <2>1, <2>2 DEF LoadConf, InstallHandlers, SetLevel, InitStore, InitCatalog,
       AddRoutes, AddRoute, LogReady, Goto, LogGoto, Fail, Die, UseEngine, Main, At, Runs, PlacesOK,
       AddedSoFar, NoThreadYet
<1>3. CASE InitKvdb
  <2>1. UNCHANGED <<stack, fn, thread, engine, ran>> /\ up' \in {up, up \union {"kvdb"}}
    BY <1>3 DEF InitKvdb, Idle, servers, rest
  <2>2. ValuesOK'
    BY <1>3, <1>a, <2>1 DEF InitKvdb, ValuesOK, Goto, LogGoto, Fail, Die
  <2> QED
    BY <1>3, <1>a, <1>b, <2>1, <2>2 DEF InitKvdb, Goto, LogGoto, Fail, Die, Main, At, Runs, PlacesOK,
       AddedSoFar, NoThreadYet
<1>4. CASE AddKvdb
  <2>1. at[MainFlow] = "addKvdb" /\ Stacked \subseteq {"logger"}
    BY <1>4 DEF AddKvdb, Main, At, Runs, AddedSoFar
  <2>2. StackOK' /\ Stacked' = Stacked \union {"kvdb"}
    BY <1>4, <2>1, Pushing DEF AddKvdb, Functions, Before
  <2>3. ValuesOK'
    BY <1>4, <1>a DEF AddKvdb, ValuesOK, LogGoto, Goto, Die, rest, servers
  <2> QED
    BY <1>4, <1>a, <2>1, <2>2, <2>3 DEF AddKvdb, LogGoto, Goto, Die, PlacesOK, AddedSoFar, NoThreadYet,
       servers, Over
<1>5. CASE MakeApi
  <2>1. at[MainFlow] = "makeApi" /\ Stacked \subseteq {"logger", "kvdb"}
    BY <1>5 DEF MakeApi, Main, At, AddedSoFar
  <2>2. StackOK'
    BY <1>5, <2>1, Pushing DEF MakeApi, Functions, Before
  <2>3. ValuesOK'
    BY <1>5, <1>a DEF MakeApi, ValuesOK, Goto, rest, servers
  <2> QED
    BY <1>5, <1>a, <2>1, <2>2, <2>3 DEF MakeApi, Goto, PlacesOK, AddedSoFar, NoThreadYet, servers
<1>6. CASE StartApi \/ WaitApi \/ MakeEngine \/ StartEngine \/ Dangling
  <2>1. /\ UNCHANGED <<stack, fn, ran>> /\ up' \in {up, up \union {"event"}}
        /\ thread' = thread \/ (thread' = "starting" /\ at[MainFlow] = "startApi")
        /\ engine' \in {engine, "made"}
    BY <1>6 DEF StartApi, WaitApi, MakeEngine, StartEngine, Dangling, Idle, servers, rest, Main, At
  <2>2. ValuesOK'
    BY <1>6, <1>a, <2>1 DEF StartApi, WaitApi, MakeEngine, StartEngine, Dangling, ValuesOK, Goto, LogGoto,
       Fail, Die, UseEngine, NoThreadYet
  <2>3. /\ at[MainFlow] \in AfterApi \union {"listening"} /\ \A f \in Flows \ {MainFlow} : at'[f] = at[f]
        /\ at'[MainFlow] \in {at[MainFlow], "waitApi", "apiReady", "addRoute", "listening", "take"}
        /\ thread' = thread \/ at'[MainFlow] = "waitApi"
    BY <1>6, <1>a DEF StartApi, WaitApi, MakeEngine, StartEngine, Dangling, Goto, LogGoto,
       Fail, Die, UseEngine, Main, At, Idle, servers
  <2>4. PlacesOK' /\ AddedSoFar' /\ NoThreadYet'
    BY <2>3 DEF PlacesOK, AddedSoFar, NoThreadYet
  <2> QED
    BY <1>b, <2>1, <2>2, <2>4
<1>7. CASE Unwind \/ Leave
  <2>1. /\ UNCHANGED <<code, stack, fn, up, engine, ran>> /\ thread' \in {thread, StopServer(thread)}
        /\ at[MainFlow] \in Leaving /\ at' \in {at, [at EXCEPT ![MainFlow] = "unwind"]}
    BY <1>7 DEF Unwind, Leave, Idle, servers, Main, At, Goto
  <2>2. end' \in {end, "aborted", "finished", "failed"}
    BY <1>7 DEF Unwind, Leave, Outcome, Goto
  <2>3. ValuesOK'
    BY <2>1, <2>2 DEF ValuesOK, StopServer
  <2> QED
    BY <1>a, <1>b, <2>1, <2>3 DEF PlacesOK, AddedSoFar, NoThreadYet
<1>8. ASSUME NEW f \in Flows, Execute(f) PROVE AlwaysInv'
  <2>0. ~Over /\ at[f] \in Executing
    BY <1>8 DEF Execute, Take, Pop, Return, StopApi, JoinApi, StopKvdb, StopLogger, LogStopped, Begin, At, Runs
  <2>1. CASE Pop(f) /\ stack # <<>> /\ Goto(f, "run")
    <3>0. stack' = SubSeq(stack, 1, Len(stack) - 1)
      <4>1. ~Die("crashed")
        BY <2>0, <2>1 DEF Die, Goto, Over
      <4> QED
        BY <2>1, <4>1 DEF Pop
    <3>1. StackOK'
      BY <2>1, <3>0, Popping
    <3>2. ValuesOK'
      BY <2>1, <1>a DEF Pop, ValuesOK, Goto, rest, servers
    <3>3. Stacked' \subseteq Stacked
      BY <2>1, <3>0, Popping
    <3> QED
      BY <2>0, <2>1, <1>a, <3>1, <3>2, <3>3 DEF Pop, Goto, PlacesOK, AddedSoFar, NoThreadYet, servers, Over
  <2>2. CASE ~(Pop(f) /\ stack # <<>> /\ Goto(f, "run"))
    <3>1. UNCHANGED stack
      BY <1>8, <2>2 DEF Execute, Take, Pop, Return, StopApi, JoinApi, StopKvdb, StopLogger, LogStopped, Idle
    <3>2. ran' \in Seq(Functions)
      BY <1>8, Beginning DEF Execute, Take, Pop, Return, StopApi, JoinApi, StopKvdb, StopLogger, LogStopped, Idle,
         Begin, ValuesOK, Functions
    <3>3. /\ up' \in {up, up \ {"kvdb"}, up \ {"logger"}} /\ engine' = engine
          /\ thread' = StopServer(thread) \/ (thread' = thread /\ at' # at) \/ thread' = thread
          /\ code' = code
      BY <1>8 DEF Execute, Take, Pop, Return, StopApi, JoinApi, StopKvdb, StopLogger, LogStopped, Idle, servers
    <3>4. fn' \in [Flows -> Functions \union {"none"}]
      <4>1. CASE Take(f) /\ stack # <<>>
        BY <4>1, Popping, PopFacts DEF Take, ValuesOK, StackOK
      <4>2. CASE ~(Take(f) /\ stack # <<>>)
        <5>1. UNCHANGED fn
          BY <1>8, <4>2 DEF Execute, Take, Pop, Return, StopApi, JoinApi, StopKvdb, StopLogger, LogStopped, Idle
        <5> QED
          BY <5>1 DEF ValuesOK
      <4> QED
        BY <4>1, <4>2
    <3>5. DOMAIN at' = Flows /\ end' \in {end, "aborted", "crashed"}
      BY <1>8 DEF Execute, Take, Pop, Return, StopApi, JoinApi, StopKvdb, StopLogger, LogStopped,
         LogGoto, Goto, Die, ValuesOK
    <3>6. ValuesOK'
      BY <3>2, <3>3, <3>4, <3>5 DEF ValuesOK, StopServer
    <3>7. PlacesOK' /\ (at'[MainFlow] = at[MainFlow] \/ at'[MainFlow] \in Executing \union Leaving)
      BY <1>8, <2>0, <1>a DEF Execute, Take, Pop, Return, StopApi, JoinApi, StopKvdb, StopLogger, LogStopped,
         LogGoto, Goto, Die, PlacesOK
    <3> QED
      BY <1>b, <2>0, <3>1, <3>3, <3>6, <3>7 DEF AddedSoFar, NoThreadYet, StopServer
  <2> QED
    BY <2>1, <2>2
<1>9. CASE Bind \/ Unlisten
  <2>1. UNCHANGED <<at, fn, code, stack, engine, end, ran>> /\ thread # "none"
    BY <1>9 DEF Bind, Unlisten
  <2>2. ValuesOK'
    BY <1>9, <2>1 DEF Bind, Unlisten, ValuesOK
  <2> QED
    BY <1>9, <1>b, <2>1, <2>2 DEF PlacesOK, AddedSoFar, NoThreadYet
<1>10. ASSUME NEW t \in Threads, SigInt(t) \/ IntLog(t) \/ RequestLog(t) PROVE AlwaysInv'
  <2>1. /\ UNCHANGED <<at, fn, code, stack, thread, ran>>
        /\ engine' \in {engine, "null"} /\ up' \in {up, up \ {"event"}}
        /\ end' \in {end, "aborted", "crashed"}
    BY <1>10 DEF SigInt, IntLog, RequestLog, Idle, servers, ResetEngine
  <2>2. ValuesOK'
    BY <2>1 DEF ValuesOK
  <2> QED
    BY <1>b, <2>1, <2>2 DEF PlacesOK, AddedSoFar, NoThreadYet
<1>11. ASSUME NEW t \in Threads, SigTerm(t) PROVE AlwaysInv'
  <2>1. UNCHANGED <<fn, code, stack, up, thread, engine, ran, end>>
    BY <1>11 DEF SigTerm, servers
  <2>2. at' = [at EXCEPT ![OnTerm(t)] = "take"] /\ OnTerm(t) \in Flows /\ OnTerm(t) # MainFlow
    BY <1>11, FlowFacts DEF SigTerm
  <2>3. ValuesOK'
    BY <2>1, <2>2 DEF ValuesOK
  <2> QED
    BY <1>a, <1>b, <2>1, <2>2, <2>3 DEF PlacesOK, AddedSoFar, NoThreadYet
<1>12. CASE UNCHANGED vars
  <2>1. UNCHANGED <<at, fn, code, stack, up, thread, engine, ran, end>>
    BY <1>12 DEF vars, servers
  <2> QED
    BY <1>b, <2>1 DEF ValuesOK, PlacesOK, AddedSoFar, NoThreadYet
<1> QED
  BY <1>1, <1>2, <1>3, <1>4, <1>5, <1>6, <1>7, <1>8, <1>9, <1>10, <1>11, <1>12, Steps DEF Block

-----------------------------------------------------------------------------
(* What holds as long as every SIGTERM comes to main while it listens *)

(* Steps that leave the stack alone, and the logger and the databases.     *)
Quiet ==
  /\ UNCHANGED <<fn, stack, ran>>
  /\ \A x \in {"logger", "kvdb"} : x \in up' <=> x \in up
  /\ thread' \in {"starting", "listening", "stopping"} =>
       thread \in {"starting", "listening", "stopping"}

LEMMA QuietStep ==
  ASSUME Timely, Quiet, UNCHANGED at
  PROVE  Started' /\ InOrder' /\ StopsComing'
  BY SameElements DEF Timely, Quiet, Started, InOrder, StopsComing, Running

(* Main goes on to a place where as much has been added, or to the end.    *)
LEMMA QuietMove ==
  ASSUME Timely, Quiet, at[OnTerm("main")] = "none", NEW l, at' = [at EXCEPT ![MainFlow] = l],
         \/ l = "take" /\ at[MainFlow] \notin Executing \union {"addKvdb"} \union Leaving
         \/ l = "unwind" /\ at[MainFlow] \in Leaving
         \/ at[MainFlow] \in BeforeKvdb /\ l \in BeforeKvdb
         \/ at[MainFlow] \in BeforeApi /\ l \in BeforeApi
         \/ at[MainFlow] \in AfterApi /\ l \in AfterApi \union {"listening"}
  PROVE  Started' /\ InOrder' /\ StopsComing'
<1>1. /\ at'[MainFlow] = l /\ MainFlow \in Flows
      /\ \A f \in Flows \ {MainFlow} : at[f] = "none" /\ at'[f] = "none"
  BY FlowFacts DEF Timely, AlwaysInv, ValuesOK, InOrder
<1>2. UNCHANGED <<stack, fn, Stacked, Done>> /\ (ExecutedInOrder' <=> ExecutedInOrder)
  BY SameElements DEF Quiet
<1>3. Started'
  BY <1>1, <1>2 DEF Timely, Quiet, Started, MainPlaces, Leaving, BeforeKvdb, BeforeApi, AfterApi, Executing
<1>4. InOrder'
  BY <1>1, <1>2 DEF Timely, InOrder, Leaving, BeforeKvdb, BeforeApi, AfterApi
<1>5. at[MainFlow] \notin {"run", "join", "addKvdb"}
  BY DEF Leaving, BeforeKvdb, BeforeApi, AfterApi, Executing
<1>6. StopsComing'
  <2>1. (\A x : ~Running(x)) /\ \A f \in Flows : at[f] # "join"
    BY <1>1, <1>5 DEF Running
  <2> QED
    BY <1>2, <1>5, <2>1 DEF Timely, Quiet, StopsComing
<1> QED
  BY <1>3, <1>4, <1>6

(* A step of the start finds nothing that was stopped. *)
LEMMA Starting ==
  ASSUME Done' = {}, ExecutedInOrder', at'[MainFlow] \notin {"pop", "run"} \union Leaving,
         \A f \in Flows \ {MainFlow} : at'[f] = "none"
  PROVE  InOrder'
<1>1. \A f \in Flows : at'[f] \notin {"pop", "run"}
  OBVIOUS
<1> QED
  BY <1>1 DEF InOrder

LEMMA MainTimely ==
  ASSUME Timely, Block
  PROVE  Started' /\ InOrder' /\ StopsComing'
<1> DEFINE Goal == Started' /\ InOrder' /\ StopsComing'
<1> SUFFICES Goal
  OBVIOUS
<1>b. at[OnTerm("main")] = "none"
  BY MainRuns DEF Block, StartLogger, LoadConf, InstallHandlers, SetLevel, InitKvdb, AddKvdb, InitStore,
     InitCatalog, MakeApi, AddRoutes, StartApi, WaitApi, LogReady, MakeEngine, AddRoute, StartEngine,
     Dangling, Unwind, Leave, Main, At, Die
<1>a. DOMAIN at = Flows /\ MainFlow \in Flows /\ \A f \in Flows \ {MainFlow} : at[f] = "none"
  BY <1>b, FlowFacts DEF Timely, AlwaysInv, ValuesOK, InOrder
<1>1. CASE StartLogger
  <2>1. at[MainFlow] = "logger" /\ Stacked = {} /\ up \intersect {"logger", "kvdb"} = {} /\ Done = {}
    BY <1>1 DEF StartLogger, Main, At, Timely, Started, MainPlaces, Leaving, Executing
  <2>2. /\ Stacked' = {"logger"} /\ Done' = {} /\ up' = up \union {"logger"} /\ thread' = "none"
        /\ at'[MainFlow] = "conf" /\ ExecutedInOrder' /\ \A f \in Flows \ {MainFlow} : at'[f] = "none"
    BY <1>1, <1>a, <1>b, <2>1, Pushing, SameElements
       DEF StartLogger, Timely, AlwaysInv, NoThreadYet, InOrder, Functions, Goto
  <2>3. InOrder'
    BY <2>1, <2>2, Starting DEF Leaving
  <2>4. Started'
    BY <2>1, <2>2 DEF Started, Leaving, BeforeKvdb, BeforeApi, AfterApi, Executing
  <2>5. StopsComing'
    BY <2>1, <2>2 DEF StopsComing, Functions
  <2> QED
    BY <2>3, <2>4, <2>5
<1>2. CASE InitKvdb /\ UNCHANGED code
  <2>1. at[MainFlow] = "kvdb" /\ Stacked = {"logger"} /\ "logger" \in up /\ Done = {}
    BY <1>2 DEF InitKvdb, Main, At, Timely, Started, MainPlaces, Leaving, BeforeKvdb, Executing
  <2>2. CASE at' = [at EXCEPT ![MainFlow] = "addKvdb"] /\ up' = up \union {"kvdb"}
    <3>1. /\ Stacked' = {"logger"} /\ Done' = {} /\ thread' = "none"
          /\ at'[MainFlow] = "addKvdb" /\ ExecutedInOrder' /\ \A f \in Flows \ {MainFlow} : at'[f] = "none"
      BY <1>2, <1>a, <1>b, <2>1, <2>2, SameElements
         DEF InitKvdb, Idle, servers, rest, Timely, AlwaysInv, NoThreadYet, BeforeKvdb, InOrder
    <3>2. InOrder'
      BY <2>1, <2>2, <3>1, Starting DEF Leaving
    <3>3. Started'
      BY <2>1, <2>2, <3>1 DEF Started, Leaving, BeforeKvdb, BeforeApi, AfterApi, Executing
    <3>4. StopsComing'
      BY <2>1, <2>2, <3>1 DEF StopsComing, Functions
    <3> QED
      BY <3>2, <3>3, <3>4
  <2>3. CASE ~(at' = [at EXCEPT ![MainFlow] = "addKvdb"] /\ up' = up \union {"kvdb"})
    <3>1. Quiet /\ at' = [at EXCEPT ![MainFlow] = "take"]
      BY <1>2, <2>1, <2>3 DEF InitKvdb, Fail, LogGoto, Goto, Logs, Idle, servers, Quiet
    <3> QED
      BY <1>b, <2>1, <3>1, QuietMove DEF Executing, Leaving
  <2> QED
    BY <2>2, <2>3
<1>3. CASE AddKvdb
  <2>1. at[MainFlow] = "addKvdb" /\ Stacked = {"logger"} /\ {"logger", "kvdb"} \subseteq up /\ Done = {}
    BY <1>3 DEF AddKvdb, Main, At, Timely, Started, MainPlaces, Leaving, Executing
  <2>2. Stacked' = {"logger", "kvdb"}
    BY <1>3, <2>1, Pushing DEF AddKvdb, Timely, AlwaysInv, Before, Functions
  <2>3. /\ Done' = {} /\ thread' = "none" /\ up' = up
        /\ at'[MainFlow] = "store" /\ ExecutedInOrder' /\ \A f \in Flows \ {MainFlow} : at'[f] = "none"
    BY <1>3, <1>a, <1>b, <2>1, SameElements
       DEF AddKvdb, LogGoto, Logs, Goto, servers, Timely, AlwaysInv, NoThreadYet, InOrder
  <2>4. InOrder'
    BY <2>1, <2>2, <2>3, Starting DEF Leaving
  <2>5. Started'
    BY <2>1, <2>2, <2>3 DEF Started, Leaving, BeforeKvdb, BeforeApi, AfterApi, Executing
  <2>6. StopsComing'
    BY <2>1, <2>2, <2>3 DEF StopsComing, Functions
  <2> QED
    BY <2>4, <2>5, <2>6
<1>4. CASE MakeApi
  <2>1. at[MainFlow] = "makeApi" /\ Stacked = {"logger", "kvdb"} /\ {"logger", "kvdb"} \subseteq up /\ Done = {}
    BY <1>4 DEF MakeApi, Main, At, Timely, Started, MainPlaces, Leaving, BeforeApi, Executing
  <2>2. Stacked' = Functions
    BY <1>4, <2>1, Pushing DEF MakeApi, Timely, AlwaysInv, Before, Functions
  <2>3. /\ Done' = {} /\ thread' = "none" /\ up' = up
        /\ at'[MainFlow] = "routes" /\ ExecutedInOrder' /\ \A f \in Flows \ {MainFlow} : at'[f] = "none"
    BY <1>4, <1>a, <1>b, <2>1, SameElements
       DEF MakeApi, Goto, servers, Timely, AlwaysInv, NoThreadYet, BeforeApi, InOrder
  <2>4. InOrder'
    BY <2>1, <2>2, <2>3, Starting DEF Leaving
  <2>5. Started'
    BY <2>1, <2>2, <2>3 DEF Started, Leaving, BeforeKvdb, BeforeApi, AfterApi, Executing, Functions
  <2>6. StopsComing'
    BY <2>1, <2>2, <2>3 DEF StopsComing, Functions
  <2> QED
    BY <2>4, <2>5, <2>6
<1>5. CASE StartApi /\ thread' = "starting"
  <2>1. at[MainFlow] = "startApi" /\ Stacked = Functions /\ {"logger", "kvdb"} \subseteq up /\ Done = {}
        /\ thread = "none"
    BY <1>5 DEF StartApi, Main, At, Timely, Started, MainPlaces, Leaving, AfterApi, Executing, AlwaysInv, NoThreadYet
  <2>2. /\ Stacked' = Functions /\ Done' = {} /\ up' = up
        /\ at'[MainFlow] = "waitApi" /\ ExecutedInOrder' /\ \A f \in Flows \ {MainFlow} : at'[f] = "none"
    BY <1>5, <1>a, <1>b, <2>1, SameElements DEF StartApi, LogGoto, Idle, servers, Timely, InOrder
  <2>3. InOrder'
    BY <2>1, <2>2, Starting DEF Leaving
  <2>4. Started'
    BY <2>1, <2>2 DEF Started, Leaving, BeforeKvdb, BeforeApi, AfterApi, Executing, Functions
  <2>5. StopsComing'
    BY <2>1, <2>2 DEF StopsComing, Functions
  <2> QED
    BY <2>3, <2>4, <2>5
<1>6. CASE Leave
  <2>1. UNCHANGED at /\ Quiet
    BY <1>6 DEF Leave, Idle, servers, Quiet
  <2> QED
    BY <2>1, QuietStep
<1>7. CASE \/ LoadConf \/ InstallHandlers \/ SetLevel \/ InitStore \/ InitCatalog
           \/ AddRoutes \/ AddRoute \/ WaitApi \/ LogReady \/ MakeEngine \/ StartEngine \/ Dangling \/ Unwind
           \/ (StartApi /\ thread' # "starting") \/ (InitKvdb /\ ~UNCHANGED code)
  <2>1. Quiet
    BY <1>7 DEF LoadConf, InstallHandlers, SetLevel, InitStore, InitCatalog, AddRoutes, AddRoute, WaitApi,
       LogReady, MakeEngine, StartEngine, Dangling, Unwind, StopServer, StartApi, InitKvdb, Idle, servers,
       rest, Quiet
  <2>2. CASE UNCHANGED at
    BY <2>1, <2>2, QuietStep
  <2>3. CASE at' # at
    <3>1. \E l : /\ at' = [at EXCEPT ![MainFlow] = l]
                 /\ \/ l = "take" /\ at[MainFlow] \notin Executing \union {"addKvdb"} \union Leaving
                    \/ l = "unwind" /\ at[MainFlow] \in Leaving
                    \/ at[MainFlow] \in BeforeKvdb /\ l \in BeforeKvdb
                    \/ at[MainFlow] \in BeforeApi /\ l \in BeforeApi
                    \/ at[MainFlow] \in AfterApi /\ l \in AfterApi \union {"listening"}
      BY <1>7, <2>3
         DEF LoadConf, InstallHandlers, SetLevel, InitStore, InitCatalog, AddRoutes, AddRoute, WaitApi,
             LogReady, MakeEngine, StartEngine, Dangling, Unwind, StartApi, InitKvdb, Fail, LogGoto, Goto, Die, UseEngine,
             Main, At, Leaving, BeforeKvdb, BeforeApi, AfterApi, Executing
    <3> QED
      BY <1>b, <2>1, <3>1, QuietMove
  <2> QED
    BY <2>2, <2>3
<1> HIDE DEF Goal
<1> QED
  BY <1>1, <1>2, <1>3, <1>4, <1>5, <1>6, <1>7 DEF Block

(* Only one flow runs the stack, and main has come to the end of its start. *)
LEMMA OneExecutes ==
  ASSUME Timely, NEW f \in Flows, Runs(f), at[f] \in Executing
  PROVE  /\ \A g \in Flows : g # f => at[g] \notin Executing
         /\ at[MainFlow] \in Executing \union {"listening"}
         /\ f = MainFlow \/ f = OnTerm("main")
         /\ \A g \in Flows \ {MainFlow} : g # f => at[g] = "none"
  BY MainRuns, FlowFacts DEF Timely, InOrder, Executing

(* The exit functions stop what they are about: first the API server, then *)
(* the databases, then the logger.                                         *)
LEMMA ExecuteTimely ==
  ASSUME Timely, NEW f \in Flows, Execute(f)
  PROVE  Started' /\ InOrder' /\ StopsComing'
<1> DEFINE Goal == Started' /\ InOrder' /\ StopsComing'
<1> DEFINE Handled == \A g \in Flows \ {MainFlow} :
                        at'[g] # "none" => g = OnTerm("main") /\ at'[MainFlow] = "listening"
<1> SUFFICES Goal
  OBVIOUS
<1>a. DOMAIN at = Flows /\ MainFlow \in Flows
  BY FlowFacts DEF Timely, AlwaysInv, ValuesOK
<1>b. Runs(f) /\ at[f] \in {"take", "pop", "run", "join", "log"}
  BY DEF Execute, Take, Pop, Return, StopApi, JoinApi, StopKvdb, StopLogger, LogStopped, Begin, At
<1>c. /\ \A g \in Flows : g # f => at[g] \notin Executing
      /\ at[MainFlow] \in Executing \union {"listening"}
      /\ f = MainFlow \/ f = OnTerm("main")
      /\ \A g \in Flows \ {MainFlow} : g # f => at[g] = "none"
  BY <1>b, OneExecutes DEF Executing
<1>e. ~Racing(f)
  BY <1>c DEF Racing, Executing
(* The other flow is main where it listens, or the handler that has        *)
(* returned, and stays there.                                              *)
<1>d. ASSUME NEW l, at' = [at EXCEPT ![f] = l],
             \/ l \in Executing
             \/ l = "none" /\ f # MainFlow
             \/ l = "leave" /\ f = MainFlow /\ stack' = <<>>
      PROVE  /\ Started' /\ at'[MainFlow] # "addKvdb"
             /\ at'[f] = l /\ \A g \in Flows : g # f => at'[g] = at[g] /\ at'[g] \notin Executing
             /\ Handled
             /\ at'[MainFlow] \in Leaving => stack' = <<>>
  <2>1. /\ at'[f] = l /\ \A g \in Flows : g # f => at'[g] = at[g] /\ at'[g] \notin Executing
    BY <1>a, <1>c, <1>d
  <2>2. at'[MainFlow] \in Executing \union {"listening", "leave"}
    BY <1>a, <1>c, <1>d, <2>1
  <2>3. Started'
    BY <2>2 DEF Started, Leaving, BeforeKvdb, BeforeApi, AfterApi, Executing
  <2>4. Handled
    BY <1>a, <1>b, <1>c, <1>d, <2>1 DEF Timely, InOrder, Executing
  <2>5. at'[MainFlow] \in Leaving => stack' = <<>>
    BY <1>a, <1>c, <1>d, <2>1 DEF Executing, Leaving
  <2> QED
    BY <2>1, <2>2, <2>3, <2>4, <2>5 DEF Executing
<1>0. CASE Return(f)
  <2>1. PICK l : at' = [at EXCEPT ![f] = l] /\ (\/ l = "none" /\ f # MainFlow
                                                \/ l = "leave" /\ f = MainFlow /\ stack' = <<>>)
    BY <1>0 DEF Return, Goto
  <2>2. UNCHANGED <<Stacked, Done, fn, up, thread>> /\ (ExecutedInOrder' <=> ExecutedInOrder)
    BY <1>0, SameElements DEF Return, servers
  <2>3. at[f] = "take" /\ \A x : ~Running(x)
    BY <1>0, <1>a, <1>c DEF Return, At, Running, Executing
  <2>4. /\ Started' /\ at'[MainFlow] # "addKvdb"
        /\ at'[f] = l /\ \A g \in Flows : g # f => at'[g] = at[g] /\ at'[g] \notin Executing
        /\ Handled
        /\ at'[MainFlow] \in Leaving => stack' = <<>>
    BY <1>d, <2>1
  <2>5. \A g \in Flows : at'[g] \notin {"pop", "run", "join"}
    BY <2>1, <2>4 DEF Executing
  <2>6. InOrder'
    BY <2>2, <2>4, <2>5 DEF Timely, InOrder
  <2>7. StopsComing'
    BY <1>a, <1>c, <2>2, <2>3 DEF Timely, StopsComing, Executing
  <2> QED
    BY <2>4, <2>6, <2>7
<1>1. CASE Take(f)
  <2>1. at' = [at EXCEPT ![f] = "pop"] /\ fn' = [fn EXCEPT ![f] = Top(stack)] /\ stack # <<>>
    BY <1>1, <1>e DEF Take, Goto
  <2>2. UNCHANGED <<Stacked, Done, stack, up, thread>> /\ (ExecutedInOrder' <=> ExecutedInOrder)
    BY <1>1, SameElements DEF Take, servers
  <2>3. at[f] = "take" /\ \A x : ~Running(x)
    BY <1>1, <1>a, <1>c DEF Take, At, Running, Executing
  <2>4. /\ Started' /\ at'[MainFlow] # "addKvdb"
        /\ at'[f] = "pop" /\ \A g \in Flows : g # f => at'[g] = at[g] /\ at'[g] \notin Executing
        /\ Handled
        /\ at'[MainFlow] \in Leaving => stack' = <<>>
    BY <1>d, <2>1 DEF Executing
  <2>5. fn'[f] = Top(stack)
    BY <2>1, <1>a DEF Timely, AlwaysInv, ValuesOK
  <2>6. InOrder'
    BY <2>1, <2>2, <2>4, <2>5 DEF Timely, InOrder, Executing
  <2>7. StopsComing'
    BY <1>a, <1>c, <2>2, <2>3 DEF Timely, StopsComing, Executing
  <2> QED
    BY <2>4, <2>6, <2>7
<1>2. CASE Pop(f)
  <2>1. at[f] = "pop" /\ stack # <<>> /\ fn[f] = Top(stack) /\ \A x : ~Running(x)
    BY <1>2, <1>a, <1>c DEF Pop, At, Timely, InOrder, Running, Executing
  <2>2. /\ StackOK' /\ Stacked = Stacked' \union {fn[f]} /\ fn[f] \in Functions
        /\ \A x \in Stacked' : Before(x, fn[f])
    BY <1>2, <1>e, <2>1, Popping DEF Pop, Timely, AlwaysInv
  <2>3. /\ UNCHANGED <<fn, Done, up, thread>> /\ (ExecutedInOrder' <=> ExecutedInOrder)
        /\ at' = [at EXCEPT ![f] = "run"]
    BY <1>2, <1>e, <2>1, SameElements DEF Pop, servers, Goto
  <2>4. /\ Started' /\ at'[MainFlow] # "addKvdb"
        /\ at'[f] = "run" /\ \A g \in Flows : g # f => at'[g] = at[g] /\ at'[g] \notin Executing
        /\ Handled
        /\ at'[MainFlow] \in Leaving => stack' = <<>>
    BY <1>d, <2>3 DEF Executing
  <2>5. Running(fn[f])'
    BY <2>3, <2>4 DEF Running
  <2>6. InOrder'
    BY <2>2, <2>3, <2>4 DEF Timely, InOrder, Executing
  <2>7. thread \in {"starting", "listening", "stopping"} => fn[f] = "api"
    <3>1. thread \in {"starting", "listening", "stopping"} => "api" \in Stacked
      BY <1>a, <1>c, <2>1 DEF Timely, StopsComing, Executing
    <3> QED
      BY <2>2, <3>1 DEF Before, Functions
  <2>8. StopsComing'
    BY <1>a, <1>c, <2>1, <2>2, <2>3, <2>5, <2>7 DEF Timely, StopsComing, Executing
  <2> QED
    BY <2>4, <2>6, <2>8
<1>3. ASSUME NEW x \in Functions, NEW l \in {"join", "log", "take"}, Begin(f, x),
             at' = [at EXCEPT ![f] = l], UNCHANGED <<fn, stack>>
      PROVE  /\ Started' /\ InOrder' /\ at'[MainFlow] # "addKvdb" /\ Stacked' = Stacked
             /\ at'[f] = l /\ x \notin Stacked
             /\ \A y : Running(y) => y = x
             /\ x \in {"logger", "kvdb"} => thread \notin {"starting", "listening", "stopping"}
  <2>1. at[f] = "run" /\ fn[f] = x /\ \A y : Running(y) => y = x
    BY <1>3, <1>a, <1>c DEF Begin, At, Running, Executing
  <2>2. /\ \A y \in Stacked : Before(y, x)
        /\ \A y \in Done : Before(x, y)
    BY <2>1 DEF Timely, InOrder
  <2>3. Done' = Done \union {x} /\ ExecutedInOrder' /\ Stacked' = Stacked
    BY <1>3, <2>2, Beginning, SameElements DEF Begin, Timely, AlwaysInv, ValuesOK, InOrder
  <2>4. x \notin Stacked
    BY <2>2 DEF Before
  <2>5. /\ Started' /\ at'[MainFlow] # "addKvdb"
        /\ at'[f] = l /\ \A g \in Flows : g # f => at'[g] = at[g] /\ at'[g] \notin Executing
        /\ Handled
        /\ at'[MainFlow] \in Leaving => stack' = <<>>
    BY <1>d, <1>3 DEF Executing
  <2>6. InOrder'
    BY <2>2, <2>3, <2>5 DEF Timely, InOrder, Executing
  <2> QED
    BY <2>1, <2>3, <2>4, <2>5, <2>6 DEF Timely, StopsComing
<1>4. CASE StopApi(f)
  <2>1. /\ Started' /\ InOrder' /\ at'[MainFlow] # "addKvdb" /\ Stacked' = Stacked
        /\ at'[f] = "join" /\ \A y : Running(y) => y = "api"
    BY <1>3, <1>4 DEF StopApi, Goto, Functions
  <2>2. UNCHANGED up /\ thread' \in {thread, "stopping"} /\ (thread' = thread \/ thread = "listening")
    BY <1>4 DEF StopApi, StopServer
  <2>3. StopsComing'
    BY <1>a, <1>c, <2>1, <2>2 DEF Timely, StopsComing, Executing
  <2> QED
    BY <2>1, <2>3
<1>5. CASE StopKvdb(f)
  <2>1. /\ Started' /\ InOrder' /\ at'[MainFlow] # "addKvdb" /\ Stacked' = Stacked
        /\ \A y : Running(y) => y = "kvdb"
        /\ thread \notin {"starting", "listening", "stopping"}
    BY <1>3, <1>5 DEF StopKvdb, Goto, Functions
  <2>2. up' = up \ {"kvdb"} /\ thread' = thread
    BY <1>5 DEF StopKvdb
  <2>3. StopsComing'
    BY <1>a, <1>c, <2>1, <2>2 DEF Timely, StopsComing, Executing
  <2> QED
    BY <2>1, <2>3
<1>6. CASE StopLogger(f)
  <2>1. /\ Started' /\ InOrder' /\ at'[MainFlow] # "addKvdb" /\ Stacked' = Stacked
        /\ \A y : Running(y) => y = "logger"
        /\ thread \notin {"starting", "listening", "stopping"}
    BY <1>3, <1>6 DEF StopLogger, Goto, Functions
  <2>2. up' = up \ {"logger"} /\ thread' = thread
    BY <1>6 DEF StopLogger
  <2>3. StopsComing'
    BY <1>a, <1>c, <2>1, <2>2 DEF Timely, StopsComing, Executing
  <2> QED
    BY <2>1, <2>3
<1>7. CASE JoinApi(f) \/ LogStopped(f)
  <2>1. Quiet /\ UNCHANGED <<up, thread>>
    BY <1>7 DEF JoinApi, LogStopped, Idle, servers, Quiet
  <2>2. CASE UNCHANGED at
    BY <2>1, <2>2, QuietStep
  <2>3. CASE at' # at
    <3>1. PICK l \in {"log", "take"} : at' = [at EXCEPT ![f] = l]
      BY <1>7, <2>3 DEF JoinApi, LogStopped, LogGoto, Goto, Die
    <3>2. /\ Started' /\ at'[MainFlow] # "addKvdb"
          /\ at'[f] = l /\ \A g \in Flows : g # f => at'[g] = at[g] /\ at'[g] \notin Executing
          /\ Handled
          /\ at'[MainFlow] \in Leaving => stack' = <<>>
      BY <1>d, <3>1 DEF Executing
    <3>3. UNCHANGED <<Stacked, Done>> /\ (ExecutedInOrder' <=> ExecutedInOrder)
      BY <2>1, SameElements DEF Quiet
    <3>4. InOrder'
      BY <3>1, <3>2, <3>3 DEF Timely, InOrder, Executing
    <3>5. (\A x : ~Running(x)) /\ (at[f] = "join" => thread \notin {"starting", "listening", "stopping"})
      <4>1. \A x : ~Running(x)
        BY <1>7, <1>a, <1>c DEF JoinApi, LogStopped, At, Running, Executing
      <4>2. f[1] # "api"
        BY <1>c DEF MainFlow, Base, OnTerm
      <4>3. \A g \in Flows \ {f} : at[g] \notin {"join", "unwind"}
        BY <1>c DEF Executing
      <4> QED
        BY <1>7, <4>1, <4>2, <4>3 DEF JoinApi, LogStopped, At, Joined
    <3>6. StopsComing'
      BY <1>a, <1>c, <2>1, <3>3, <3>5 DEF Timely, StopsComing, Executing
    <3> QED
      BY <3>2, <3>4, <3>6
  <2> QED
    BY <2>2, <2>3
<1> HIDE DEF Goal
<1> QED
  BY <1>0, <1>1, <1>2, <1>4, <1>5, <1>6, <1>7 DEF Execute

(* A SIGTERM that is timely finds main listening, and nobody running the   *)
(* stack.                                                                  *)
LEMMA TimelyStep ==
  ASSUME Timely, [Next]_vars, ~untimely'
  PROVE  Started' /\ InOrder' /\ StopsComing'
<1>1. CASE Block
  BY <1>1, MainTimely
<1>2. CASE \E f \in Flows : Execute(f)
  BY <1>2, ExecuteTimely
<1>3. CASE Bind \/ Unlisten
  <2>1. UNCHANGED at /\ Quiet
    BY <1>3 DEF Bind, Unlisten, Quiet
  <2> QED
    BY <2>1, QuietStep
<1>4. ASSUME NEW t \in Threads, SigInt(t) \/ IntLog(t) \/ RequestLog(t)
      PROVE  Started' /\ InOrder' /\ StopsComing'
  <2>1. UNCHANGED at /\ Quiet
    BY <1>4 DEF SigInt, IntLog, RequestLog, Idle, servers, Quiet
  <2> QED
    BY <2>1, QuietStep
<1>5. ASSUME NEW t \in Threads, SigTerm(t)
      PROVE  Started' /\ InOrder' /\ StopsComing'
  <2>1. /\ at[MainFlow] = "listening" /\ at' = [at EXCEPT ![OnTerm("main")] = "take"]
        /\ UNCHANGED <<fn, stack, ran, up, thread>>
    BY <1>5 DEF SigTerm, servers
  <2>2. /\ at[OnTerm("main")] = "none" /\ OnTerm("main") \in Flows /\ OnTerm("main") # MainFlow
        /\ MainFlow \in Flows /\ DOMAIN at = Flows
    BY <1>5, FlowFacts DEF SigTerm, Timely, AlwaysInv, ValuesOK
  <2>3. /\ at'[MainFlow] = "listening" /\ at'[OnTerm("main")] = "take"
        /\ \A f \in Flows : f # OnTerm("main") => at'[f] = at[f]
    BY <2>1, <2>2
  <2>4. UNCHANGED <<Stacked, Done>> /\ (ExecutedInOrder' <=> ExecutedInOrder)
    BY <2>1, SameElements
  <2>5. Started'
    BY <2>3 DEF Started, Leaving, BeforeKvdb, BeforeApi, AfterApi, Executing
  <2>6. InOrder'
    BY <2>1, <2>3, <2>4 DEF Timely, InOrder, Leaving
  <2>7. StopsComing'
    <3>1. /\ \A x : Running(x)' <=> Running(x)
          /\ (\E f \in Flows : at'[f] = "join") <=> \E f \in Flows : at[f] = "join"
      BY <2>1, <2>2, <2>3 DEF Running
    <3> QED
      BY <2>1, <2>3, <2>4, <3>1 DEF Timely, StopsComing
  <2> QED
    BY <2>5, <2>6, <2>7
<1>6. CASE UNCHANGED vars
  <2>1. UNCHANGED at /\ Quiet
    BY <1>6 DEF vars, servers, Quiet
  <2> QED
    BY <2>1, QuietStep
<1> QED
  BY <1>1, <1>2, <1>3, <1>4, <1>5, <1>6, Steps

LEMMA LifecycleStep == LifecycleInv /\ [Next]_vars => LifecycleInv'
<1> SUFFICES ASSUME LifecycleInv, [Next]_vars PROVE LifecycleInv'
  OBVIOUS
<1>1. SignalsOK' /\ AlwaysInv'
  BY SignalsStep, AlwaysStep DEF LifecycleInv
<1>2. untimely => untimely'
  <2>1. CASE Block
    BY <2>1 DEF Block, StartLogger, LoadConf, InstallHandlers, SetLevel, InitKvdb, AddKvdb, InitStore,
       InitCatalog, MakeApi, AddRoutes, StartApi, WaitApi, LogReady, MakeEngine, AddRoute, StartEngine,
       Dangling, Unwind, Leave, Idle, rest, caught
  <2>2. CASE \E f \in Flows : Execute(f)
    BY <2>2 DEF Execute, Take, Pop, Return, StopApi, JoinApi, StopKvdb, StopLogger, LogStopped, Idle,
       rest, caught
  <2>3. CASE \E t \in Threads : IntLog(t) \/ RequestLog(t) \/ SigInt(t) \/ SigTerm(t)
    BY <2>3 DEF IntLog, RequestLog, SigInt, SigTerm, Idle, rest, caught
  <2>4. CASE Bind \/ Unlisten \/ UNCHANGED vars
    BY <2>4 DEF Bind, Unlisten, vars, rest, caught
  <2> QED
    BY <2>1, <2>2, <2>3, <2>4, Steps
<1>3. ASSUME ~untimely' PROVE Started' /\ InOrder' /\ StopsComing'
  BY <1>2, <1>3, TimelyStep DEF LifecycleInv, Timely
<1> QED
  BY <1>1, <1>3 DEF LifecycleInv

LEMMA LifecycleInvariant == Spec => []LifecycleInv
<1>1. Init => LifecycleInv
  <2> SUFFICES ASSUME Init PROVE LifecycleInv
    OBVIOUS
  <2>0. SignalsOK
    BY DEF Init, SignalsOK
  <2>1. /\ Stacked = {} /\ Done = {} /\ at[MainFlow] = "logger"
        /\ \A f \in Flows \ {MainFlow} : at[f] = "none"
    BY FlowFacts DEF Init, Stacked, Done, Elems
  <2>2. AlwaysInv
    BY <2>1 DEF Init, AlwaysInv, ValuesOK, StackOK, PlacesOK, AddedSoFar, NoThreadYet,
       MainPlaces, Leaving, BeforeKvdb, BeforeApi, Executing, Functions
  <2>3. Started /\ InOrder /\ StopsComing
    BY <2>1 DEF Init, Started, InOrder, StopsComing, ExecutedInOrder,
       Leaving, BeforeKvdb, BeforeApi, AfterApi, Executing
  <2> QED
    BY <2>0, <2>2, <2>3 DEF LifecycleInv
<1> QED
  BY <1>1, LifecycleStep, PTL DEF Spec

-----------------------------------------------------------------------------
(* The types, and that the stack never holds an exit function twice nor    *)
(* out of order, whatever signals come at whatever moment.                 *)
THEOREM LifecycleTypeCorrect == Spec => []TypeOK
<1>1. LifecycleInv => TypeOK
  BY TypeParts DEF LifecycleInv, AlwaysInv
<1> QED
  BY <1>1, LifecycleInvariant, PTL

(* Exit functions run once each and from the last added to the first,      *)
(* whichever of main and the handler of SIGTERM runs them.                 *)
THEOREM StopsInOrder == Spec => []TimelyInOrder
<1>1. LifecycleInv => TimelyInOrder
  BY DEF LifecycleInv, InOrder, TimelyInOrder
<1> QED
  BY <1>1, LifecycleInvariant, PTL

(* While the API server serves, the databases and the logger are up.       *)
THEOREM ServesWithAll == Spec => []ServedWithAll
<1>1. LifecycleInv => ServedWithAll
  BY DEF LifecycleInv, AlwaysInv, ValuesOK, StopsComing, ServedWithAll
<1> QED
  BY <1>1, LifecycleInvariant, PTL

(* Main leaves nothing behind on any of its ways out.                      *)
THEOREM NothingLeft == Spec => []LeavesNothing
<1>1. ASSUME LifecycleInv, at[MainFlow] \in Leaving, ~untimely
      PROVE  stack = <<>> /\ up \intersect {"kvdb", "api", "logger"} = {}
  <2>1. stack = <<>> /\ Stacked = {} /\ \A f \in Flows \ {MainFlow} : at[f] = "none"
    BY <1>1 DEF LifecycleInv, InOrder, Stacked, Elems, Leaving
  <2>2. ~Running("logger") /\ ~Running("kvdb") /\ ~Running("api") /\ \A f \in Flows : at[f] # "join"
    BY <1>1, <2>1 DEF Running, Leaving
  <2> QED
    BY <1>1, <2>1, <2>2 DEF LifecycleInv, AlwaysInv, ValuesOK, StopsComing, Leaving
<1>2. LifecycleInv => LeavesNothing
  BY <1>1 DEF LeavesNothing, Leaving
<1> QED
  BY <1>2, LifecycleInvariant, PTL
=============================================================================
