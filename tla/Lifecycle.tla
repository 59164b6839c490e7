----------------------------- MODULE Lifecycle ------------------------------
(***************************************************************************)
(* The life of the process: main, its stack of exit functions, the two     *)
(* HTTP servers, the logger everything writes to, and the handlers of      *)
(* SIGINT and SIGTERM.                                                     *)
(*                                                                         *)
(* A handler runs on whatever thread is given the signal, and interrupts   *)
(* it wherever it is.  A signal is masked during its own handler, for that *)
(* thread and not for the others, and not during the other handler.        *)
(*                                                                         *)
(* Every LOG_* looks the logger up under a mutex that is not recursive     *)
(* (spdlog::get), and so does its shutdown: a handler that logs while it   *)
(* interrupts a LOG_* of its own thread waits for ever.  A LOG_* that is   *)
(* not interrupted is one step.  Any use of the logger after it was        *)
(* stopped throws, in the catch blocks of main and in destructors too.     *)
(***************************************************************************)
EXTENDS Naturals, Sequences

CONSTANTS
  Validators,   (* whether the catalog gets a validator (main gives none)  *)
  MaxSignals    (* how many signals may come                               *)

ASSUME ValidatorsAssumption == Validators \subseteq BOOLEAN
ASSUME SignalsAssumption == MaxSignals \in Nat

(* main, the thread of the API server, a worker of its pool, and one of    *)
(* the pool of the event server                                            *)
Threads   == {"main", "api", "worker", "event"}

(* What a thread is there for, and the handlers that run on top of it *)
Base(t)   == <<t, "base">>
OnTerm(t)   == <<t, "term">>
OnInt(t)    == <<t, "int">>

MainFlow  == Base("main")
Flows     == {MainFlow} \union {OnTerm(t) : t \in Threads}    \* those that run the exit stack
Free      == <<"none", "none">>                              \* no flow
Functions == {"logger", "kvdb", "api"}          \* what the exit functions stop

VARIABLES
  at,           (* where each flow is; "none" when the handler is not run  *)
  int,          (* the handler of SIGINT on each thread: "none", the       *)
                (* "inner"most flow, or the "outer" of two handlers        *)
  lock,         (* the flow whose LOG_* was interrupted with the mutex held *)
  fn,           (* the exit function each flow has taken from the stack    *)
  code,         (* what main does after the stack: exit, or return         *)
  stack,        (* g_exitHandler                                           *)
  up,           (* what runs                                               *)
  thread,       (* of the API server                                       *)
  engine,       (* g_engineServer                                          *)
  end,          (* how the process ended                                   *)
  validator,    (* what the catalog is given                               *)
  signals,      (* how many signals have come                              *)
  ran,          (* history: the exit functions, as they were begun         *)
  untimely,     (* history: a SIGTERM came while main was not listening,   *)
                (* or to another thread                                    *)
  interrupted   (* history: a SIGINT came while main was listening         *)

servers == <<up, thread, engine>>
caught  == <<int, signals, untimely, interrupted>>
rest    == <<validator, caught>>
vars    == <<at, lock, fn, code, stack, servers, end, rest, ran>>

Init ==
  /\ at = [f \in Flows |-> IF f = MainFlow THEN "logger" ELSE "none"]
  /\ int = [t \in Threads |-> "none"]
  /\ lock = Free
  /\ fn = [f \in Flows |-> "none"]
  /\ code = "none"
  /\ stack = <<>>
  /\ up = {} /\ thread = "none" /\ engine = "null"
  /\ end = "running"
  /\ validator \in Validators
  /\ signals = 0
  /\ ran = <<>>
  /\ untimely = FALSE /\ interrupted = FALSE

Over     == end # "running"
Logs     == "logger" \in up                  \* getDefaultLogger does not throw

(* The innermost flow of a thread is the one that runs. *)
Current(t) == IF int[t] = "inner" THEN OnInt(t)
              ELSE IF at[OnTerm(t)] # "none" THEN OnTerm(t) ELSE Base(t)

Runs(f)  == ~Over /\ Current(f[1]) = f
At(f, l) == Runs(f) /\ at[f] = l
Main(l)  == At(MainFlow, l)

Goto(f, l) == at' = [at EXCEPT ![f] = l] /\ UNCHANGED <<lock, end>>
(* An exception nobody catches, or undefined behaviour that ends in a trap. *)
Die(how) == end' = how /\ UNCHANGED <<at, lock>>

(* The mutex of the logger is taken and released. *)
UseLock(f) == lock \in {Free, f} /\ lock' = Free

(* A worker that no handler interrupts, in a LOG_* or elsewhere. *)
Idles(t) == Current(t) = Base(t) /\ lock # Base(t)

(* LOG_INFO and on to l.  When it throws, in a try block or out of one,    *)
(* the handler's LOG_ERROR throws as well, and std::terminate is called.   *)
LogGoto(f, l) ==
  /\ UseLock(f)
  /\ IF Logs THEN at' = [at EXCEPT ![f] = l] /\ UNCHANGED end
             ELSE end' = "aborted" /\ UNCHANGED at

(* LOG_ERROR, then g_exitHandler.execute() and exit(EXIT_FAILURE). *)
Fail == LogGoto(MainFlow, "take") /\ code' = "exit"

Idle == UNCHANGED <<fn, stack, servers, rest, ran>>

(* g_exitHandler.add *)
Added_Front(x) == <<x>> \o stack            \* mutant: push_front
Added(x) == Append(stack, x)

(* Server::stop of the API server: httplib's stop does nothing to a server *)
(* that does not listen yet ...                                            *)
StopServer_Only(t) == t                     \* mutant: join without stop
StopServer(t) == IF t = "listening" THEN "stopping" ELSE t

(* ... and join waits for the thread.  It fails in that thread itself, and *)
(* while another flow waits; stop catches that and logs it.                *)
Joined_Detached(f) == TRUE                  \* mutant: the thread is left alone
Joined(f) ==
  \/ thread \in {"none", "unbound", "ended"}
  \/ f[1] = "api"
  \/ \E g \in Flows \ {f} : at[g] \in {"join", "unwind"}

(* What the program answers when nothing stops it from doing so. *)
Outcome == IF code = "return" THEN "finished" ELSE "failed"

-----------------------------------------------------------------------------
(* main, block by block *)

StartLogger ==
  /\ Main("logger")
  /\ up' = up \union {"logger"}
  /\ stack' = Added("logger")
  /\ Goto(MainFlow, "conf")
  /\ UNCHANGED <<fn, code, thread, engine, rest, ran>>

LoadConf ==
  /\ Main("conf")
  /\ Fail \/ (Goto(MainFlow, "handlers") /\ UNCHANGED code)
  /\ Idle

InstallHandlers ==
  /\ Main("handlers")
  /\ Goto(MainFlow, "level")
  /\ UNCHANGED code
  /\ Idle

(* A level that cannot be set is logged, and main goes on. *)
SetLevel ==
  /\ Main("level")
  /\ LogGoto(MainFlow, "kvdb")
  /\ UNCHANGED code
  /\ Idle

(* Conf::get logs where a value comes from, and throws when it cannot. *)
InitKvdb ==
  /\ Main("kvdb")
  /\ \/ /\ Logs
        /\ up' = up \union {"kvdb"}
        /\ LogGoto(MainFlow, "addKvdb")
        /\ UNCHANGED <<code, fn, stack, thread, engine, rest, ran>>
     \/ Fail /\ Idle

AddKvdb_Forgotten ==                        \* mutant: no g_exitHandler.add
  /\ Main("addKvdb")
  /\ Goto(MainFlow, "store")
  /\ UNCHANGED code
  /\ Idle
AddKvdb ==
  /\ Main("addKvdb")
  /\ stack' = Added("kvdb")
  /\ Goto(MainFlow, "store")
  /\ UNCHANGED <<fn, code, servers, rest, ran>>

(* With the LOG_INFO that ends the block before. *)
InitStore ==
  /\ Main("store")
  /\ Fail \/ (LogGoto(MainFlow, "catalog") /\ UNCHANGED code)
  /\ Idle

(* Config::validate throws when there is no validator, out of any try. *)
InitCatalog ==
  /\ Main("catalog")
  /\ IF validator THEN LogGoto(MainFlow, "makeApi") ELSE Die("aborted")
  /\ UNCHANGED code
  /\ Idle

MakeApi ==
  /\ Main("makeApi")
  /\ stack' = Added("api")
  /\ Goto(MainFlow, "routes")
  /\ UNCHANGED <<fn, code, servers, rest, ran>>

(* Server::addRoute logs every route. *)
AddRoutes ==
  /\ Main("routes")
  /\ LogGoto(MainFlow, "startApi")
  /\ UNCHANGED code
  /\ Idle

(* Server::start(path): it throws, or starts the thread ... *)
StartApi ==
  /\ Main("startApi")
  /\ \/ Fail /\ Idle
     \/ /\ Logs
        /\ thread' = "starting"
        /\ LogGoto(MainFlow, "waitApi")
        /\ UNCHANGED <<fn, code, stack, up, engine, rest, ran>>

ApiReady == thread \in {"listening", "stopping", "unbound"}

WaitApi ==
  /\ Main("waitApi")
  /\ ApiReady
  /\ Goto(MainFlow, "apiReady")
  /\ UNCHANGED code
  /\ Idle

LogReady ==
  /\ Main("apiReady")
  /\ LogGoto(MainFlow, "makeEngine")
  /\ UNCHANGED code
  /\ Idle

MakeEngine ==
  /\ Main("makeEngine")
  /\ engine' = "made"
  /\ Goto(MainFlow, "addRoute")
  /\ UNCHANGED <<fn, code, stack, up, thread, rest, ran>>

(* The handler of SIGINT may have reset the pointer in the meantime. *)
UseEngine(step) == IF engine = "null" THEN Die("crashed") ELSE step

AddRoute ==
  /\ Main("addRoute")
  /\ UseEngine(LogGoto(MainFlow, "startEngine"))
  /\ UNCHANGED code
  /\ Idle

(* Server::start(path, false) *)
StartEngine ==
  /\ Main("startEngine")
  /\ \/ /\ UseEngine(LogGoto(MainFlow, "listening"))
        /\ up' = up \union {"event"}
        /\ UNCHANGED <<fn, code, stack, thread, engine, rest, ran>>
     \/ /\ UseEngine(LogGoto(MainFlow, "take"))    \* it throws, or cannot bind
        /\ code' = "return"
        /\ Idle

(* Its server was destroyed while main was listening: listen returns when  *)
(* its workers are done, or goes on in memory that is no longer there.     *)
Dangling ==
  /\ Main("listening") /\ engine = "null"
  /\ (Idles("event") /\ Goto(MainFlow, "take")) \/ Die("crashed")
  /\ code' = "return"
  /\ Idle

(* return destroys main's variables: ~Server stops the API server and      *)
(* waits for its thread, unless a handler still holds that server.         *)
Held == \E g \in Flows \ {MainFlow} : fn[g] = "api" /\ at[g] \in {"pop", "run", "join", "log"}

Unwind ==
  /\ Main("leave") /\ code = "return" /\ ~Held
  /\ thread' = StopServer(thread)
  /\ Goto(MainFlow, "unwind")
  /\ UNCHANGED <<fn, code, stack, up, engine, rest, ran>>

(* exit and the end of main destroy g_engineServer, too.  ~Server logs,    *)
(* and a destructor may not throw.                                         *)
Leave ==
  /\ \/ Main("leave") /\ (code = "exit" \/ Held)
     \/ Main("unwind") /\ Joined(MainFlow)
  /\ IF at[MainFlow] = "unwind" \/ engine = "made"
     THEN UseLock(MainFlow) /\ end' = IF ~Logs THEN "aborted" ELSE Outcome
     ELSE UNCHANGED lock /\ end' = Outcome
  /\ UNCHANGED <<at, code>>
  /\ Idle

-----------------------------------------------------------------------------
(* StackExecutor::execute, in main or in the handler of SIGTERM on any thread *)

(* Another thread uses the deque at the same time, which has no mutex. *)
Racing(f) == \E g \in Flows : g[1] # f[1] /\ at[g] \in {"take", "pop"}

Top_Front(s) == Head(s)                     \* mutant: front()
Top(s) == s[Len(s)]

(* The handler of SIGTERM is done: that of SIGINT, if it was interrupted,  *)
(* goes on.                                                                *)
Resumed(t) == [int EXCEPT ![t] = IF @ = "outer" THEN "inner" ELSE @]

Return(f) ==
  /\ At(f, "take") /\ stack = <<>>
  /\ IF f = MainFlow THEN Goto(f, "leave") /\ UNCHANGED int
                     ELSE Goto(f, "none") /\ int' = Resumed(f[1])
  /\ UNCHANGED <<fn, code, stack, servers, validator, signals, untimely, interrupted, ran>>

(* while (!m_stack.empty()) func = m_stack.back(); *)
Take(f) ==
  /\ At(f, "take")
  /\ \/ /\ stack # <<>>
        /\ Goto(f, "pop")
        /\ fn' = [fn EXCEPT ![f] = Top(stack)]
     \/ Racing(f) /\ Die("crashed") /\ UNCHANGED fn
  /\ UNCHANGED <<code, stack, servers, rest, ran>>

(* m_stack.pop_back(); of an empty deque it may do anything. *)
Pop(f) ==
  /\ At(f, "pop")
  /\ \/ Goto(f, "run") /\ stack' = IF stack = <<>> THEN <<>> ELSE SubSeq(stack, 1, Len(stack) - 1)
     \/ (stack = <<>> \/ Racing(f)) /\ Die("crashed") /\ UNCHANGED stack
  /\ UNCHANGED <<fn, code, servers, rest, ran>>

Begin(f, x) == At(f, "run") /\ fn[f] = x /\ ran' = Append(ran, x)

StopApi(f) ==
  /\ Begin(f, "api")
  /\ thread' = StopServer(thread)
  /\ Goto(f, "join")
  /\ UNCHANGED <<fn, code, stack, up, engine, rest>>

JoinApi(f) ==
  /\ At(f, "join")
  /\ Joined(f)
  /\ Goto(f, "log")
  /\ UNCHANGED code
  /\ Idle

StopKvdb(f) ==
  /\ Begin(f, "kvdb")
  /\ up' = up \ {"kvdb"}
  /\ Goto(f, "log")
  /\ UNCHANGED <<fn, code, stack, thread, engine, rest>>

(* spdlog::shutdown *)
StopLogger(f) ==
  /\ Begin(f, "logger")
  /\ UseLock(f)
  /\ up' = up \ {"logger"}
  /\ at' = [at EXCEPT ![f] = "take"] /\ UNCHANGED end
  /\ UNCHANGED <<fn, code, stack, thread, engine, rest>>

(* The exit function logs that it is done. *)
LogStopped(f) ==
  /\ At(f, "log")
  /\ LogGoto(f, "take")
  /\ UNCHANGED code
  /\ Idle

Execute(f) ==
  \/ Take(f) \/ Pop(f) \/ Return(f)
  \/ StopApi(f) \/ JoinApi(f) \/ StopKvdb(f) \/ StopLogger(f) \/ LogStopped(f)

-----------------------------------------------------------------------------
(* The thread of the API server: listen binds the socket or does not ...   *)
Bind ==
  /\ ~Over /\ thread = "starting"
  /\ \/ thread' = "listening" /\ up' = up \union {"api"}
     \/ thread' = "unbound" /\ UNCHANGED up
  /\ UNCHANGED <<at, lock, fn, code, stack, engine, end, rest, ran>>

(* ... and returns when the server was stopped and its workers are done.   *)
Unlisten ==
  /\ Runs(Base("api")) /\ thread = "stopping" /\ Idles("worker")
  /\ thread' = "ended" /\ up' = up \ {"api"}
  /\ UNCHANGED <<at, lock, fn, code, stack, engine, end, rest, ran>>

(* Which threads there are besides main *)
Alive(t) ==
  CASE t = "main"   -> TRUE
    [] t = "api"    -> thread \in {"starting", "listening", "stopping"}
    [] t = "worker" -> thread \in {"listening", "stopping"}
    [] t = "event"  -> at[MainFlow] = "listening"

(* A worker logs what it is asked, and nothing catches what that throws. *)
RequestLog(t) ==
  /\ t \in {"worker", "event"} /\ Alive(t)
  /\ Runs(Base(t)) /\ UseLock(Base(t))
  /\ end' = IF Logs THEN end ELSE "aborted"
  /\ UNCHANGED <<at, code>>
  /\ Idle

-----------------------------------------------------------------------------
(* Signals, once their handlers are installed *)
Caught(t) ==
  /\ ~Over /\ signals < MaxSignals /\ Alive(t)
  /\ at[MainFlow] \notin {"logger", "conf", "handlers"}
  /\ signals' = signals + 1

(* A flow that is in a LOG_*, or may be *)
LogPlaces == {"level", "kvdb", "store", "catalog", "routes", "startApi", "apiReady", "addRoute",
              "startEngine", "log"}
InLog(f) ==
  \/ f[2] = "int"
  \/ f \in {Base("worker"), Base("event")}
  \/ f \in Flows /\ (at[f] \in LogPlaces \/ (at[f] = "run" /\ fn[f] = "logger"))
  \/ f = MainFlow /\ \/ at[f] = "unwind" /\ Joined(f)
                     \/ at[f] = "leave" /\ (code = "exit" \/ Held) /\ engine = "made"

(* A handler interrupts what its thread does, which may have the mutex. *)
Interrupt(t) ==
  lock' \in IF lock = Free /\ InLog(Current(t)) THEN {Free, Current(t)} ELSE {lock}

ResetEngine_Kept == engine                  \* mutant: stop() of a copy
ResetEngine == "null"

(* g_engineServer.reset(), of which another thread may be in the midst:    *)
(* ~Server stops the server ...                                            *)
SigInt(t) ==
  /\ Caught(t)
  /\ int[t] = "none"
  /\ engine' = ResetEngine
  /\ up' = up \ {"event"}
  /\ IF engine = "made" THEN Interrupt(t) /\ int' = [int EXCEPT ![t] = "inner"]
                        ELSE UNCHANGED <<lock, int>>
  /\ UNCHANGED end \/ (end' = "crashed" /\ \E u \in Threads \ {t} : int[u] # "none")
  /\ interrupted' = (interrupted \/ at[MainFlow] = "listening")
  /\ UNCHANGED <<at, fn, code, stack, thread, validator, untimely, ran>>

(* ... and logs that. *)
IntLog(t) ==
  /\ Runs(OnInt(t)) /\ UseLock(OnInt(t))
  /\ IF Logs THEN int' = [int EXCEPT ![t] = "none"] /\ UNCHANGED end
             ELSE end' = "aborted" /\ UNCHANGED int
  /\ UNCHANGED <<at, fn, code, stack, servers, validator, signals, untimely, interrupted, ran>>

(* g_exitHandler.execute(), on top of whatever the thread does *)
SigTerm(t) ==
  /\ Caught(t)
  /\ at[OnTerm(t)] = "none"
  /\ at' = [at EXCEPT ![OnTerm(t)] = "take"]
  /\ int' = [int EXCEPT ![t] = IF @ = "inner" THEN "outer" ELSE @]
  /\ Interrupt(t)
  /\ untimely' = (untimely \/ t # "main" \/ at[MainFlow] # "listening")
  /\ UNCHANGED <<fn, code, stack, servers, end, validator, interrupted, ran>>

-----------------------------------------------------------------------------
Block ==
  \/ StartLogger \/ LoadConf \/ InstallHandlers \/ SetLevel \/ InitKvdb \/ AddKvdb
  \/ InitStore \/ InitCatalog \/ MakeApi \/ AddRoutes \/ StartApi \/ WaitApi \/ LogReady
  \/ MakeEngine \/ AddRoute \/ StartEngine \/ Dangling \/ Unwind \/ Leave

MainStep == Block \/ Execute(MainFlow)

(* What a thread goes on with, the handlers on top of it included; a       *)
(* request only once it has the mutex.                                     *)
Step(t) ==
  \/ t = "main" /\ MainStep
  \/ Execute(OnTerm(t))
  \/ IntLog(t)
  \/ lock = Base(t) /\ RequestLog(t)

Next ==
  \/ \E t \in Threads : Step(t) \/ RequestLog(t) \/ SigInt(t) \/ SigTerm(t)
  \/ Bind \/ Unlisten

(* The operating system schedules every thread; nobody has to send signals *)
(* or requests.  The workers that Unlisten waits for may be in a LOG_*, so *)
(* that it is only sure to go on when nobody has the mutex.                *)
Fairness ==
  /\ \A t \in Threads : WF_vars(Step(t))
  /\ WF_vars(Bind) /\ WF_vars(lock = Free /\ Unlisten)

Spec == Init /\ [][Next]_vars /\ Fairness

-----------------------------------------------------------------------------
(* Properties *)

Before(x, y) == <<x, y>> \in {<<"logger", "kvdb">>, <<"logger", "api">>, <<"kvdb", "api">>}

(* The types; the stack holds each exit function at most once, in the      *)
(* order main adds them; and the API server is up just while its thread    *)
(* listens.                                                                *)
TypeOK ==
  /\ DOMAIN at = Flows /\ fn \in [Flows -> Functions \union {"none"}]
  /\ int \in [Threads -> {"none", "inner", "outer"}]
  /\ lock \in {Free} \union (Threads \X {"base", "term", "int"})
  /\ code \in {"none", "exit", "return"}
  /\ stack \in Seq(Functions)
  /\ \A i, j \in 1..Len(stack) : i < j => Before(stack[i], stack[j])
  /\ up \subseteq {"logger", "kvdb", "api", "event"}
  /\ thread \in {"none", "starting", "listening", "unbound", "stopping", "ended"}
  /\ "api" \in up <=> thread \in {"listening", "stopping"}
  /\ engine \in {"null", "made"}
  /\ end \in {"running", "failed", "finished", "aborted", "crashed"}
  /\ ran \in Seq(Functions)

(* "The functions are executed in reverse order of insertion (LIFO), and   *)
(* the stack is cleared": each once, from the API server to the logger.    *)
ExecutedInOrder ==
  \A i, j \in 1..Len(ran) : i < j => Before(ran[j], ran[i])

(* It holds when SIGTERM comes to main while it listens, whatever SIGINT   *)
(* does; it does not when SIGTERM interrupts a run of the stack, or two    *)
(* threads run it.                                                         *)
TimelyInOrder == ~untimely => ExecutedInOrder

(* As long as the API server serves requests the databases and the logger  *)
(* its handlers use are up: it is started last and stopped first, and its  *)
(* last request is waited for.                                             *)
ServedWithAll == "api" \in up /\ ~Over /\ ~untimely => {"kvdb", "logger"} \subseteq up

(* When main leaves, on any of its ways out, everything it had started has *)
(* been stopped.                                                           *)
LeavesNothing ==
  at[MainFlow] \in {"leave", "unwind"} /\ ~untimely =>
    stack = <<>> /\ up \intersect {"kvdb", "api", "logger"} = {}

(* The ways the process can wait for ever.  A thread has the mutex of the  *)
(* logger and is interrupted by a handler that wants it, at once or when   *)
(* it has joined: *)
SelfLocked ==
  \E t \in Threads :
    LET wanted == InLog(OnTerm(t)) \/ at[OnTerm(t)] = "join"
    IN  \/ lock = Base(t) /\ (int[t] # "none" \/ wanted)
        \/ lock = OnTerm(t) /\ int[t] = "inner"
        \/ lock = OnInt(t) /\ int[t] = "outer" /\ wanted

(* a handler found the server not listening yet, did not stop it, and      *)
(* joins its thread: *)
JoinsUnstopped == (\E f \in Flows : at[f] = "join") /\ thread = "listening"

(* the server was stopped, and ended, before main saw it running: *)
NeverReady == at[MainFlow] = "waitApi" /\ thread = "ended"


(* Once main runs its exit stack the process ends, unless a handler locks  *)
(* its own thread for ever.  A worker that joins the thread which waits    *)
(* for it does not keep main, which no longer finds that server to stop.   *)
ClosingEnds == at[MainFlow] = "take" ~> (Over \/ []SelfLocked)

(* SIGINT ends a process that listens, also one whose exit functions       *)
(* SIGTERM has run already, with the same exception.                       *)
InterruptEnds == interrupted ~> (Over \/ []SelfLocked)
=============================================================================
