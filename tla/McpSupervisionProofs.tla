------------------------ MODULE McpSupervisionProofs ------------------------
(***************************************************************************)
(* The safety of McpSupervision for every restart and reset budget, every  *)
(* number of retries and every number of faults.                           *)
(*                                                                         *)
(* The inductive invariant has two halves.  ControlInv is about the        *)
(* threads: the one inside the lock is the one that holds it, a thread is  *)
(* in a bridge call exactly when its caller says so, and the supervisors   *)
(* of earlier attempts are gone unless one was late.  DataInv is about the *)
(* servers: whoever lives is the installed one, or the newest while a      *)
(* thread waits for it to become ready.                                    *)
(***************************************************************************)
EXTENDS McpSupervision, TLAPS

Inside == {"probe", "count", "stop", "spawn", "preflight", "verify"}

ControlType ==
    /\ lock \subseteq Threads
    /\ at \in [Threads -> {"idle", "lock"} \cup Inside]
    /\ main \in {"check", "launch", "agent", "join", "failed", "reset", "close", "returned"}
    /\ attempt \in Attempts
    /\ exc \in {"none", "agent", "other", "mcp", "exhausted"}
    /\ agent \in {"none", "running", "killed", "stuck"}
    /\ sup \in [Attempts -> {"off", "waiting", "checking", "interrupting", "ended"}]
    /\ done \in [Attempts -> BOOLEAN]
    /\ error \in [Attempts -> {"none", "mcp", "exhausted"}]
    /\ late \in BOOLEAN

\* Whoever is between Acquire and Release holds the lock, alone.
LockInv == \A t \in Threads : at[t] \in Inside => lock = {t}

\* A thread is in a bridge call exactly when its caller waits for one, and supervisors
\* that were not started yet are off.
PlaceInv ==
    /\ at[0] # "idle" <=> main \in {"check", "reset"}
    /\ at[0] = "probe" => main = "check"
    /\ \A t \in Threads : at[t] \in {"count", "verify"} => Resetting(t)
    /\ main = "reset" => attempt <= MaxRetries
    /\ \A i \in Attempts : at[i] # "idle" <=> sup[i] = "checking"
    /\ \A i \in Attempts : i > attempt \/ (i = attempt /\ main = "check") => sup[i] = "off"

\* Unless one was late, only the supervisor of the current attempt can be at work, and
\* only between the start of the attempt and the join.
QuietInv ==
    ~late => \A i \in Attempts :
                sup[i] \in {"off", "ended"} \/ (i = attempt /\ main \in {"launch", "agent", "join"})

ControlInv == ControlType /\ LockInv /\ PlaceInv /\ QuietInv

DataType ==
    /\ server \in Seq({"up", "hung", "stuck", "dead"})
    /\ session \subseteq DOMAIN server
    /\ inner \in DOMAIN server
    /\ misses \in Nat
    /\ restarts \in 0 .. MaxRestarts
    /\ resets \in 0 .. MaxResets
    /\ faults \in 0 .. MaxFaults

Working == {"up", "hung"}
Starting == \E t \in Threads : at[t] = "preflight"

\* Between its check of the budget and its count a health check may still restart.
BudgetInv ==
    \A t \in Threads :
        at[t] \in {"stop", "spawn", "preflight"} => Resetting(t) \/ restarts < MaxRestarts

\* The installed server is down before another one is spawned.
PortInv ==
    /\ \A n \in DOMAIN server : server[n] \in Working => n = inner \/ (n = Newest /\ Starting)
    /\ \A t \in Threads : at[t] \in {"spawn", "preflight"} => server[inner] \notin Working

DataInv == DataType /\ BudgetInv /\ PortInv /\ SessionFileOutlivesServer

IInv == ControlInv /\ DataInv /\ NothingLeftBehind

\* No thread is inside the lock.
Vacant == \A t \in Threads : at[t] \notin Inside

-----------------------------------------------------------------------------
(* How a bridge call ends or goes on.                                      *)

\* A call that returns leaves the threads in order and the lock free.
LEMMA ReturnKeepsControl ==
    ASSUME ControlInv, NEW t \in Threads, at[t] \in Inside, Return(t)
    PROVE  ControlInv' /\ Vacant'
<1> USE DEF ControlInv, Threads, Attempts, invocation, supervision
<1>1. lock = {t} /\ \A u \in Threads : u # t => at[u] \notin Inside
  BY DEF LockInv
<1>2. \A u \in Threads : u # t => at'[u] = at[u]
  BY DEF Return, Release, ControlType
<1>3. at'[t] \in {"idle", "lock"}
  BY DEF Return, Release, ControlType
<1>4. Vacant'
  BY <1>1, <1>2, <1>3 DEF Vacant, Inside
<1>a. MaxRetries \in Nat
  BY McpAssumption
<1>5. ControlType'
  <2>1. CASE t = 0 /\ main = "reset"
    <3>1. attempt + 1 \in Attempts
      BY <1>a, <2>1 DEF ControlType, PlaceInv
    <3> QED BY <2>1, <3>1, <1>1 DEF Return, Release, NextAttempt, ControlType, Inside
  <2>2. CASE ~(t = 0 /\ main = "reset")
    BY <2>2, <1>1 DEF Return, Release, StartAttempt, ControlType, Inside
  <2> QED BY <2>1, <2>2
<1>6. LockInv'
  BY <1>4 DEF LockInv, Vacant
<1>7. PlaceInv'
  <2>0. 0 \notin Attempts
    BY <1>a
  <2>1. CASE t = 0 /\ main = "check"
    BY <1>a, <2>0, <2>1, <1>2 DEF Return, Release, StartAttempt, ControlType, PlaceInv, Inside, Resetting
  <2>2. CASE t = 0 /\ main = "reset"
    BY <1>a, <2>0, <2>2, <1>2 DEF Return, Release, NextAttempt, ControlType, PlaceInv, Inside, Resetting
  <2>3. CASE t # 0
    <3>1. t \in Attempts /\ at'[t] = "idle" /\ sup[t] = "checking"
      BY <2>3 DEF Return, Release, ControlType, PlaceInv, Inside, Resetting
    <3>2. sup' = [sup EXCEPT ![t] = "waiting"] /\ main' = main /\ attempt' = attempt
      BY <2>3 DEF Return
    <3>3. at'[0] = at[0]
      BY <2>3, <1>2
    <3>4. \A i \in Attempts : at'[i] # "idle" <=> sup'[i] = "checking"
      BY <3>1, <3>2, <1>2 DEF ControlType, PlaceInv
    <3>5. \A i \in Attempts : sup[i] = "off" => sup'[i] = "off"
      BY <3>1, <3>2 DEF ControlType
    <3> QED BY <3>2, <3>3, <3>4, <3>5, <1>4 DEF PlaceInv, Vacant, Inside
  <2> QED BY <2>1, <2>2, <2>3 DEF Return
<1>8. QuietInv'
  <2>1. CASE t = 0 /\ main = "check"
    BY <2>1, Zenon DEF Return, StartAttempt, ControlType, QuietInv
  <2>2. CASE t = 0 /\ main = "reset"
    BY <2>2 DEF Return, NextAttempt, QuietInv
  <2>3. CASE t # 0
    <3>1. t \in Attempts /\ sup[t] = "checking"
      BY <2>3 DEF PlaceInv, Inside
    <3>2. sup' = [sup EXCEPT ![t] = "waiting"] /\ UNCHANGED <<main, attempt, late>>
      BY <2>3 DEF Return
    <3> QED BY <3>1, <3>2 DEF ControlType, QuietInv
  <2> QED BY <2>1, <2>2, <2>3 DEF Return
<1> QED BY <1>4, <1>5, <1>6, <1>7, <1>8

\* So does a call that raises, whatever it raises.
LEMMA RaiseKeepsControl ==
    ASSUME ControlInv, NEW t \in Threads, at[t] \in Inside,
           NEW kind \in {"other", "mcp", "exhausted"}, Raise(t, kind)
    PROVE  ControlInv' /\ Vacant'
<1> USE DEF ControlInv, Threads, Attempts, invocation, supervision
<1>1. lock = {t} /\ \A u \in Threads : u # t => at[u] \notin Inside
  BY DEF LockInv
<1>2. /\ \A u \in Threads : u # t => at'[u] = at[u]
      /\ at'[t] = "idle"
  BY DEF Raise, Release, ControlType
<1>3. Vacant'
  BY <1>1, <1>2 DEF Vacant, Inside
<1>4. ControlType'
  <2>1. lock' \subseteq Threads /\ at' \in [Threads -> {"idle", "lock"} \cup Inside]
    BY DEF Raise, Release, ControlType
  <2>2. CASE t = 0
    BY <2>1, <2>2 DEF Raise, Caught, ControlType
  <2>3. CASE t # 0
    <3>1. UNCHANGED <<main, attempt, exc, agent, done, late>>
      BY <2>3 DEF Raise, Caught
    <3>2. error' \in [Attempts -> {"none", "mcp", "exhausted"}]
      BY <2>3 DEF Raise, Caught, ControlType
    <3>3. sup' \in [Attempts -> {"off", "waiting", "checking", "interrupting", "ended"}]
      BY <2>3 DEF Raise, Caught, ControlType
    <3> QED BY <2>1, <3>1, <3>2, <3>3 DEF ControlType
  <2> QED BY <2>2, <2>3
<1>5. LockInv'
  BY <1>3 DEF LockInv, Vacant
<1>a. 0 \notin Attempts
  BY McpAssumption
<1>6. PlaceInv'
  <2>1. CASE t = 0
    <3>1. main \in {"check", "reset"} /\ main' \in {"failed", "close"}
      BY <2>1 DEF Raise, Caught, PlaceInv, Inside
    <3>2. UNCHANGED <<sup, attempt>>
      BY <2>1 DEF Raise, Caught
    <3> QED BY <1>a, <2>1, <3>1, <3>2, <1>2, <1>3 DEF PlaceInv, Vacant, Inside
  <2>2. CASE t # 0
    <3>1. t \in Attempts /\ sup[t] = "checking"
      BY <2>2 DEF PlaceInv, Inside
    <3>2. /\ UNCHANGED <<main, attempt>>
          /\ \A i \in Attempts : i # t => sup'[i] = sup[i]
          /\ sup'[t] \in {"waiting", "interrupting"}
      BY <2>2, <3>1, Zenon DEF Raise, Caught, ControlType
    <3>3. at'[0] = at[0]
      BY <2>2, <1>2
    <3>4. \A i \in Attempts : at'[i] # "idle" <=> sup'[i] = "checking"
      BY <3>1, <3>2, <1>2 DEF PlaceInv
    <3>5. \A i \in Attempts : sup[i] = "off" => sup'[i] = "off"
      BY <3>1, <3>2
    <3> QED BY <3>2, <3>3, <3>4, <3>5, <1>3 DEF PlaceInv, Vacant, Inside
  <2> QED BY <2>1, <2>2
<1>7. QuietInv'
  <2>1. CASE t = 0
    <3>1. main \in {"check", "reset"}
      BY <2>1 DEF PlaceInv, Inside
    <3>2. UNCHANGED <<sup, attempt, late>>
      BY <2>1 DEF Raise, Caught
    <3> QED BY <3>1, <3>2 DEF QuietInv
  <2>2. CASE t # 0
    <3>1. t \in Attempts /\ sup[t] = "checking"
      BY <2>2 DEF PlaceInv, Inside
    <3>2. UNCHANGED <<main, attempt, late>> /\ \A i \in Attempts : i # t => sup'[i] = sup[i]
      BY <2>2, <3>1, Zenon DEF Raise, Caught, ControlType
    <3> QED BY <3>1, <3>2 DEF QuietInv
  <2> QED BY <2>1, <2>2
<1> QED BY <1>3, <1>4, <1>5, <1>6, <1>7

\* A call that goes on keeps the lock.
LEMMA ContinueKeepsControl ==
    ASSUME ControlInv, NEW t \in Threads, at[t] \in Inside,
           NEW next \in {"stop", "spawn", "preflight", "verify"},
           next = "verify" => Resetting(t), Continue(t, next)
    PROVE  /\ ControlInv'
           /\ at' = [at EXCEPT ![t] = next]
           /\ \A u \in Threads : u # t => at'[u] \notin Inside
<1> USE DEF ControlInv, Threads, Attempts
<1>1. lock = {t} /\ \A u \in Threads : u # t => at[u] \notin Inside
  BY DEF LockInv
<1>2. at' = [at EXCEPT ![t] = next]
  BY DEF Continue
<1>3. ControlType'
  BY <1>2 DEF Continue, invocation, supervision, ControlType, Inside
<1>4. LockInv' /\ \A u \in Threads : u # t => at'[u] \notin Inside
  BY <1>1, <1>2 DEF Continue, LockInv, ControlType, Inside
<1>5. PlaceInv'
  BY McpAssumption, <1>2 DEF Continue, invocation, supervision, ControlType, PlaceInv, Inside, Resetting
<1>6. QuietInv'
  BY DEF Continue, invocation, supervision, QuietInv
<1> QED BY <1>2, <1>3, <1>4, <1>5, <1>6

-----------------------------------------------------------------------------
(* The steps of a bridge call, one lemma each.                             *)

LEMMA AcquireStep ==
    ASSUME ControlInv, DataInv, NEW t \in Threads, Acquire(t)
    PROVE  ControlInv' /\ DataInv'
<1> USE DEF invocation, supervision
<1>0. 0 \notin Attempts /\ Threads = {0} \cup Attempts
  BY McpAssumption DEF Threads, Attempts
<1>1. /\ at' = [at EXCEPT ![t] = IF Resetting(t) THEN "count" ELSE "probe"]
      /\ at'[t] \in {"count", "probe"}
      /\ \A u \in Threads : u # t => at'[u] = at[u] /\ at[u] \notin Inside
  BY DEF Acquire, ControlInv, ControlType, LockInv
<1>2. ControlType'
  BY <1>1 DEF Acquire, ControlInv, ControlType, Inside
<1>3. LockInv'
  BY <1>1 DEF Acquire, LockInv
<1>4. PlaceInv'
  BY <1>0, <1>1 DEF Acquire, ControlInv, ControlType, PlaceInv, Resetting
<1>5. QuietInv'
  BY DEF Acquire, ControlInv, QuietInv
<1>6. DataType' /\ SessionFileOutlivesServer'
  BY DEF Acquire, DataInv, DataType, SessionFileOutlivesServer
<1>7. \A u \in Threads : at'[u] \notin {"stop", "spawn", "preflight"}
  BY <1>1 DEF Inside
<1>8. ~Starting
  BY <1>1 DEF Starting, Inside, Acquire
<1>9. BudgetInv' /\ PortInv'
  BY <1>7, <1>8 DEF Acquire, DataInv, BudgetInv, PortInv, Newest
<1> QED BY <1>2, <1>3, <1>4, <1>5, <1>6, <1>9 DEF ControlInv, DataInv

\* The data invariant after a call that ended: only the installed server may be working.
LEMMA VacantData ==
    ASSUME Vacant', DataType', SessionFileOutlivesServer',
           \A n \in DOMAIN server' : server'[n] \in Working => n = inner'
    PROVE  DataInv'
<1>1. BudgetInv'
  BY DEF Vacant, BudgetInv, Inside
<1>2. PortInv'
  BY DEF Vacant, PortInv, Inside
<1> QED BY <1>1, <1>2 DEF DataInv

\* The installed server is the only working one unless a server is being started.
LEMMA OnlyInner ==
    ASSUME ControlInv, DataInv, NEW t \in Threads, at[t] \in Inside, at[t] # "preflight"
    PROVE  \A n \in DOMAIN server : server[n] \in Working => n = inner
<1>1. ~Starting
  BY DEF Starting, ControlInv, LockInv, Inside
<1> QED BY <1>1 DEF DataInv, PortInv

LEMMA ProbeStep ==
    ASSUME ControlInv, DataInv, NEW t \in Threads, Probe(t)
    PROVE  ControlInv' /\ DataInv'
<1>0. at[t] = "probe" /\ at[t] \in Inside
  BY DEF Probe, Inside
<1>1. UNCHANGED <<server, session, inner, restarts, resets, faults>> /\ misses' \in Nat
  BY DEF Probe, DataInv, DataType
<1>2. DataType' /\ SessionFileOutlivesServer'
  BY <1>1 DEF DataInv, DataType, SessionFileOutlivesServer
<1>3. \A n \in DOMAIN server' : server'[n] \in Working => n = inner'
  BY <1>0, <1>1, OnlyInner
<1>4. CASE Return(t)
  BY <1>0, <1>2, <1>3, <1>4, ReturnKeepsControl, VacantData
<1>5. CASE Raise(t, "exhausted")
  BY <1>0, <1>2, <1>3, <1>5, RaiseKeepsControl, VacantData
<1>6. CASE Continue(t, "stop") /\ ~Exhausted
  <2>1. /\ ControlInv'
        /\ at' = [at EXCEPT ![t] = "stop"]
        /\ \A u \in Threads : u # t => at'[u] \notin Inside
    BY <1>0, <1>6, ContinueKeepsControl
  <2>2. at'[t] = "stop"
    BY <2>1 DEF ControlInv, ControlType
  <2>3. restarts' < MaxRestarts
    BY <1>1, <1>6, McpAssumption DEF Exhausted, DataInv, DataType
  <2>4. BudgetInv'
    BY <2>1, <2>2, <2>3 DEF BudgetInv, Inside
  <2>5. PortInv'
    BY <2>1, <2>2, <1>3 DEF PortInv, Inside
  <2> QED BY <2>1, <2>4, <2>5, <1>2 DEF DataInv
<1> QED BY <1>4, <1>5, <1>6 DEF Probe

LEMMA CountResetStep ==
    ASSUME ControlInv, DataInv, NEW t \in Threads, CountReset(t)
    PROVE  ControlInv' /\ DataInv'
<1>0. at[t] = "count" /\ at[t] \in Inside
  BY DEF CountReset, Inside
<1>a. MaxResets \in Nat
  BY McpAssumption
<1>1. UNCHANGED <<server, session, inner, misses, restarts, faults>> /\ resets' \in 0 .. MaxResets
  BY <1>a DEF CountReset, DataInv, DataType
<1>2. DataType' /\ SessionFileOutlivesServer'
  BY <1>1 DEF DataInv, DataType, SessionFileOutlivesServer
<1>3. \A n \in DOMAIN server' : server'[n] \in Working => n = inner'
  BY <1>0, <1>1, OnlyInner
<1>4. CASE Raise(t, "exhausted")
  BY <1>0, <1>2, <1>3, <1>4, RaiseKeepsControl, VacantData
<1>5. CASE Continue(t, "stop")
  <2>1. /\ ControlInv'
        /\ at' = [at EXCEPT ![t] = "stop"]
        /\ \A u \in Threads : u # t => at'[u] \notin Inside
    BY <1>0, <1>5, ContinueKeepsControl
  <2>2. at'[t] = "stop"
    BY <2>1 DEF ControlInv, ControlType
  <2>3. Resetting(t)
    BY <1>0 DEF Resetting, ControlInv, ControlType, PlaceInv, Threads
  <2>4. BudgetInv'
    BY <2>1, <2>2, <2>3, <1>5 DEF BudgetInv, Inside, Continue, Resetting, invocation
  <2>5. PortInv'
    BY <2>1, <2>2, <1>3 DEF PortInv, Inside
  <2> QED BY <2>1, <2>4, <2>5, <1>2 DEF DataInv
<1> QED BY <1>4, <1>5 DEF CountReset

\* What a shutdown of server n leaves, whether it succeeds or not.
Down(n) ==
    /\ server' \in Seq({"up", "hung", "stuck", "dead"})
    /\ Len(server') = Len(server)
    /\ DOMAIN server' = DOMAIN server
    /\ server'[n] \notin Working
    /\ \A k \in DOMAIN server : k # n => server'[k] = server[k]
    /\ session' \subseteq DOMAIN server
    /\ SessionFileOutlivesServer'
    /\ faults' \in 0 .. MaxFaults

LEMMA ExceptSeq ==
    ASSUME NEW S, NEW q \in Seq(S), NEW n \in DOMAIN q, NEW x \in S
    PROVE  /\ [q EXCEPT ![n] = x] \in Seq(S)
           /\ Len([q EXCEPT ![n] = x]) = Len(q)
           /\ DOMAIN [q EXCEPT ![n] = x] = DOMAIN q
           /\ [q EXCEPT ![n] = x][n] = x
           /\ \A k \in DOMAIN q : k # n => [q EXCEPT ![n] = x][k] = q[k]
  OBVIOUS

LEMMA ShutdownResult ==
    ASSUME DataType, SessionFileOutlivesServer, NEW n \in DOMAIN server,
           NEW kind, Stopped(n) \/ StopFails(n, kind)
    PROVE  Down(n)
<1>1. faults' \in 0 .. MaxFaults
  BY McpAssumption DEF Stopped, StopFails, Fault, DataType
<1>2. CASE Stopped(n)
  <2>1. server' = [server EXCEPT ![n] = "dead"] /\ session' = session \ {n}
    BY <1>2 DEF Stopped
  <2> QED BY <1>1, <2>1, ExceptSeq DEF Down, DataType, SessionFileOutlivesServer, Alive, Working
<1>3. CASE StopFails(n, kind)
  <2>1. server' = [server EXCEPT ![n] = "stuck"] /\ session' = session /\ server[n] \in Alive
    BY <1>3 DEF StopFails, Alive
  <2> QED BY <1>1, <2>1, ExceptSeq DEF Down, DataType, SessionFileOutlivesServer, Alive, Working
<1> QED BY <1>2, <1>3

LEMMA StopInnerStep ==
    ASSUME ControlInv, DataInv, NEW t \in Threads, StopInner(t)
    PROVE  ControlInv' /\ DataInv'
<1>0. at[t] = "stop" /\ at[t] \in Inside
  BY DEF StopInner, Inside
<1>1. UNCHANGED <<inner, misses, restarts, resets>>
  BY DEF StopInner
<1>2. Down(inner)
  BY ShutdownResult DEF StopInner, DataInv, DataType
<1>3. DataType' /\ SessionFileOutlivesServer'
  BY <1>1, <1>2 DEF DataInv, DataType, Down
<1>4. \A n \in DOMAIN server' : server'[n] \notin Working
  BY <1>0, <1>2, OnlyInner DEF Down
<1>5. CASE \E kind \in {"other", "mcp"} : Raise(t, kind)
  BY <1>0, <1>3, <1>4, <1>5, RaiseKeepsControl, VacantData
<1>6. CASE Continue(t, "spawn")
  <2>1. /\ ControlInv'
        /\ at' = [at EXCEPT ![t] = "spawn"]
        /\ \A u \in Threads : u # t => at'[u] \notin Inside
    BY <1>0, <1>6, ContinueKeepsControl
  <2>2. BudgetInv'
    <3>1. Resetting(t) \/ restarts < MaxRestarts
      BY <1>0 DEF DataInv, BudgetInv
    <3>2. Resetting(t)' \/ restarts' < MaxRestarts
      BY <3>1, <1>1, <1>6 DEF Continue, Resetting, invocation
    <3> QED BY <2>1, <3>2 DEF BudgetInv, Inside
  <2>3. PortInv'
    BY <1>1, <1>3, <1>4 DEF PortInv, DataType
  <2> QED BY <2>1, <2>2, <2>3, <1>3 DEF DataInv
<1> QED BY <1>5, <1>6 DEF StopInner

LEMMA AppendSeq ==
    ASSUME NEW S, NEW q \in Seq(S), NEW x \in S
    PROVE  /\ Append(q, x) \in Seq(S)
           /\ DOMAIN Append(q, x) = 1 .. Len(q) + 1
           /\ Len(Append(q, x)) = Len(q) + 1
           /\ DOMAIN q = 1 .. Len(q)
           /\ Len(q) \in Nat
           /\ Append(q, x)[Len(q) + 1] = x
           /\ \A k \in 1 .. Len(q) : Append(q, x)[k] = q[k]
  OBVIOUS

LEMMA SpawnServerStep ==
    ASSUME ControlInv, DataInv, NEW t \in Threads, SpawnServer(t)
    PROVE  ControlInv' /\ DataInv'
<1>0. at[t] = "spawn" /\ at[t] \in Inside
  BY DEF SpawnServer, Inside
<1>1. UNCHANGED <<inner, misses, restarts, resets>>
  BY DEF SpawnServer
<1>2. \A n \in DOMAIN server : server[n] \notin Working
  BY <1>0, OnlyInner DEF DataInv, PortInv
<1>3. CASE Fault /\ Raise(t, "other") /\ UNCHANGED <<server, session>>
  <2>1. DataType' /\ SessionFileOutlivesServer'
    BY <1>1, <1>3, McpAssumption DEF DataInv, DataType, SessionFileOutlivesServer, Fault
  <2> QED BY <1>0, <1>2, <1>3, <2>1, RaiseKeepsControl, VacantData
<1>4. CASE /\ server' = Append(server, "up")
           /\ session' = session \cup {Newest + 1}
           /\ Continue(t, "preflight")
           /\ UNCHANGED faults
  <2>0. /\ server' \in Seq({"up", "hung", "stuck", "dead"})
        /\ DOMAIN server' = 1 .. Newest + 1
        /\ Newest' = Newest + 1
        /\ DOMAIN server = 1 .. Newest
        /\ Newest \in Nat
        /\ \A n \in 1 .. Newest : server'[n] = server[n]
    BY <1>4, AppendSeq DEF DataInv, DataType, Newest
  <2>1. /\ ControlInv'
        /\ at' = [at EXCEPT ![t] = "preflight"]
        /\ \A u \in Threads : u # t => at'[u] \notin Inside
    BY <1>0, <1>4, ContinueKeepsControl
  <2>2. at'[t] = "preflight"
    BY <2>1 DEF ControlInv, ControlType
  <2>3. BudgetInv'
    <3>1. Resetting(t) \/ restarts < MaxRestarts
      BY <1>0 DEF DataInv, BudgetInv
    <3>2. Resetting(t)' \/ restarts' < MaxRestarts
      BY <3>1, <1>1, <1>4 DEF Continue, Resetting, invocation
    <3> QED BY <2>1, <3>2 DEF BudgetInv, Inside
  <2>4. DataType'
    BY <2>0, <1>1, <1>4 DEF DataInv, DataType
  <2>5. SessionFileOutlivesServer'
    BY <2>0, <1>4 DEF DataInv, SessionFileOutlivesServer
  <2>6. \A n \in DOMAIN server' : server'[n] \in Working => n = Newest'
    BY <2>0, <1>2
  <2>7. server'[inner'] \notin Working
    BY <2>0, <1>1, <1>2 DEF DataInv, DataType
  <2>8. Starting'
    BY <2>2 DEF Starting
  <2>9. PortInv'
    BY <2>6, <2>7, <2>8 DEF PortInv
  <2> QED BY <2>1, <2>3, <2>4, <2>5, <2>9 DEF DataInv
<1> QED BY <1>3, <1>4 DEF SpawnServer

\* While a server is started nobody but it works.
LEMMA OnlyNewest ==
    ASSUME ControlInv, DataInv, NEW t \in Threads, at[t] = "preflight"
    PROVE  /\ \A n \in DOMAIN server : server[n] \in Working => n = Newest
           /\ Newest \in DOMAIN server
<1>1. \A n \in DOMAIN server : server[n] \in Working => n = Newest
  BY DEF DataInv, PortInv
<1>2. Newest \in DOMAIN server
  BY DEF DataInv, DataType, Newest
<1> QED BY <1>1, <1>2

LEMMA ReadyStep ==
    ASSUME ControlInv, DataInv, NEW t \in Threads, Ready(t)
    PROVE  ControlInv' /\ DataInv'
<1>0. at[t] = "preflight" /\ at[t] \in Inside
  BY DEF Ready, Inside
<1>1. UNCHANGED <<server, session, resets, faults>> /\ inner' = Newest
  BY DEF Ready
<1>2. misses' \in Nat /\ restarts' \in 0 .. MaxRestarts
  <2>1. CASE Resetting(t)
    BY <2>1 DEF Ready, DataInv, DataType
  <2>2. CASE ~Resetting(t)
    <3>1. restarts < MaxRestarts
      BY <1>0, <2>2 DEF DataInv, BudgetInv
    <3> QED BY <2>2, <3>1, McpAssumption DEF Ready, DataInv, DataType
  <2> QED BY <2>1, <2>2
<1>3. DataType' /\ SessionFileOutlivesServer'
  BY <1>0, <1>1, <1>2, OnlyNewest DEF DataInv, DataType, SessionFileOutlivesServer
<1>4. \A n \in DOMAIN server' : server'[n] \in Working => n = inner'
  BY <1>0, <1>1, OnlyNewest
<1>5. CASE Return(t)
  BY <1>0, <1>3, <1>4, <1>5, ReturnKeepsControl, VacantData
<1>6. CASE Resetting(t) /\ Continue(t, "verify")
  <2>1. /\ ControlInv'
        /\ at' = [at EXCEPT ![t] = "verify"]
        /\ \A u \in Threads : u # t => at'[u] \notin Inside
    BY <1>0, <1>6, ContinueKeepsControl
  <2>2. at'[t] = "verify"
    BY <2>1 DEF ControlInv, ControlType
  <2>3. BudgetInv' /\ PortInv'
    BY <2>1, <2>2, <1>4 DEF BudgetInv, PortInv, Inside
  <2> QED BY <2>1, <2>3, <1>3 DEF DataInv
<1> QED BY <1>5, <1>6 DEF Ready

LEMMA NotReadyStep ==
    ASSUME ControlInv, DataInv, NEW t \in Threads, NotReady(t)
    PROVE  ControlInv' /\ DataInv'
<1>0. at[t] = "preflight" /\ at[t] \in Inside
  BY DEF NotReady, Inside
<1>1. UNCHANGED <<inner, misses, restarts, resets>>
  BY DEF NotReady
<1>2. Newest \in DOMAIN server
  BY <1>0, OnlyNewest
<1>3. Down(Newest)
  <2>1. CASE StopFails(Newest, "other")
    BY <2>1, <1>2, ShutdownResult DEF DataInv
  <2>2. CASE /\ Fault
             /\ server' = [server EXCEPT ![Newest] = "dead"]
             /\ session' = session \ {Newest}
    <3>1. faults' \in 0 .. MaxFaults
      BY <2>2, McpAssumption DEF Fault, DataInv, DataType
    <3> QED BY <2>2, <3>1, <1>2, ExceptSeq
            DEF Down, DataInv, DataType, SessionFileOutlivesServer, Alive, Working
  <2> QED BY <2>1, <2>2 DEF NotReady
<1>4. DataType' /\ SessionFileOutlivesServer'
  BY <1>1, <1>3 DEF DataInv, DataType, Down
<1>5. \A n \in DOMAIN server' : server'[n] \notin Working
  BY <1>0, <1>3, OnlyNewest DEF Down
<1>6. \E kind \in {"other", "mcp", "exhausted"} : Raise(t, kind)
  BY DEF NotReady
<1> QED BY <1>0, <1>4, <1>5, <1>6, RaiseKeepsControl, VacantData

LEMMA VerifyStep ==
    ASSUME ControlInv, DataInv, NEW t \in Threads, Verify(t)
    PROVE  ControlInv' /\ DataInv'
<1>0. at[t] = "verify" /\ at[t] \in Inside /\ at[t] # "preflight"
  BY DEF Verify, Inside
<1>1. UNCHANGED <<server, session, inner, misses, restarts, resets>> /\ faults' \in 0 .. MaxFaults
  BY McpAssumption DEF Verify, Fault, DataInv, DataType
<1>2. DataType' /\ SessionFileOutlivesServer'
  BY <1>1 DEF DataInv, DataType, SessionFileOutlivesServer
<1>3. \A n \in DOMAIN server' : server'[n] \in Working => n = inner'
  BY <1>0, <1>1, OnlyInner
<1>4. CASE Return(t)
  BY <1>0, <1>2, <1>3, <1>4, ReturnKeepsControl, VacantData
<1>5. CASE Raise(t, "mcp")
  BY <1>0, <1>2, <1>3, <1>5, RaiseKeepsControl, VacantData
<1> QED BY <1>4, <1>5 DEF Verify

\* A bridge call is under way only while the invocation is, or some supervisor is late.
LEMMA CallsAreOver ==
    ASSUME ControlInv, NEW t \in Threads, at[t] # "idle", ~late
    PROVE  main \notin {"failed", "close", "returned"}
<1>1. CASE t = 0
  BY <1>1 DEF ControlInv, PlaceInv
<1>2. CASE t # 0
  BY <1>2 DEF ControlInv, PlaceInv, QuietInv, Threads
<1> QED BY <1>1, <1>2

LEMMA BridgeKeepsInv ==
    ASSUME IInv, NEW t \in Threads, BridgeStep(t)
    PROVE  IInv'
<1>1. ControlInv' /\ DataInv'
  BY AcquireStep, ProbeStep, CountResetStep, StopInnerStep, SpawnServerStep, ReadyStep,
     NotReadyStep, VerifyStep DEF IInv, BridgeStep
<1>2. at[t] # "idle"
  BY DEF BridgeStep, Acquire, Probe, CountReset, StopInner, SpawnServer, Ready, NotReady, Verify
<1>3. late' = late /\ (main' = main \/ main' # "returned")
  <2>1. /\ Return(t) => late' = late /\ (main' = main \/ main' # "returned")
        /\ \A kind : Raise(t, kind) => late' = late /\ (main' = main \/ main' # "returned")
        /\ \A next : Continue(t, next) => late' = late /\ main' = main
    BY DEF Return, Raise, Caught, Continue, StartAttempt, NextAttempt, invocation, supervision
  <2> QED BY <2>1 DEF BridgeStep, Acquire, Probe, CountReset, StopInner, SpawnServer, Ready,
                      NotReady, Verify, invocation, supervision
<1>4. NothingLeftBehind'
  BY <1>2, <1>3, CallsAreOver DEF IInv, NothingLeftBehind
<1> QED BY <1>1, <1>4 DEF IInv

-----------------------------------------------------------------------------
(* The steps outside the bridge.                                           *)

LEMMA ServerFailsKeepsInv ==
    ASSUME IInv, NEW n \in DOMAIN server, ServerFails(n)
    PROVE  IInv'
<1>0. UNCHANGED <<session, inner, misses, restarts, resets, lock, at, main, attempt, exc, agent,
                  sup, done, error, late, faults>>
  BY DEF ServerFails, invocation, supervision
<1>1. \E x \in {"dead", "hung"} :
         /\ server' = [server EXCEPT ![n] = x]
         /\ x = "hung" => server[n] = "up"
  BY DEF ServerFails
<1>2. /\ server' \in Seq({"up", "hung", "stuck", "dead"})
      /\ Len(server') = Len(server)
      /\ DOMAIN server' = DOMAIN server
      /\ \A k \in DOMAIN server : /\ server'[k] \in Working => server[k] \in Working
                                  /\ server'[k] \in Alive => server[k] \in Alive
                                  /\ server[k] \in {"dead", "stuck"} => server'[k] \in {"dead", "stuck"}
  BY <1>1, ExceptSeq DEF IInv, DataInv, DataType, Working, Alive
<1>3. ControlInv'
  BY <1>0 DEF IInv, ControlInv, ControlType, LockInv, PlaceInv, QuietInv, Resetting
<1>4. DataType' /\ SessionFileOutlivesServer' /\ NothingLeftBehind'
  BY <1>0, <1>2, Zenon DEF IInv, DataInv, DataType, SessionFileOutlivesServer, NothingLeftBehind
<1>5. BudgetInv'
  BY <1>0 DEF IInv, DataInv, BudgetInv, Resetting
<1>6. PortInv'
  BY <1>0, <1>2 DEF IInv, DataInv, DataType, PortInv, Newest, Starting
<1> QED BY <1>3, <1>4, <1>5, <1>6 DEF IInv, DataInv

\* DataInv only depends on where threads are inside the lock and on who resets.
LEMMA SameData ==
    ASSUME DataInv, UNCHANGED <<server, session, inner, misses, restarts, resets>>,
           faults' \in 0 .. MaxFaults,
           \A t \in Threads : at'[t] \in Inside => at'[t] = at[t] /\ (Resetting(t) => Resetting(t)'),
           \A t \in Threads : at[t] \in Inside => at'[t] = at[t]
    PROVE  DataInv'
<1>1. DataType' /\ SessionFileOutlivesServer'
  BY DEF DataInv, DataType, SessionFileOutlivesServer
<1>2. BudgetInv'
  BY DEF DataInv, BudgetInv, Inside
<1>3. Starting => Starting'
  BY DEF Starting, Inside
<1>4. PortInv'
  BY <1>3 DEF DataInv, PortInv, Newest, Inside
<1> QED BY <1>1, <1>2, <1>4 DEF DataInv

LEMMA SupervisorKeepsInv ==
    ASSUME IInv, NEW i \in Attempts, SupervisorStep(i)
    PROVE  IInv'
<1>0. i \in Threads /\ i # 0 /\ 0 \notin Attempts /\ Threads = {0} \cup Attempts
  BY McpAssumption DEF Threads, Attempts
<1> USE DEF invocation, supervision, bridge
<1>1. CASE BridgeStep(i)
  BY <1>0, <1>1, BridgeKeepsInv
<1>2. CASE Wakes(i)
  <2>1. at' = [at EXCEPT ![i] = "lock"] /\ sup' = [sup EXCEPT ![i] = "checking"] /\ at[i] = "idle"
    BY <1>2 DEF Wakes, IInv, ControlInv, ControlType, PlaceInv
  <2>2. ControlType'
    BY <1>0, <1>2, <2>1 DEF Wakes, IInv, ControlInv, ControlType, Inside
  <2>3. LockInv'
    BY <1>0, <1>2, <2>1 DEF Wakes, IInv, ControlInv, ControlType, LockInv, Inside
  <2>4. PlaceInv'
    BY <1>0, <1>2, <2>1 DEF Wakes, IInv, ControlInv, ControlType, PlaceInv, Resetting
  <2>5. QuietInv'
    BY <1>2, <2>1 DEF Wakes, IInv, ControlInv, ControlType, QuietInv
  <2>6. DataInv'
    BY <1>0, <1>2, <2>1, SameData DEF Wakes, IInv, ControlInv, ControlType, DataInv, DataType, Inside, Resetting
  <2>7. NothingLeftBehind'
    BY <1>2 DEF Wakes, IInv, NothingLeftBehind
  <2> QED BY <2>2, <2>3, <2>4, <2>5, <2>6, <2>7 DEF IInv, ControlInv
<1>3. CASE Leaves(i) \/ InterruptAgent(i)
  <2>1. /\ UNCHANGED <<server, session, inner, misses, restarts, resets, lock, at, main, attempt, exc, done, error, late>>
        /\ sup' = [sup EXCEPT ![i] = "ended"]
        /\ sup[i] \in {"waiting", "interrupting"}
        /\ agent' \in {"none", "running", "killed", "stuck"}
        /\ faults' \in 0 .. MaxFaults
    BY <1>3, McpAssumption DEF Leaves, InterruptAgent, Fault, IInv, ControlInv, ControlType, DataInv, DataType
  <2>2. ControlType' /\ LockInv'
    BY <2>1 DEF IInv, ControlInv, ControlType, LockInv
  <2>3. PlaceInv'
    BY <1>0, <2>1 DEF IInv, ControlInv, ControlType, PlaceInv, Resetting
  <2>4. QuietInv'
    BY <2>1 DEF IInv, ControlInv, ControlType, QuietInv
  <2>5. DataInv'
    BY <2>1, SameData DEF IInv, Resetting
  <2>6. NothingLeftBehind'
    BY <2>1 DEF IInv, NothingLeftBehind
  <2> QED BY <2>2, <2>3, <2>4, <2>5, <2>6 DEF IInv, ControlInv
<1> QED BY <1>1, <1>2, <1>3 DEF SupervisorStep

LEMMA MainKeepsInv ==
    ASSUME IInv, LaunchAgent \/ AgentEnds \/ Join \/ Retry \/ GiveUp \/ Close
    PROVE  IInv'
<1>0. 0 \in Threads /\ 0 \notin Attempts /\ Threads = {0} \cup Attempts
  BY McpAssumption DEF Threads, Attempts
<1> USE DEF invocation, supervision, bridge
<1>1. CASE AgentEnds
  <2>1. UNCHANGED <<server, session, inner, misses, restarts, resets, lock, at, attempt, sup, late, faults>>
        /\ main \in {"launch", "agent"} /\ main' = "join"
    BY <1>1 DEF AgentEnds
  <2>2. ControlType'
    BY <1>1 DEF AgentEnds, IInv, ControlInv, ControlType
  <2>3. LockInv' /\ PlaceInv' /\ QuietInv'
    BY <2>1 DEF IInv, ControlInv, LockInv, PlaceInv, QuietInv, Resetting
  <2>4. DataInv'
    BY <2>1, SameData DEF IInv, DataInv, DataType, Resetting
  <2> QED BY <2>1, <2>2, <2>3, <2>4 DEF IInv, ControlInv, NothingLeftBehind
<1>2. CASE Join
  <2>1. UNCHANGED <<server, session, inner, misses, restarts, resets, lock, at, attempt, sup, faults>>
        /\ main = "join" /\ main' \in {"close", "failed"}
    BY <1>2 DEF Join
  <2>2. ControlType'
    <3>1. late' \in BOOLEAN
      BY <1>2 DEF Join, IInv, ControlInv, ControlType
    <3>2. exc' \in {"none", "agent", "other", "mcp", "exhausted"}
      BY <1>2 DEF Join, IInv, ControlInv, ControlType
    <3> QED BY <1>2, <2>1, <3>1, <3>2 DEF Join, IInv, ControlInv, ControlType
  <2>3. LockInv' /\ PlaceInv'
    BY <2>1 DEF IInv, ControlInv, LockInv, PlaceInv, Resetting
  <2>4. QuietInv'
    BY <1>2, <2>1, Zenon DEF Join, IInv, ControlInv, ControlType, QuietInv
  <2>5. DataInv'
    BY <2>1, SameData DEF IInv, DataInv, DataType, Resetting
  <2> QED BY <2>1, <2>2, <2>3, <2>4, <2>5 DEF IInv, ControlInv, NothingLeftBehind
<1>3. CASE Retry
  <2>1. /\ UNCHANGED <<server, session, inner, misses, restarts, resets, lock, agent, sup, done, error, late, faults>>
        /\ main = "failed" /\ main' \in {"check", "reset"} /\ attempt <= MaxRetries
        /\ at' = [at EXCEPT ![0] = "lock"]
        /\ exc' \in {exc, "none"}
        /\ main' = "reset" => attempt' = attempt
        /\ main' = "check" => attempt' = attempt + 1
    BY <1>3 DEF Retry, NextAttempt
  <2>2. attempt' \in Attempts
    BY <2>1, McpAssumption DEF IInv, ControlInv, ControlType, Attempts
  <2>3. ControlType'
    BY <1>0, <2>1, <2>2 DEF IInv, ControlInv, ControlType
  <2>4. LockInv'
    BY <1>0, <2>1 DEF IInv, ControlInv, ControlType, LockInv, Inside
  <2>5. PlaceInv'
    BY <1>0, <2>1, McpAssumption DEF IInv, ControlInv, ControlType, PlaceInv, Resetting, Attempts
  <2>6. QuietInv'
    BY <2>1 DEF IInv, ControlInv, QuietInv
  <2>7. at[0] = "idle"
    BY <2>1 DEF IInv, ControlInv, PlaceInv
  <2>8. DataInv'
    BY <1>0, <2>1, <2>7, SameData DEF IInv, ControlInv, ControlType, DataInv, DataType, Inside, Resetting
  <2> QED BY <2>1, <2>3, <2>4, <2>5, <2>6, <2>8 DEF IInv, ControlInv, NothingLeftBehind
<1>4. CASE GiveUp
  <2>1. UNCHANGED <<bridge, attempt, exc, agent, supervision, faults>> /\ main = "failed" /\ main' = "close"
    BY <1>4 DEF GiveUp
  <2>2. ControlInv'
    BY <2>1 DEF IInv, ControlInv, ControlType, LockInv, PlaceInv, QuietInv, Resetting
  <2>3. DataInv'
    BY <2>1, SameData DEF IInv, DataInv, DataType, Resetting
  <2> QED BY <2>1, <2>2, <2>3 DEF IInv, NothingLeftBehind
<1>5. CASE Close
  <2>1. /\ UNCHANGED <<inner, misses, restarts, resets, lock, at, attempt, exc, agent, supervision>>
        /\ main = "close" /\ main' = "returned"
    BY <1>5 DEF Close
  <2>2. Down(inner)
    BY <1>5, ShutdownResult DEF Close, IInv, DataInv, DataType
  <2>3. ControlInv'
    BY <2>1 DEF IInv, ControlInv, ControlType, LockInv, PlaceInv, QuietInv, Resetting
  <2>4. DataType' /\ SessionFileOutlivesServer'
    BY <2>1, <2>2 DEF IInv, DataInv, DataType, Down
  <2>5. BudgetInv'
    BY <2>1 DEF IInv, DataInv, BudgetInv, Resetting
  <2>6. PortInv'
    BY <2>1, <2>2, Zenon DEF IInv, DataInv, DataType, PortInv, Newest, Starting, Down
  <2>7. NothingLeftBehind'
    <3>1. SUFFICES ASSUME ~late PROVE \A n \in DOMAIN server' : server'[n] \in {"dead", "stuck"}
      BY <2>1 DEF NothingLeftBehind
    <3>2. ~Starting
      BY <2>1, <3>1, CallsAreOver DEF Starting, IInv
    <3>3. \A n \in DOMAIN server' : server'[n] \notin Working
      BY <3>2, <2>2 DEF IInv, DataInv, PortInv, Down
    <3> QED BY <3>3, <2>4 DEF DataType, Working
  <2> QED BY <2>3, <2>4, <2>5, <2>6, <2>7 DEF IInv, DataInv
<1>6. CASE LaunchAgent
  <2>1. UNCHANGED <<bridge, attempt, exc, supervision, faults>> /\ main = "launch" /\ main' = "agent"
        /\ agent' = "running"
    BY <1>6 DEF LaunchAgent
  <2>2. ControlInv'
    BY <2>1 DEF IInv, ControlInv, ControlType, LockInv, PlaceInv, QuietInv, Resetting
  <2>3. DataInv'
    BY <2>1, SameData DEF IInv, DataInv, DataType, Resetting
  <2> QED BY <2>1, <2>2, <2>3 DEF IInv, NothingLeftBehind
<1> QED BY <1>1, <1>2, <1>3, <1>4, <1>5, <1>6

-----------------------------------------------------------------------------
(* The theorems.                                                           *)

LEMMA InitInv == Init => IInv
<1> SUFFICES ASSUME Init PROVE IInv
  OBVIOUS
<1> USE McpAssumption DEF Init, Threads, Attempts
<1>1. ControlType
  <2>1. MaxRetries \in Nat
    OBVIOUS
  <2>2. at \in [Threads -> {"idle", "lock"} \cup Inside] /\ 1 \in Attempts
    BY <2>1
  <2>3. done \in [Attempts -> BOOLEAN]
    OBVIOUS
  <2> QED BY <2>2, <2>3, Zenon DEF ControlType
<1>2. LockInv /\ PlaceInv /\ QuietInv
  BY DEF LockInv, PlaceInv, QuietInv, Resetting, Inside
<1>3. DataType /\ SessionFileOutlivesServer
  BY DEF DataType, SessionFileOutlivesServer
<1>4. BudgetInv /\ PortInv
  BY DEF BudgetInv, PortInv
<1> QED BY <1>1, <1>2, <1>3, <1>4 DEF IInv, ControlInv, DataInv, NothingLeftBehind

LEMMA NextInv == IInv /\ [Next]_vars => IInv'
<1> SUFFICES ASSUME IInv, [Next]_vars PROVE IInv'
  OBVIOUS
<1>1. CASE Next
  <2>1. 0 \in Threads
    BY DEF Threads
  <2> QED BY <1>1, <2>1, BridgeKeepsInv, SupervisorKeepsInv, MainKeepsInv, ServerFailsKeepsInv DEF Next, MainStep
<1>2. CASE UNCHANGED vars
  <2> USE <1>2 DEF vars, bridge, invocation, supervision
  <2>1. ControlInv'
    BY DEF IInv, ControlInv, ControlType, LockInv, PlaceInv, QuietInv, Resetting
  <2>2. DataInv'
    BY SameData DEF IInv, DataInv, DataType, Resetting
  <2> QED BY <2>1, <2>2 DEF IInv, NothingLeftBehind
<1> QED BY <1>1, <1>2

LEMMA Invariance == Spec => []IInv
  BY InitInv, NextInv, PTL DEF Spec

\* The restart and reset budgets are never exceeded, whichever threads share them, and
\* every variable keeps its type (check_health_and_restart_if_needed, reset_tool_registry).
THEOREM SupervisionTypes == Spec => []TypeOK
<1>1. IInv => TypeOK
  BY DEF IInv, ControlInv, ControlType, DataInv, DataType, TypeOK, Inside
<1> QED BY <1>1, Invariance, PTL

\* Two threads that restart or reset never have two working servers on the port.
THEOREM PortHasOneServer == Spec => []OneServerOnThePort
<1>1. IInv => OneServerOnThePort
  <2> SUFFICES ASSUME IInv, NEW n \in DOMAIN server, NEW k \in DOMAIN server,
                      server[n] \in Working, server[k] \in Working
               PROVE  n = k
    BY DEF OneServerOnThePort, Working
  <2>1. CASE Starting
    BY <2>1, OnlyNewest DEF IInv, Starting
  <2>2. CASE ~Starting
    BY <2>2 DEF IInv, DataInv, PortInv
  <2> QED BY <2>1, <2>2
<1> QED BY <1>1, Invariance, PTL

\* No order of shutdowns, failed or not, takes the session file from a server that may
\* still run (StandaloneMcpProcess.shutdown).
THEOREM SessionFileIsKept == Spec => []SessionFileOutlivesServer
<1>1. IInv => SessionFileOutlivesServer
  BY DEF IInv, DataInv
<1> QED BY <1>1, Invariance, PTL

\* An invocation whose supervisors were all joined returns without a working server,
\* although its last shutdown does not take the lock.
THEOREM InvocationCleansUp == Spec => []NothingLeftBehind
<1>1. IInv => NothingLeftBehind
  BY DEF IInv
<1> QED BY <1>1, Invariance, PTL
=============================================================================
