--------------------------- MODULE CredentialsProofs ---------------------------
(***************************************************************************)
(* For any number of processes, cycles and tokens the variables of         *)
(* Credentials keep their types.  When commands do not run side by side,   *)
(* the session is lost with an answer or by handling a stale one only, an  *)
(* endpoint that rotates every token makes none stale, and a completed     *)
(* save repairs the file.                                                  *)
(***************************************************************************)
EXTENDS Credentials, TLAPS

LEMMA Constants ==
    /\ MaxTokens \in Nat \ {0} /\ FirstCycle \in Cycles
    /\ NoConfig \in Config /\ NoConfig.token = 0 /\ Idle \in Thread
    /\ Idle.at = "idle" /\ Idle.tok = 0 /\ Idle.buf.token = 0
<1>1. AnySetting \in Settings
  BY SettingsAssumption DEF AnySetting
<1>2. MaxTokens \in Nat \ {0} /\ 0 \in 0 .. MaxTokens
  BY BoundsAssumption
<1> QED BY <1>1, <1>2, CyclesAssumption DEF NoConfig, Config, Idle, Thread, Steps

\* What the records' fields are.
LEMMA Fields ==
  ASSUME TypeOK, NEW p \in Procs, NEW k \in Cycles
  PROVE  /\ mem[p] \in Config /\ mem[p].token \in 0 .. MaxTokens
         /\ run[p] \in [Cycles -> Thread] /\ run[p][k] \in Thread
         /\ At(p, k) \in Steps /\ run[p][k].tok \in 0 .. MaxTokens
         /\ run[p][k].buf \in Config /\ run[p][k].buf.token \in 0 .. MaxTokens
         /\ run[p][k].last \in BOOLEAN
<1>1. mem[p] \in Config /\ run[p] \in [Cycles -> Thread]
  BY DEF TypeOK
<1>2. run[p][k] \in Thread
  BY <1>1
<1> QED BY <1>1, <1>2 DEF At, Thread, Config

\* GoTo, EndCycle and Save change one cycle only.
LEMMA RunChanges ==
  ASSUME TypeOK, NEW p \in Procs, NEW k \in Cycles, NEW t \in Thread,
         run' = [run EXCEPT ![p][k] = t]
  PROVE  /\ run' \in [Procs -> [Cycles -> Thread]]
         /\ \A q \in Procs, j \in Cycles :
                run'[q][j] = IF q = p /\ j = k THEN t ELSE run[q][j]
<1>1. run \in [Procs -> [Cycles -> Thread]]
  BY DEF TypeOK
<1> QED BY <1>1

LEMMA GoToChanges ==
  ASSUME TypeOK, NEW p \in Procs, NEW k \in Cycles, NEW step \in Steps, GoTo(p, k, step)
  PROVE  /\ run' \in [Procs -> [Cycles -> Thread]]
         /\ \A q \in Procs, j \in Cycles : ~(q = p /\ j = k) => run'[q][j] = run[q][j]
         /\ run'[p][k] \in Thread
         /\ run'[p][k].at = step /\ run'[p][k].tok = run[p][k].tok
         /\ run'[p][k].buf = run[p][k].buf /\ run'[p][k].last = run[p][k].last
<1> DEFINE t == [run[p][k] EXCEPT !.at = step]
<1>1. run[p][k] \in Thread
  BY Fields
<1>2. t \in Thread /\ t.at = step /\ t.tok = run[p][k].tok /\ t.buf = run[p][k].buf
      /\ t.last = run[p][k].last
  BY <1>1 DEF Thread
<1>3. run' = [run EXCEPT ![p][k] = t]
  BY DEF GoTo
<1>4. run'[p][k] = t
  BY <1>2, <1>3, RunChanges
<1> QED BY <1>2, <1>3, <1>4, RunChanges

\* A cycle at work is the first one, or the daemon's; so is every other one then.
LEMMA OthersIdle ==
  ASSUME TypeOK, NEW p \in Procs, NEW k \in Cycles,
         At(p, k) # "idle" \/ k = FirstCycle, NEW j \in Cycles, j # k, At(p, j) # "idle"
  PROVE  cmd[p] = "run"
BY DEF TypeOK

EndsWell(p, k) ==
    /\ run' \in [Procs -> [Cycles -> Thread]] /\ cmd' \in [Procs -> Commands]
    /\ mem' \in [Procs -> Config]
    /\ run'[p][k] = Idle
    /\ \A q \in Procs, j \in Cycles : ~(q = p /\ j = k) => run'[q][j] = run[q][j]
    /\ \A q \in Procs \ {p} : cmd'[q] = cmd[q] /\ mem'[q] = mem[q]
    /\ cmd[p] \in {"first", "run"} => cmd'[p] = "run" /\ mem'[p] = mem[p]
    /\ cmd[p] \notin {"first", "run"} => cmd'[p] = "none" /\ mem'[p] = NoConfig

LEMMA EndChanges ==
  ASSUME TypeOK, NEW p \in Procs, NEW k \in Cycles, EndCycle(p, k), Forget(p)
  PROVE  EndsWell(p, k)
<1>1. run' \in [Procs -> [Cycles -> Thread]] /\ run'[p][k] = Idle
      /\ \A q \in Procs, j \in Cycles : ~(q = p /\ j = k) => run'[q][j] = run[q][j]
  <2>1. run' = [run EXCEPT ![p][k] = Idle]
    BY DEF EndCycle
  <2> QED BY <2>1, RunChanges, Constants
<1>2. cmd \in [Procs -> Commands] /\ mem \in [Procs -> Config]
  BY DEF TypeOK
<1>3. cmd' = [cmd EXCEPT ![p] = IF cmd[p] \in {"first", "run"} THEN "run" ELSE "none"]
  BY DEF EndCycle
<1>4. cmd' \in [Procs -> Commands]
      /\ cmd'[p] = (IF cmd[p] \in {"first", "run"} THEN "run" ELSE "none")
      /\ \A q \in Procs \ {p} : cmd'[q] = cmd[q]
  BY <1>2, <1>3 DEF Commands
<1>5. mem' = IF cmd'[p] = "none" THEN [mem EXCEPT ![p] = NoConfig] ELSE mem
  BY DEF Forget
<1>6. mem' \in [Procs -> Config] /\ (\A q \in Procs \ {p} : mem'[q] = mem[q])
      /\ mem'[p] = IF cmd'[p] = "none" THEN NoConfig ELSE mem[p]
  BY <1>2, <1>5, Constants
<1> QED BY <1>1, <1>4, <1>6 DEF EndsWell

LEMMA SaveChanges ==
  ASSUME TypeOK, NEW p \in Procs, NEW k \in Cycles, NEW new \in Config, NEW end \in BOOLEAN,
         Save(p, k, new, end)
  PROVE  /\ run' \in [Procs -> [Cycles -> Thread]] /\ mem' \in [Procs -> Config]
         /\ mem'[p] = new /\ \A q \in Procs \ {p} : mem'[q] = mem[q]
         /\ run'[p][k] = [at |-> "open", tok |-> 0, buf |-> new, last |-> end]
         /\ \A q \in Procs, j \in Cycles : ~(q = p /\ j = k) => run'[q][j] = run[q][j]
<1> DEFINE t == [at |-> "open", tok |-> 0, buf |-> new, last |-> end]
<1>1. t \in Thread
  BY Constants DEF Thread, Steps
<1>2. run' = [run EXCEPT ![p][k] = t]
  BY DEF Save
<1>3. run' \in [Procs -> [Cycles -> Thread]] /\ run'[p][k] = t
      /\ \A q \in Procs, j \in Cycles : ~(q = p /\ j = k) => run'[q][j] = run[q][j]
  BY <1>1, <1>2, RunChanges
<1>4. mem' \in [Procs -> Config] /\ mem'[p] = new /\ \A q \in Procs \ {p} : mem'[q] = mem[q]
  BY DEF TypeOK, Save
<1> QED BY <1>3, <1>4

\* So do the steps before and after the endpoint's answer.
LEMMA TokenChanges ==
  ASSUME TypeOK, NEW p \in Procs, NEW k \in Cycles, NEW step \in Steps,
         NEW t \in 0 .. MaxTokens,
         GoWith(p, k, step, t)
  PROVE  /\ run' \in [Procs -> [Cycles -> Thread]]
         /\ \A q \in Procs, j \in Cycles : ~(q = p /\ j = k) => run'[q][j] = run[q][j]
         /\ run'[p][k].at = step /\ run'[p][k].tok = t
         /\ run'[p][k].buf = run[p][k].buf /\ run'[p][k].last = run[p][k].last
<1> DEFINE new == [run[p][k] EXCEPT !.at = step, !.tok = t]
<1>1. new \in Thread /\ new.at = step /\ new.tok = t /\ new.buf = run[p][k].buf
      /\ new.last = run[p][k].last
  BY Fields DEF Thread
<1>2. run' = [run EXCEPT ![p][k] = new]
  BY DEF GoWith
<1>3. run'[p][k] = new
  BY <1>1, <1>2, RunChanges
<1> QED BY <1>1, <1>2, <1>3, RunChanges

\* A process without a command has nothing under way, and only a daemon has cycles
\* beside the first.
CommandsInv ==
    /\ \A p \in Procs : cmd[p] = "none" => Resting(p) /\ mem[p] = NoConfig
    /\ \A p \in Procs, k \in Cycles : cmd[p] # "run" /\ k # FirstCycle => At(p, k) = "idle"

\* What a step of one cycle has to do to keep the threads in order.
LEMMA StepInOrder ==
  ASSUME TypeOK, ThreadsInv, NEW p \in Procs, NEW k \in Cycles,
         At(p, k) # "idle" \/ k = FirstCycle \/ cmd[p] = "run",
         run' \in [Procs -> [Cycles -> Thread]], issued' \in Nat, issued <= issued',
         \A q \in Procs \ {p} : cmd'[q] = cmd[q] /\ mem'[q] = mem[q],
         \A q \in Procs, j \in Cycles : ~(q = p /\ j = k) => run'[q][j] = run[q][j],
         cmd[p] = "run" => cmd'[p] = "run",
         cmd'[p] # "run" => k = FirstCycle \/ run'[p][k].at = "idle",
         cmd'[p] = "none" => mem'[p] = NoConfig /\ run'[p][k].at = "idle",
         mem'[p].token \in 0 .. issued', run'[p][k].buf.token \in 0 .. issued',
         run'[p][k].tok \in 0 .. issued',
         run'[p][k].at = "grant" => cmd'[p] = "login",
         run'[p][k].at = "revoke" => cmd'[p] = "logout"
  PROVE  ThreadsInv' /\ CommandsInv'
<1>1. ASSUME NEW q \in Procs, NEW j \in Cycles
      PROVE  /\ mem'[q].token <= issued'
             /\ cmd'[q] # "run" /\ j # FirstCycle => run'[q][j].at = "idle"
             /\ run'[q][j].at = "grant" => cmd'[q] = "login"
             /\ run'[q][j].at = "revoke" => cmd'[q] = "logout"
             /\ run'[q][j].buf.token <= issued' /\ run'[q][j].tok <= issued'
             /\ cmd'[q] = "none" => run'[q][j].at = "idle"
  <2>1. issued \in Nat
    BY Constants DEF TypeOK
  <2>2. mem[q].token \in Nat /\ mem[q].token <= issued /\ run[q][j].buf.token \in Nat
        /\ run[q][j].buf.token <= issued /\ run[q][j].tok \in Nat /\ run[q][j].tok <= issued
    BY Fields, Constants DEF ThreadsInv
  <2>3. /\ cmd[q] # "run" /\ j # FirstCycle => run[q][j].at = "idle"
        /\ run[q][j].at = "grant" => cmd[q] = "login"
        /\ run[q][j].at = "revoke" => cmd[q] = "logout"
        /\ cmd[q] = "none" => run[q][j].at = "idle"
    BY DEF ThreadsInv, TypeOK, Resting, At
  <2>4. CASE q # p
    BY <2>1, <2>2, <2>3, <2>4
  <2>5. CASE q = p /\ j = k
    BY <2>5
  <2>6. CASE q = p /\ j # k
    <3>1. run'[p][j] = run[p][j]
      BY <2>6
    <3>2. run[p][j].at # "idle" => cmd[p] = "run"
      BY <2>6, OthersIdle DEF At
    <3> QED BY <2>1, <2>2, <2>3, <2>6, <3>1, <3>2
  <2> QED BY <2>4, <2>5, <2>6
<1>2. \A q \in Procs : cmd'[q] = "none" => mem'[q] = NoConfig
  BY DEF TypeOK
<1>3. FirstCycle \in Cycles
  BY Constants
<1> QED BY <1>1, <1>2, <1>3 DEF ThreadsInv, CommandsInv, Resting, At

\* What TypeOK says of the variables one by one.
LEMMA Types ==
  ASSUME TypeOK
  PROVE  /\ file \in Config /\ file.token \in 0 .. MaxTokens
         /\ readable \in BOOLEAN /\ behind \in BOOLEAN /\ clashed \in BOOLEAN
         /\ cmd \in [Procs -> Commands] /\ mem \in [Procs -> Config]
         /\ issued \in 0 .. MaxTokens /\ issued \in Nat /\ MaxTokens \in Nat
         /\ valid \subseteq 1 .. issued
BY Constants DEF TypeOK, Config

\* The parts of TypeOK that only some steps touch.
Counters == edits \in 0 .. MaxEdits /\ losses \in 0 .. MaxLosses /\ faults \in 0 .. MaxFaults

LEMMA CountersKept == ASSUME TypeOK, Fault \/ Loss \/ UNCHANGED boundVars PROVE Counters'
BY BoundsAssumption DEF TypeOK, Counters, Fault, Loss, boundVars

\* A cycle that ends, leaves the threads in order.
LEMMA EndInOrder ==
  ASSUME TypeOK, ThreadsInv, NEW p \in Procs, NEW k \in Cycles, At(p, k) # "idle",
         EndCycle(p, k), Forget(p), issued' \in Nat, issued <= issued'
  PROVE  /\ run' \in [Procs -> [Cycles -> Thread]] /\ cmd' \in [Procs -> Commands]
         /\ mem' \in [Procs -> Config] /\ ThreadsInv'
         /\ CommandsInv'
<1>1. EndsWell(p, k)
  BY EndChanges
<1>2. mem[p].token \in 0 .. issued /\ issued \in Nat
  BY Fields, Types DEF ThreadsInv
<1>3. mem'[p].token \in 0 .. issued' /\ run'[p][k].buf.token \in 0 .. issued'
      /\ run'[p][k].tok \in 0 .. issued'
  BY <1>1, <1>2, Constants DEF EndsWell
<1>4. ThreadsInv' /\ CommandsInv'
  BY <1>1, <1>3, StepInOrder, Constants DEF EndsWell
<1> QED BY <1>1, <1>4 DEF EndsWell

\* So does one that goes on to another request of its command.
LEMMA GoToInOrder ==
  ASSUME TypeOK, ThreadsInv, NEW p \in Procs, NEW k \in Cycles, NEW step \in Steps,
         At(p, k) # "idle" \/ cmd[p] = "run",
         GoTo(p, k, step), step \in {"refresh", "user", "write"},
         UNCHANGED <<cmd, mem, issued>>
  PROVE  /\ run' \in [Procs -> [Cycles -> Thread]] /\ ThreadsInv'
         /\ CommandsInv'
<1>1. /\ run' \in [Procs -> [Cycles -> Thread]]
      /\ \A q \in Procs, j \in Cycles : ~(q = p /\ j = k) => run'[q][j] = run[q][j]
      /\ run'[p][k].at = step /\ run'[p][k].tok = run[p][k].tok
      /\ run'[p][k].buf = run[p][k].buf
  BY GoToChanges
<1>2. mem[p].token \in 0 .. issued /\ run[p][k].buf.token \in 0 .. issued /\ issued \in Nat
      /\ run[p][k].tok \in 0 .. issued
  BY Fields, Types DEF ThreadsInv
<1>3. cmd[p] # "none" /\ (cmd[p] # "run" => k = FirstCycle)
  BY DEF TypeOK, Resting
<1> QED BY <1>1, <1>2, <1>3, StepInOrder, Constants

\* And one that saves.
LEMMA SaveInOrder ==
  ASSUME TypeOK, ThreadsInv, NEW p \in Procs, NEW k \in Cycles, NEW new \in Config,
         NEW end \in BOOLEAN, At(p, k) # "idle", Save(p, k, new, end), cmd' = cmd,
         issued' \in Nat, issued <= issued', new.token \in 0 .. issued'
  PROVE  /\ run' \in [Procs -> [Cycles -> Thread]] /\ mem' \in [Procs -> Config]
         /\ ThreadsInv'
         /\ CommandsInv'
<1>1. /\ run' \in [Procs -> [Cycles -> Thread]] /\ mem' \in [Procs -> Config]
      /\ mem'[p] = new /\ \A q \in Procs \ {p} : mem'[q] = mem[q]
      /\ run'[p][k] = [at |-> "open", tok |-> 0, buf |-> new, last |-> end]
      /\ \A q \in Procs, j \in Cycles : ~(q = p /\ j = k) => run'[q][j] = run[q][j]
  BY SaveChanges
<1>2. cmd[p] # "none" /\ (cmd[p] # "run" => k = FirstCycle)
  BY DEF TypeOK, Resting
<1> QED BY <1>1, <1>2, StepInOrder

\* A save is over.
LEMMA AfterSaveInOrder ==
  ASSUME TypeOK, ThreadsInv, NEW p \in Procs, NEW k \in Cycles, At(p, k) \in {"open", "write"},
         AfterSave(p, k), issued' = issued
  PROVE  /\ run' \in [Procs -> [Cycles -> Thread]] /\ cmd' \in [Procs -> Commands]
         /\ mem' \in [Procs -> Config] /\ ThreadsInv'
         /\ CommandsInv'
<1>1. issued \in Nat /\ cmd \in [Procs -> Commands] /\ mem \in [Procs -> Config]
  BY Types
<1>2. CASE run[p][k].last
  BY <1>1, <1>2, EndInOrder DEF AfterSave
<1>3. CASE ~run[p][k].last
  <2>1. "user" \in Steps
    BY DEF Steps
  <2> QED BY <1>1, <1>3, <2>1, GoToInOrder DEF AfterSave
<1> QED BY <1>2, <1>3

\* The rest of the two invariants, given what a step has done to the threads.
InOrder ==
    /\ run \in [Procs -> [Cycles -> Thread]] /\ cmd \in [Procs -> Commands]
    /\ mem \in [Procs -> Config] /\ ThreadsInv /\ CommandsInv

FileInOrder ==
    /\ file \in Config
    /\ readable \in BOOLEAN /\ behind \in BOOLEAN /\ clashed \in BOOLEAN
    /\ file.token <= issued /\ issued \in 0 .. MaxTokens /\ valid \subseteq 1 .. issued

LEMMA Together == InOrder /\ FileInOrder /\ Counters <=> TypeOK /\ TokensInv
BY DEF InOrder, FileInOrder, CommandsInv, Counters, TypeOK, TokensInv

LEMMA CommandStep ==
  ASSUME TypeOK, TokensInv, NEW p \in Procs, Invoke(p) \/ Stop(p) \/ Kill(p)
  PROVE  InOrder' /\ FileInOrder'
<1>1. FileInOrder'
  BY Types DEF TokensInv, FileInOrder, Invoke, Stop, Kill, fileVars, tokenVars
<1>2. issued' = issued /\ issued \in Nat
  BY Types DEF Invoke, Stop, Kill, tokenVars
<1>3. CASE Invoke(p)
  <2>1. PICK c \in {"login", "apply", "first", "logout"} :
            /\ cmd' = [cmd EXCEPT ![p] = c]
            /\ run' = [run EXCEPT ![p][FirstCycle].at = FirstStep(c)]
            /\ \E s \in (IF c \in {"apply", "first"} THEN Settings ELSE {file.set}) :
                mem' = [mem EXCEPT ![p] = [file EXCEPT !.set = s]]
    BY <1>3 DEF Invoke
  <2>2. PICK s \in Settings : mem' = [mem EXCEPT ![p] = [file EXCEPT !.set = s]]
    BY <2>1, Types DEF Config
  <2>3. [file EXCEPT !.set = s] \in Config /\ [file EXCEPT !.set = s].token = file.token
    BY Types DEF Config
  <2>4. mem' \in [Procs -> Config] /\ mem'[p].token = file.token
        /\ \A q \in Procs \ {p} : mem'[q] = mem[q]
    BY <2>2, <2>3, Types
  <2>5. cmd' \in [Procs -> Commands] /\ cmd'[p] = c /\ \A q \in Procs \ {p} : cmd'[q] = cmd[q]
    BY <2>1, Types DEF Commands
  <2>6. FirstStep(c) \in Steps /\ FirstStep(c) # "idle"
        /\ (FirstStep(c) = "grant" => c = "login") /\ (FirstStep(c) = "revoke" => c = "logout")
    BY <2>1 DEF FirstStep, Steps
  <2>7. FirstCycle \in Cycles /\ cmd[p] = "none"
    BY <1>3, Constants DEF Invoke
  <2>8. run[p][FirstCycle].at = "idle"
    BY <2>7 DEF TypeOK, Resting, At
  <2>9. run[p][FirstCycle].tok \in 0 .. issued /\ run[p][FirstCycle].buf.token \in 0 .. issued
    BY <1>2, <2>7, <2>8, Fields DEF TokensInv, ThreadsInv, At
  <2>9a. GoTo(p, FirstCycle, FirstStep(c))
    BY <2>1 DEF GoTo
  <2>10. /\ run' \in [Procs -> [Cycles -> Thread]]
         /\ \A q \in Procs, j \in Cycles : ~(q = p /\ j = FirstCycle) => run'[q][j] = run[q][j]
         /\ run'[p][FirstCycle].at = FirstStep(c)
         /\ run'[p][FirstCycle].tok = run[p][FirstCycle].tok
         /\ run'[p][FirstCycle].buf = run[p][FirstCycle].buf
    BY <2>6, <2>7, <2>9, <2>9a, GoToChanges
  <2>11. file.token \in 0 .. issued
    BY <1>2, Types DEF TokensInv
  <2>12. ThreadsInv' /\ CommandsInv'
    BY <1>2, <2>4, <2>5, <2>6, <2>7, <2>9, <2>10, <2>11, StepInOrder DEF TokensInv
  <2> QED BY <1>1, <2>4, <2>5, <2>10, <2>12 DEF InOrder
<1>4. CASE Stop(p) \/ Kill(p)
  <2>1. EndProcess(p)
    BY <1>4 DEF Stop, Kill
  <2>2. cmd' \in [Procs -> Commands] /\ cmd'[p] = "none" /\ \A q \in Procs \ {p} : cmd'[q] = cmd[q]
    BY <2>1, Types DEF EndProcess, Commands
  <2>3. mem' \in [Procs -> Config] /\ mem'[p] = NoConfig /\ \A q \in Procs \ {p} : mem'[q] = mem[q]
    BY <2>1, Types, Constants DEF EndProcess
  <2>4. run' \in [Procs -> [Cycles -> Thread]] /\ (\A j \in Cycles : run'[p][j] = Idle)
        /\ \A q \in Procs \ {p} : run'[q] = run[q]
    BY <2>1, Constants DEF EndProcess, TypeOK
  <2>5. ThreadsInv'
    <3> SUFFICES ASSUME NEW q \in Procs
                 PROVE  /\ mem'[q].token <= issued'
                        /\ \A j \in Cycles :
                            /\ run'[q][j].at = "grant" => cmd'[q] = "login"
                            /\ run'[q][j].at = "revoke" => cmd'[q] = "logout"
                            /\ run'[q][j].buf.token <= issued' /\ run'[q][j].tok <= issued'
      BY DEF ThreadsInv, At
    <3>1. CASE q = p
      BY <1>2, <2>2, <2>3, <2>4, <3>1, Constants
    <3>2. CASE q # p
      BY <1>2, <2>2, <2>3, <2>4, <3>2 DEF TokensInv, ThreadsInv, At
    <3> QED BY <3>1, <3>2
  <2>6. ASSUME NEW q \in Procs, cmd'[q] = "none"
        PROVE  Resting(q)' /\ mem'[q] = NoConfig
    <3>1. CASE q = p
      BY <2>3, <2>4, <3>1, Constants DEF Resting, At
    <3>2. CASE q # p
      <4>1. Resting(q) /\ mem[q] = NoConfig
        BY <2>2, <2>6, <3>2 DEF TypeOK
      <4> QED BY <2>3, <2>4, <3>2, <4>1 DEF Resting, At
    <3> QED BY <3>1, <3>2
  <2>7. ASSUME NEW q \in Procs, NEW j \in Cycles, cmd'[q] # "run", j # FirstCycle
        PROVE  run'[q][j].at = "idle"
    <3>1. CASE q = p
      BY <2>4, <3>1, Constants
    <3>2. CASE q # p
      <4>1. cmd[q] # "run"
        BY <2>2, <2>7, <3>2
      <4>2. run[q][j].at = "idle"
        BY <2>7, <4>1 DEF TypeOK, At
      <4> QED BY <2>4, <3>2, <4>2
    <3> QED BY <3>1, <3>2
  <2>8. CommandsInv'
    BY <2>6, <2>7 DEF CommandsInv, At
  <2> QED BY <1>1, <2>2, <2>3, <2>4, <2>5, <2>8 DEF InOrder
<1> QED BY <1>3, <1>4, <1>1

LEMMA TokenStep ==
  ASSUME TypeOK, TokensInv, UNCHANGED tokenVars
  PROVE  issued' = issued /\ issued' \in Nat /\ issued' \in 0 .. MaxTokens /\ valid' = valid
BY Types DEF tokenVars

LEMMA RotateStep ==
  ASSUME TypeOK, NEW t, Rotate(t) \/ (issued < MaxTokens /\ issued' = issued + 1
                                      /\ valid' = valid \cup {issued'})
  PROVE  /\ issued' \in Nat /\ issued <= issued' /\ issued' \in 0 .. MaxTokens
         /\ issued' = issued + 1 /\ valid' \subseteq 1 .. issued'
BY Types DEF Rotate

LEMMA CycleOrder ==
  ASSUME TypeOK, TokensInv, NEW p \in Procs, NEW k \in Cycles, CycleStep(p, k)
  PROVE  InOrder' /\ FileInOrder'
<1> USE DEF TokensInv
<1>1. FirstCycle \in Cycles /\ mem[p].token \in 0 .. issued /\ mem[p] \in Config
      /\ run[p][k].tok \in 0 .. MaxTokens /\ issued \in Nat /\ MaxTokens \in Nat
      /\ run[p][k].buf \in Config
  BY Constants, Fields, Types DEF ThreadsInv
<1>2. FileInOrder
  BY Types DEF FileInOrder
<1>3. ASSUME UNCHANGED <<fileVars, tokenVars>>
      PROVE  FileInOrder'
  BY <1>2, <1>3 DEF FileInOrder, fileVars, tokenVars
<1>4. ASSUME EndCycle(p, k), Forget(p), At(p, k) # "idle", issued' \in Nat, issued <= issued'
      PROVE  InOrder'
  BY <1>4, EndInOrder DEF InOrder
<1>5. ASSUME NEW new \in Config, NEW end \in BOOLEAN, Save(p, k, new, end), At(p, k) # "idle",
             cmd' = cmd, UNCHANGED fileVars, new.token \in 0 .. issued',
             issued' \in 0 .. MaxTokens, issued <= issued', valid' \subseteq 1 .. issued'
      PROVE  InOrder' /\ FileInOrder'
  <2>1. issued' \in Nat
    BY <1>1, <1>5
  <2>2. InOrder'
    BY <1>5, <2>1, SaveInOrder, Types DEF InOrder
  <2> QED BY <1>1, <1>2, <1>5, <2>1, <2>2, Types DEF FileInOrder, fileVars
<1>6. ASSUME NEW step \in {"refresh", "user", "write"}, GoTo(p, k, step),
             At(p, k) # "idle" \/ cmd[p] = "run",
             UNCHANGED <<cmd, mem>>, issued' = issued
      PROVE  InOrder'
  <2>1. step \in Steps
    BY DEF Steps
  <2> QED BY <1>6, <2>1, GoToInOrder, Types DEF InOrder
<1>6a. ASSUME NEW step \in {"asked", "store", "user"}, NEW t \in 0 .. MaxTokens,
              GoWith(p, k, step, t), t <= issued',
              At(p, k) # "idle", UNCHANGED <<cmd, mem>>, issued' \in Nat, issued <= issued'
       PROVE  InOrder'
  <2>1. step \in Steps
    BY DEF Steps
  <2>2. /\ run' \in [Procs -> [Cycles -> Thread]]
        /\ \A q \in Procs, j \in Cycles : ~(q = p /\ j = k) => run'[q][j] = run[q][j]
        /\ run'[p][k].at = step /\ run'[p][k].tok = t /\ run'[p][k].buf = run[p][k].buf
    BY <1>6a, <2>1, TokenChanges
  <2>3. cmd[p] # "none" /\ (cmd[p] # "run" => k = FirstCycle)
    BY <1>6a DEF TypeOK, Resting
  <2>4. run[p][k].buf.token \in 0 .. issued
    BY <1>1, Fields DEF ThreadsInv
  <2>5. mem'[p].token \in 0 .. issued' /\ run'[p][k].buf.token \in 0 .. issued'
        /\ run'[p][k].tok \in 0 .. issued'
    BY <1>1, <1>6a, <2>2, <2>4
  <2>6. ThreadsInv' /\ CommandsInv'
    BY <1>6a, <2>2, <2>3, <2>5, StepInOrder
  <2> QED BY <1>6a, <2>2, <2>6, Types DEF InOrder
<1>7. CASE Tick(p, k)
  BY <1>3, <1>6, <1>7 DEF Tick, tokenVars
<1>8. CASE Grant(p, k)
  <2>1. PICK u \in {TRUE, mem[p].user} :
            Save(p, k, [mem[p] EXCEPT !.token = issued', !.user = u], TRUE)
    BY <1>8 DEF Grant
  <2>2. /\ issued' \in Nat /\ issued <= issued' /\ issued' \in 0 .. MaxTokens
        /\ valid' \subseteq 1 .. issued'
    BY <1>8, RotateStep DEF Grant
  <2>3. [mem[p] EXCEPT !.token = issued', !.user = u] \in Config
        /\ [mem[p] EXCEPT !.token = issued', !.user = u].token = issued'
    BY <1>1, <2>2 DEF Config
  <2>4. PICK new \in Config : Save(p, k, new, TRUE) /\ new.token = issued'
    BY <2>1, <2>3
  <2>5. At(p, k) # "idle" /\ cmd' = cmd /\ UNCHANGED fileVars
    BY <1>8 DEF Grant
  <2>6. new.token \in 0 .. issued'
    BY <2>2, <2>4
  <2> QED BY <1>5, <2>2, <2>4, <2>5, <2>6
<1>9. CASE GrantRefused(p, k) \/ LogoutNothing(p, k) \/ NoRefresh(p, k) \/ UserKnown(p, k)
           \/ EnsureUserFails(p, k)
  <2>1. EndCycle(p, k) /\ Forget(p) /\ At(p, k) # "idle" /\ UNCHANGED <<fileVars, tokenVars>>
    BY <1>9 DEF GrantRefused, LogoutNothing, NoRefresh, UserKnown, EnsureUserFails
  <2> QED BY <1>1, <1>3, <1>4, <2>1 DEF tokenVars
<1>10. CASE Revoke(p, k) \/ RevokeFails(p, k)
  <2>1. PICK new \in Config : new.token = 0 /\ Save(p, k, new, TRUE)
    <3> DEFINE cleared == [mem[p] EXCEPT !.token = 0, !.user = FALSE]
    <3>1. 0 \in 0 .. MaxTokens
      BY <1>1
    <3>2. ASSUME NEW u \in BOOLEAN
          PROVE  [mem[p] EXCEPT !.token = 0, !.user = u] \in Config
                 /\ [mem[p] EXCEPT !.token = 0, !.user = u].token = 0
      BY <1>1, <3>1 DEF Config
    <3>3. cleared \in Config /\ cleared.token = 0
      BY <3>2
    <3>4. Save(p, k, cleared, TRUE)
      BY <1>10 DEF Revoke, RevokeFails, ClearCredentials
    <3> QED BY <3>3, <3>4
  <2>2. At(p, k) # "idle" /\ cmd' = cmd /\ UNCHANGED fileVars
        /\ issued' = issued
    BY <1>10 DEF Revoke, RevokeFails, tokenVars
  <2>3. valid' \subseteq 1 .. issued'
    BY <1>10, Types DEF Revoke, RevokeFails, tokenVars
  <2>4. new.token \in 0 .. issued' /\ issued' \in 0 .. MaxTokens /\ issued <= issued'
    BY <1>1, <2>1, <2>2, Types
  <2> QED BY <1>5, <2>1, <2>2, <2>3, <2>4
<1>11. CASE Refresh(p, k)
  <2>1. At(p, k) # "idle" /\ UNCHANGED <<fileVars, cmd, mem>>
    BY <1>11 DEF Refresh
  <2>2. CASE Rotate(run[p][k].tok) /\ Answered(p, k, issued')
    <3>1. /\ issued' \in Nat /\ issued <= issued' /\ issued' \in 0 .. MaxTokens
          /\ valid' \subseteq 1 .. issued'
      BY <2>2, RotateStep
    <3>2. PICK t \in 0 .. MaxTokens : t = issued'
      BY <3>1
    <3>2a. GoWith(p, k, "store", t) /\ t <= issued'
      BY <2>2, <3>1, <3>2 DEF Answered
    <3>2b. InOrder'
      BY <1>6a, <2>1, <3>1, <3>2, <3>2a
    <3>3. FileInOrder'
      BY <1>1, <1>2, <2>1, <3>1, Types DEF FileInOrder, fileVars
    <3> QED BY <3>2b, <3>3
  <2>3. CASE UNCHANGED tokenVars /\ \E t \in {run[p][k].tok, 0} : Answered(p, k, t)
    <3>1. PICK t \in {run[p][k].tok, 0} : Answered(p, k, t)
      BY <2>3
    <3>2. issued' = issued /\ run[p][k].tok <= issued
      BY <2>3 DEF tokenVars, ThreadsInv
    <3>2a. t \in 0 .. MaxTokens /\ t <= issued' /\ issued' \in Nat /\ issued <= issued'
      BY <1>1, <3>1, <3>2
    <3>2b. GoWith(p, k, "store", t) /\ UNCHANGED <<cmd, mem>>
      BY <2>1, <3>1 DEF Answered
    <3>3. InOrder'
      BY <1>6a, <2>1, <3>2a, <3>2b
    <3> QED BY <1>3, <2>1, <2>3, <3>3
  <2> QED BY <1>11, <2>2, <2>3 DEF Refresh
<1>11a. CASE Present(p, k)
  <2>1. InOrder'
    <3>1. issued' = issued
      BY <1>11a DEF Present, tokenVars
    <3>2. PICK t \in 0 .. MaxTokens : t = mem[p].token
      BY Fields
    <3>3. t <= issued' /\ issued' \in Nat /\ issued <= issued'
      BY <1>1, <3>1, <3>2
    <3>4. GoWith(p, k, "asked", t) /\ UNCHANGED <<cmd, mem>> /\ At(p, k) # "idle"
      BY <1>11a, <3>2 DEF Present
    <3> QED BY <1>6a, <3>3, <3>4
  <2>2. FileInOrder'
    BY <1>2, <1>11a DEF Present, FileInOrder, tokenVars
  <2> QED BY <2>1, <2>2
<1>12. CASE RefreshLost(p, k)
  <2>1. /\ issued' \in Nat /\ issued <= issued' /\ issued' \in 0 .. MaxTokens
        /\ valid' \subseteq 1 .. issued'
    BY <1>12, RotateStep DEF RefreshLost
  <2>2. InOrder'
    BY <1>4, <1>12, <2>1 DEF RefreshLost
  <2> QED BY <1>1, <1>2, <1>12, <2>1, <2>2, Types DEF RefreshLost, FileInOrder
<1>13. CASE Store(p, k)
  <2>1. CASE Differs(p, k)
    <3> DEFINE new == [mem[p] EXCEPT !.token = run[p][k].tok]
    <3>1. new \in Config /\ new.token = run[p][k].tok
      BY <1>1 DEF Config
    <3>2. PICK c \in Config : c.token = run[p][k].tok /\ Save(p, k, c, FALSE)
      BY <1>13, <2>1, <3>1 DEF Store
    <3>3. At(p, k) # "idle" /\ cmd' = cmd /\ UNCHANGED fileVars
          /\ issued' = issued /\ valid' = valid
      BY <1>13 DEF Store, tokenVars
    <3>4. c.token \in 0 .. issued' /\ issued' \in 0 .. MaxTokens /\ issued <= issued'
          /\ valid' \subseteq 1 .. issued'
      BY <1>1, <3>2, <3>3, Types DEF ThreadsInv
    <3> QED BY <1>5, <3>2, <3>3, <3>4
  <2>2. CASE ~Differs(p, k)
    <3>1. /\ GoWith(p, k, "user", 0)
          /\ UNCHANGED <<cmd, mem, fileVars, tokenVars>> /\ At(p, k) # "idle"
      BY <1>13, <2>2 DEF Store
    <3>2. 0 \in 0 .. MaxTokens /\ 0 <= issued' /\ issued' = issued
      BY <1>1, <3>1 DEF tokenVars
    <3>3. InOrder'
      BY <1>1, <1>6a, <3>1, <3>2
    <3> QED BY <1>3, <3>1, <3>3
  <2> QED BY <2>1, <2>2
<1>14. CASE EnsureUser(p, k)
  <2> DEFINE new == [mem[p] EXCEPT !.user = TRUE]
  <2>1. new \in Config /\ new.token = mem[p].token
    BY <1>1 DEF Config
  <2>2. PICK c \in Config : c.token = mem[p].token /\ Save(p, k, c, TRUE)
    BY <1>14, <2>1 DEF EnsureUser
  <2>3. At(p, k) # "idle" /\ cmd' = cmd /\ UNCHANGED fileVars
        /\ issued' = issued /\ valid' = valid
    BY <1>14 DEF EnsureUser, tokenVars
  <2>4. c.token \in 0 .. issued' /\ issued' \in 0 .. MaxTokens /\ issued <= issued'
        /\ valid' \subseteq 1 .. issued'
    BY <1>1, <2>2, <2>3, Types
  <2> QED BY <1>5, <2>2, <2>3, <2>4
<1>15. CASE OpenFile(p, k)
  <2>2. InOrder'
    BY <1>6, <1>15 DEF OpenFile, tokenVars
  <2> QED BY <1>2, <1>15, <2>2 DEF OpenFile, FileInOrder, tokenVars
<1>16. CASE OpenFails(p, k) \/ WriteFile(p, k) \/ WriteFails(p, k)
  <2>1. AfterSave(p, k) /\ At(p, k) \in {"open", "write"} /\ UNCHANGED tokenVars
    BY <1>16 DEF OpenFails, WriteFile, WriteFails, Writing
  <2>2. InOrder'
    BY <2>1, AfterSaveInOrder DEF InOrder, tokenVars
  <2>3. run[p][k].buf.token <= issued
    BY DEF ThreadsInv
  <2>4. FileInOrder'
    BY <1>1, <1>2, <1>16, <2>1, <2>3
    DEF OpenFails, WriteFile, WriteFails, FileInOrder, fileVars, tokenVars
  <2> QED BY <2>2, <2>4
<1> QED BY <1>7, <1>8, <1>9, <1>10, <1>11, <1>11a, <1>12, <1>13, <1>14, <1>15,
           <1>16 DEF CycleStep

LEMMA OutsideStep ==
  ASSUME TypeOK, TokensInv, EditFile \/ RemoveFile \/ UNCHANGED vars
  PROVE  InOrder' /\ FileInOrder'
<1>1. UNCHANGED <<run, cmd, mem, issued, valid, clashed>>
  BY DEF EditFile, RemoveFile, vars, fileVars, tokenVars
<1>2. InOrder'
  BY <1>1 DEF TypeOK, TokensInv, ThreadsInv, CommandsInv, InOrder, Resting, At
<1>3. file' \in Config /\ file'.token <= issued
  <2>1. CASE EditFile
    <3>1. PICK s \in Settings : file' = [file EXCEPT !.set = s]
      BY <2>1 DEF EditFile
    <3> QED BY <3>1, Types DEF Config, TokensInv
  <2>2. CASE RemoveFile
    BY <2>2, Constants, Types DEF RemoveFile
  <2>3. CASE UNCHANGED vars
    BY <2>3, Types DEF TokensInv, vars, fileVars
  <2> QED BY <2>1, <2>2, <2>3
<1>4. readable' \in BOOLEAN /\ behind' \in BOOLEAN
  BY Types DEF EditFile, RemoveFile, vars, fileVars
<1> QED BY <1>1, <1>2, <1>3, <1>4, Types DEF FileInOrder

LEMMA BoundSteps ==
  ASSUME TypeOK, [Next]_vars
  PROVE  Counters'
<1>1. CASE EditFile
  BY <1>1, BoundsAssumption DEF EditFile, TypeOK, Counters
<1>2. ASSUME NEW p \in Procs, Invoke(p) \/ Stop(p) \/ Kill(p)
      PROVE  Fault \/ Loss \/ UNCHANGED boundVars
  BY <1>2 DEF Invoke, Stop, Kill
<1>3. ASSUME NEW p \in Procs, NEW k \in Cycles, CycleStep(p, k)
      PROVE  Fault \/ Loss \/ UNCHANGED boundVars
  BY <1>3 DEF CycleStep, Tick, Grant, GrantRefused, LogoutNothing, Revoke, RevokeFails, Present,
              Refresh, NoRefresh, RefreshLost, Store, UserKnown, EnsureUser, EnsureUserFails, OpenFile,
              OpenFails, WriteFile, WriteFails
<1>4. CASE RemoveFile \/ UNCHANGED vars
  BY <1>4, CountersKept DEF RemoveFile, vars
<1> QED BY <1>1, <1>2, <1>3, <1>4, CountersKept DEF Next

LEMMA CredInit == Init => TypeOK /\ TokensInv
<1> SUFFICES ASSUME Init PROVE TypeOK /\ TokensInv
  OBVIOUS
<1>1. file \in Config /\ file.token <= issued /\ issued \in 0 .. MaxTokens
      /\ valid \subseteq 1 .. issued
  <2>1. 0 \in 0 .. MaxTokens /\ 1 \in 0 .. MaxTokens
    BY Constants
  <2>2. CASE \E t \in Settings : file = [token |-> 0, user |-> FALSE, set |-> t]
                                /\ issued = 0 /\ valid = {}
    BY <2>1, <2>2 DEF Config
  <2>3. CASE \E t \in Settings, u \in BOOLEAN :
                file = [token |-> 1, user |-> u, set |-> t] /\ issued = 1 /\ valid = {1}
    BY <2>1, <2>3 DEF Config
  <2> QED BY <2>2, <2>3 DEF Init
<1>2. Counters
  BY BoundsAssumption DEF Init, Counters
<1>3. /\ run \in [Procs -> [Cycles -> Thread]] /\ cmd \in [Procs -> Commands]
      /\ mem \in [Procs -> Config]
      /\ \A p \in Procs : mem[p] = NoConfig /\ \A k \in Cycles : run[p][k] = Idle
  BY Constants DEF Init, Commands
<1>4. InOrder
  BY <1>1, <1>3, Constants DEF InOrder, ThreadsInv, CommandsInv, Resting, At
<1>5. FileInOrder
  BY <1>1 DEF Init, FileInOrder
<1> QED BY <1>2, <1>4, <1>5, Together

LEMMA CredStep == TypeOK /\ TokensInv /\ [Next]_vars => (TypeOK /\ TokensInv)'
<1> SUFFICES ASSUME TypeOK, TokensInv, [Next]_vars PROVE (TypeOK /\ TokensInv)'
  OBVIOUS
<1>1. InOrder' /\ FileInOrder'
  BY CommandStep, CycleOrder, OutsideStep DEF Next
<1>2. Counters'
  BY BoundSteps
<1>3. (InOrder /\ FileInOrder /\ Counters <=> TypeOK /\ TokensInv)'
  BY Together, PTL
<1> QED BY <1>1, <1>2, <1>3

\* The variables keep their types, whatever the processes do and however many
\* there are: no token is used before it is issued, and a process without a
\* command (main.go) has nothing under way.
THEOREM CredentialsTyped == Spec => []TypeOK
<1>1. Spec => [](TypeOK /\ TokensInv)
  BY CredInit, CredStep, PTL DEF Spec
<1> QED BY <1>1, PTL

-------------------------------------------------------------------------------
(* A daemon by itself.  IInv: what the steps of one process keep.              *)

-------------------------------------------------------------------------------
(* What the steps of a cycle do to the tokens of its process.                  *)

OthersStay(p, k) == \A j \in Cycles \ {k} : run'[p][j] = run[p][j]

\* The cycle is over, and with it the process unless it is a daemon.
Ended(p, k) ==
    /\ OthersStay(p, k)
    /\ run'[p][k].at = "idle" /\ run'[p][k].tok = 0
    /\ mem'[p].token \in {mem[p].token, 0}
    /\ cmd'[p] \in {"run", "none"}
    /\ cmd'[p] = "run" => mem'[p].token = mem[p].token

\* The cycle goes on with the token it carries, or with another.
Moved(p, k, step, t) ==
    /\ OthersStay(p, k)
    /\ run'[p][k].at = step /\ run'[p][k].tok = t
    /\ run'[p][k].buf = run[p][k].buf /\ run'[p][k].last = run[p][k].last
    /\ mem'[p].token = mem[p].token

\* The copy holds token t, and so do the bytes to be saved.
Saved(p, k, t, end) ==
    /\ OthersStay(p, k)
    /\ run'[p][k].at = "open" /\ run'[p][k].tok = 0
    /\ run'[p][k].buf.token = t /\ run'[p][k].last = end
    /\ mem'[p].token = t

LEMMA EndEffect ==
  ASSUME TypeOK, NEW p \in Procs, NEW k \in Cycles, EndCycle(p, k), Forget(p)
  PROVE  Ended(p, k)
<1>1. EndsWell(p, k)
  BY EndChanges
<1>2. mem[p].token = mem[p].token /\ NoConfig.token = 0
  BY Constants
<1> QED BY <1>1, <1>2, Constants DEF EndsWell, Ended, OthersStay

LEMMA GoToEffect ==
  ASSUME TypeOK, NEW p \in Procs, NEW k \in Cycles, NEW step \in Steps, GoTo(p, k, step),
         UNCHANGED mem
  PROVE  Moved(p, k, step, run[p][k].tok)
BY GoToChanges DEF Moved, OthersStay

LEMMA GoWithEffect ==
  ASSUME TypeOK, NEW p \in Procs, NEW k \in Cycles, NEW step \in Steps,
         NEW t \in 0 .. MaxTokens, GoWith(p, k, step, t), UNCHANGED mem
  PROVE  Moved(p, k, step, t)
BY TokenChanges DEF Moved, OthersStay

LEMMA SaveEffect ==
  ASSUME TypeOK, NEW p \in Procs, NEW k \in Cycles, NEW new \in Config, NEW end \in BOOLEAN,
         Save(p, k, new, end)
  PROVE  Saved(p, k, new.token, end)
<1>1. /\ mem'[p] = new
      /\ run'[p][k] = [at |-> "open", tok |-> 0, buf |-> new, last |-> end]
      /\ \A q \in Procs, j \in Cycles : ~(q = p /\ j = k) => run'[q][j] = run[q][j]
  BY SaveChanges
<1>2. OthersStay(p, k)
  BY <1>1 DEF OthersStay
<1> QED BY <1>1, <1>2 DEF Saved

LEMMA GrantSaves ==
  ASSUME TypeOK, NEW p \in Procs, NEW k \in Cycles, Grant(p, k)
  PROVE  Saved(p, k, issued', TRUE) /\ issued' = issued + 1 /\ valid' = valid \cup {issued'}
<1>1. PICK u \in {TRUE, mem[p].user} :
          Save(p, k, [mem[p] EXCEPT !.token = issued', !.user = u], TRUE)
  BY DEF Grant
<1>2. issued' \in 0 .. MaxTokens /\ issued' = issued + 1 /\ valid' = valid \cup {issued'}
  BY RotateStep DEF Grant
<1>3. [mem[p] EXCEPT !.token = issued', !.user = u] \in Config
      /\ [mem[p] EXCEPT !.token = issued', !.user = u].token = issued'
  BY <1>2, Fields DEF Config
<1>4. PICK new \in Config : Save(p, k, new, TRUE) /\ new.token = issued'
  BY <1>1, <1>3
<1>5. Saved(p, k, new.token, TRUE)
  BY <1>4, SaveEffect
<1> QED BY <1>2, <1>4, <1>5 DEF Saved

LEMMA RevokeSaves ==
  ASSUME TypeOK, NEW p \in Procs, NEW k \in Cycles, Revoke(p, k) \/ RevokeFails(p, k)
  PROVE  Saved(p, k, 0, TRUE) /\ issued' = issued /\ valid \ {mem[p].token} \subseteq valid'
<1> DEFINE cleared == [mem[p] EXCEPT !.token = 0, !.user = FALSE]
<1>1. 0 \in 0 .. MaxTokens
  BY Constants
<1>2. cleared \in Config /\ cleared.token = 0
  BY <1>1, Fields DEF Config
<1>3. Save(p, k, cleared, TRUE)
  BY DEF Revoke, RevokeFails, ClearCredentials
<1>4. PICK new \in Config : Save(p, k, new, TRUE) /\ new.token = 0
  BY <1>2, <1>3
<1>5. Saved(p, k, new.token, TRUE)
  BY <1>4, SaveEffect
<1>6. issued' = issued /\ valid \ {mem[p].token} \subseteq valid'
  BY DEF Revoke, RevokeFails, tokenVars
<1> QED BY <1>4, <1>5, <1>6

LEMMA UserSaves ==
  ASSUME TypeOK, NEW p \in Procs, NEW k \in Cycles, EnsureUser(p, k)
  PROVE  Saved(p, k, mem[p].token, TRUE)
<1> DEFINE known == [mem[p] EXCEPT !.user = TRUE]
<1>1. known \in Config /\ known.token = mem[p].token
  BY Fields DEF Config
<1>2. PICK new \in Config : Save(p, k, new, TRUE) /\ new.token = mem[p].token
  BY <1>1 DEF EnsureUser
<1>3. Saved(p, k, new.token, TRUE)
  BY <1>2, SaveEffect
<1> QED BY <1>2, <1>3

LEMMA StoreEffect ==
  ASSUME TypeOK, NEW p \in Procs, NEW k \in Cycles, Store(p, k)
  PROVE  /\ Differs(p, k) => Saved(p, k, run[p][k].tok, FALSE)
         /\ ~Differs(p, k) => Moved(p, k, "user", 0)
<1>1. CASE Differs(p, k)
  <2> DEFINE c == [mem[p] EXCEPT !.token = run[p][k].tok]
  <2>1. c \in Config /\ c.token = run[p][k].tok
    BY Fields DEF Config
  <2>2. PICK new \in Config : Save(p, k, new, FALSE) /\ new.token = run[p][k].tok
    BY <1>1, <2>1 DEF Store
  <2>3. Saved(p, k, new.token, FALSE)
    BY <2>2, SaveEffect
  <2> QED BY <1>1, <2>2, <2>3
<1>2. CASE ~Differs(p, k)
  <2>1. GoWith(p, k, "user", 0) /\ UNCHANGED mem
    BY <1>2 DEF Store
  <2>2. "user" \in Steps /\ 0 \in 0 .. MaxTokens
    BY Constants DEF Steps
  <2> QED BY <1>2, <2>1, <2>2, GoWithEffect
<1> QED BY <1>1, <1>2

LEMMA PresentEffect ==
  ASSUME TypeOK, NEW p \in Procs, NEW k \in Cycles, Present(p, k)
  PROVE  Moved(p, k, "asked", mem[p].token)
<1>1. PICK t \in 0 .. MaxTokens : t = mem[p].token
  BY Fields
<1>2. GoWith(p, k, "asked", t) /\ UNCHANGED mem /\ "asked" \in Steps
  BY <1>1 DEF Present, Steps
<1> QED BY <1>1, <1>2, GoWithEffect

\* The three answers.
Rotated(p, k) ==
    /\ Moved(p, k, "store", issued') /\ issued' = issued + 1
    /\ valid' = (valid \ {run[p][k].tok}) \cup {issued'}

Unrotated(p, k) ==
    /\ valid' = valid /\ issued' = issued
    /\ \/ "same" \in Answers /\ Moved(p, k, "store", run[p][k].tok)
       \/ Moved(p, k, "store", 0)

LEMMA RefreshEffect ==
  ASSUME TypeOK, NEW p \in Procs, NEW k \in Cycles, Refresh(p, k)
  PROVE  Rotated(p, k) \/ Unrotated(p, k)
<1>1. UNCHANGED mem /\ "store" \in Steps /\ 0 \in 0 .. MaxTokens
  BY Constants DEF Refresh, Steps
<1>2. CASE Rotate(run[p][k].tok) /\ Answered(p, k, issued')
  <2>1. PICK t \in 0 .. MaxTokens : t = issued'
    BY <1>2, RotateStep
  <2>2. Moved(p, k, "store", t)
    BY <1>1, <1>2, <2>1, GoWithEffect DEF Answered
  <2> QED BY <1>2, <2>1, <2>2 DEF Rotated, Rotate
<1>3. CASE "same" \in Answers /\ Answered(p, k, run[p][k].tok) /\ UNCHANGED tokenVars
  <2>1. PICK t \in 0 .. MaxTokens : t = run[p][k].tok
    BY Fields
  <2>2. Moved(p, k, "store", t)
    BY <1>1, <1>3, <2>1, GoWithEffect DEF Answered
  <2> QED BY <1>3, <2>1, <2>2 DEF Unrotated, tokenVars
<1>4. CASE Answered(p, k, 0) /\ UNCHANGED tokenVars
  <2>1. Moved(p, k, "store", 0)
    BY <1>1, <1>4, GoWithEffect DEF Answered
  <2> QED BY <1>4, <2>1 DEF Unrotated, tokenVars
<1> QED BY <1>2, <1>3, <1>4 DEF Refresh

LEMMA AfterSaveEffect ==
  ASSUME TypeOK, NEW p \in Procs, NEW k \in Cycles, AfterSave(p, k)
  PROVE  \/ run[p][k].last /\ Ended(p, k)
         \/ ~run[p][k].last /\ Moved(p, k, "user", run[p][k].tok)
<1>1. "user" \in Steps
  BY DEF Steps
<1>2. CASE run[p][k].last
  BY <1>2, EndEffect DEF AfterSave
<1>3. CASE ~run[p][k].last
  BY <1>1, <1>3, GoToEffect DEF AfterSave
<1> QED BY <1>2, <1>3

\* The steps that end a cycle without having changed a token.
Leave(p, k) ==
    GrantRefused(p, k) \/ LogoutNothing(p, k) \/ NoRefresh(p, k) \/ UserKnown(p, k)
    \/ EnsureUserFails(p, k)

LEMMA LeaveEffect ==
  ASSUME TypeOK, NEW p \in Procs, NEW k \in Cycles, Leave(p, k)
  PROVE  /\ Ended(p, k) /\ UNCHANGED <<file, readable, behind, clashed, valid, issued>>
         /\ At(p, k) \in {"grant", "revoke", "refresh", "asked", "user"}
<1>1. EndCycle(p, k) /\ Forget(p) /\ UNCHANGED <<fileVars, tokenVars>>
      /\ At(p, k) \in {"grant", "revoke", "refresh", "asked", "user"}
  BY DEF Leave, GrantRefused, LogoutNothing, NoRefresh, UserKnown, EnsureUserFails
<1>2. Ended(p, k)
  BY <1>1, EndEffect
<1> QED BY <1>1, <1>2 DEF fileVars, tokenVars

LEMMA TickEffect ==
  ASSUME TypeOK, NEW p \in Procs, NEW k \in Cycles, Tick(p, k)
  PROVE  Moved(p, k, "refresh", run[p][k].tok)
<1>1. "refresh" \in Steps
  BY DEF Steps
<1> QED BY <1>1, GoToEffect DEF Tick

LEMMA OpenEffect ==
  ASSUME TypeOK, NEW p \in Procs, NEW k \in Cycles, OpenFile(p, k)
  PROVE  Moved(p, k, "write", run[p][k].tok)
<1>1. "write" \in Steps
  BY DEF Steps
<1> QED BY <1>1, GoToEffect DEF OpenFile

LEMMA LostEffect ==
  ASSUME TypeOK, NEW p \in Procs, NEW k \in Cycles, RefreshLost(p, k)
  PROVE  /\ Ended(p, k) /\ behind' = TRUE /\ issued' = issued + 1 /\ losses' = losses + 1
         /\ valid' = (valid \ {run[p][k].tok}) \cup {issued'}
BY EndEffect DEF RefreshLost, Rotate, Loss

-------------------------------------------------------------------------------
(* A daemon by itself keeps its session.                                       *)

\* A step that leaves the tokens alone, and whose cycle has no answer to lose.
LEMMA LiveKept ==
  ASSUME NEW p, NEW k \in Cycles, Live(p), valid' = valid, mem'[p].token = mem[p].token,
         OthersStay(p, k), At(p, k) = "store" /\ run[p][k].tok \in valid => mem[p].token \in valid
  PROVE  Live(p)'
<1>1. CASE mem[p].token \in valid
  BY <1>1 DEF Live
<1>2. CASE mem[p].token \notin valid
  <2>1. PICK j \in Cycles : At(p, j) = "store" /\ run[p][j].tok \in valid
    BY <1>2 DEF Live
  <2>2. j # k
    BY <1>2, <2>1
  <2>3. run'[p][j] = run[p][j]
    BY <2>2 DEF OthersStay
  <2> QED BY <2>1, <2>3 DEF Live, At
<1> QED BY <1>1, <1>2

LEMMA LiveAfter ==
  ASSUME TypeOK, TokensInv, NEW p \in Procs, NEW k \in Cycles, CycleStep(p, k),
         cmd[p] = "run", cmd'[p] = "run", Live(p), losses' = losses,
         \A j \in Cycles : Stale(p, j) => At(p, j)' = "store"
  PROVE  Live(p)'
<1>1. At(p, k) \notin {"grant", "revoke"} /\ losses \in Nat /\ 0 \notin valid
  <2>1. losses \in 0 .. MaxLosses /\ MaxLosses \in Nat
    BY BoundsAssumption DEF TypeOK
  <2>2. valid \subseteq 1 .. issued /\ issued \in Nat
    BY Types
  <2> QED BY <2>1, <2>2 DEF TokensInv, ThreadsInv
<1>2. CASE Leave(p, k)
  <2>1. Ended(p, k) /\ valid' = valid /\ At(p, k) # "store"
    BY <1>2, LeaveEffect
  <2> QED BY <2>1, LiveKept DEF Ended
<1>3. CASE Tick(p, k) \/ OpenFile(p, k)
  <2>1. OthersStay(p, k) /\ mem'[p].token = mem[p].token
    BY <1>3, TickEffect, OpenEffect DEF Moved
  <2>2. valid' = valid /\ At(p, k) # "store"
    BY <1>3 DEF Tick, OpenFile, tokenVars
  <2> QED BY <2>1, <2>2, LiveKept
<1>4. CASE Present(p, k)
  <2>1. OthersStay(p, k) /\ mem'[p].token = mem[p].token
    BY <1>4, PresentEffect DEF Moved
  <2>2. valid' = valid /\ At(p, k) # "store"
    BY <1>4 DEF Present, tokenVars
  <2> QED BY <2>1, <2>2, LiveKept
<1>5. CASE Refresh(p, k)
  <2>1. CASE Rotated(p, k)
    <3>1. run'[p][k].at = "store" /\ run'[p][k].tok \in valid'
      BY <2>1 DEF Rotated, Moved
    <3> QED BY <3>1 DEF Live, At
  <2>2. CASE Unrotated(p, k)
    <3>1. valid' = valid /\ OthersStay(p, k) /\ mem'[p].token = mem[p].token
      BY <2>2 DEF Unrotated, Moved
    <3>2. At(p, k) # "store"
      BY <1>5 DEF Refresh
    <3> QED BY <3>1, <3>2, LiveKept
  <2> QED BY <1>5, <2>1, <2>2, RefreshEffect
<1>6. CASE RefreshLost(p, k)
  <2>1. losses' = losses + 1
    BY <1>6, LostEffect
  <2>2. losses' # losses
    BY <1>1, <2>1
  <2> QED BY <2>2
<1>7. CASE Store(p, k)
  <2>1. valid' = valid
    BY <1>7 DEF Store, tokenVars
  <2>2. CASE Differs(p, k)
    <3>1. Saved(p, k, run[p][k].tok, FALSE)
      BY <1>7, <2>2, StoreEffect
    <3>2. ~Stale(p, k)
      BY <3>1 DEF Saved, At
    <3>3. mem'[p].token \in valid'
      BY <2>1, <2>2, <3>1, <3>2 DEF Stale, Saved
    <3> QED BY <3>3 DEF Live
  <2>3. CASE ~Differs(p, k)
    <3>1. Moved(p, k, "user", 0)
      BY <1>7, <2>3, StoreEffect
    <3>2. run[p][k].tok \in {0, mem[p].token}
      BY <1>7, <2>3 DEF Store, Differs
    <3>3. run[p][k].tok \in valid => mem[p].token \in valid
      BY <1>1, <3>2
    <3> QED BY <2>1, <3>1, <3>3, LiveKept DEF Moved
  <2> QED BY <2>2, <2>3
<1>8. CASE EnsureUser(p, k)
  <2>1. Saved(p, k, mem[p].token, TRUE)
    BY <1>8, UserSaves
  <2>2. valid' = valid /\ At(p, k) # "store"
    BY <1>8 DEF EnsureUser, tokenVars
  <2> QED BY <2>1, <2>2, LiveKept DEF Saved
<1>9. CASE OpenFails(p, k) \/ WriteFile(p, k) \/ WriteFails(p, k)
  <2>1. AfterSave(p, k) /\ valid' = valid /\ At(p, k) # "store"
    BY <1>9 DEF OpenFails, WriteFile, WriteFails, Writing, tokenVars
  <2>2. OthersStay(p, k) /\ mem'[p].token = mem[p].token
    BY <2>1, AfterSaveEffect DEF Ended, Moved
  <2> QED BY <2>1, <2>2, LiveKept
<1>10. CASE Grant(p, k) \/ Revoke(p, k) \/ RevokeFails(p, k)
  BY <1>1, <1>10 DEF Grant, Revoke, RevokeFails
<1> QED
  BY <1>2, <1>3, <1>4, <1>5, <1>6, <1>7, <1>8, <1>9, <1>10 DEF CycleStep, Leave

\* A daemon with any number of overlapping cycles keeps a token the endpoint
\* accepts, whatever its saves and requests do (authClient, main.go): only an answer
\* that gets lost or that has become stale when it is handled takes it away.
THEOREM SessionKept == OneProcess /\ Spec => KeepsSession
<1> DEFINE Kept(p) ==
      /\ cmd[p] = "run" /\ cmd'[p] = "run" /\ Live(p) /\ losses' = losses
      /\ \A k \in Cycles : Stale(p, k) => At(p, k)' = "store"
      => Live(p)'
<1>1. ASSUME OneProcess, TypeOK, TokensInv, [Next]_vars, NEW p \in Procs
      PROVE  Kept(p)
  <2> SUFFICES ASSUME cmd[p] = "run", cmd'[p] = "run", Live(p), losses' = losses,
                      \A k \in Cycles : Stale(p, k) => At(p, k)' = "store"
               PROVE  Live(p)'
    OBVIOUS
  <2>1. Procs = {p}
    BY <1>1 DEF OneProcess
  <2>2. CASE \E q \in Procs : Invoke(q) \/ Stop(q) \/ Kill(q)
    <3>1. Invoke(p) \/ Stop(p) \/ Kill(p)
      BY <2>1, <2>2
    <3>2. cmd \in [Procs -> Commands]
      BY <1>1, Types
    <3>3. EndProcess(p) => cmd'[p] = "none"
      BY <3>2 DEF EndProcess
    <3> QED BY <3>1, <3>3 DEF Invoke, Stop, Kill
  <2>3. CASE \E q \in Procs, k \in Cycles : CycleStep(q, k)
    <3>1. PICK k \in Cycles : CycleStep(p, k)
      BY <2>1, <2>3
    <3> QED BY <1>1, <3>1, LiveAfter
  <2>4. CASE EditFile \/ RemoveFile \/ UNCHANGED vars
    <3>1. UNCHANGED <<run, mem, valid>>
      BY <2>4 DEF EditFile, RemoveFile, vars, tokenVars
    <3> QED BY <3>1 DEF Live, At
  <2> QED BY <1>1, <2>2, <2>3, <2>4 DEF Next
<1>2. ASSUME OneProcess
      PROVE  TypeOK /\ TokensInv /\ [Next]_vars =>
             [\A p \in Procs :
                /\ cmd[p] = "run" /\ cmd'[p] = "run" /\ Live(p) /\ losses' = losses
                /\ \A k \in Cycles : Stale(p, k) => At(p, k)' = "store"
                => Live(p)']_vars
  BY <1>1, <1>2
<1>3. Spec => [](TypeOK /\ TokensInv)
  BY CredInit, CredStep, PTL DEF Spec
<1>4. ASSUME OneProcess
      PROVE  Spec => KeepsSession
  BY <1>2, <1>3, <1>4, PTL DEF Spec, KeepsSession
<1> QED BY <1>4

-------------------------------------------------------------------------------
(* An endpoint that rotates every token it answers makes no answer stale.      *)

LEMMA FreshKept ==
  ASSUME OneProcess, TypeOK, TokensInv, FreshInv, NEW p \in Procs, NEW k \in Cycles,
         OthersStay(p, k), NEW olds, olds = {0, mem[p].token, run[p][k].tok},
         valid \ olds \subseteq valid', issued \in Nat,
         mem'[p].token \in olds \/ mem'[p].token = issued + 1,
         run'[p][k].tok \in olds \/ run'[p][k].tok = issued + 1,
         run'[p][k].at = "store" /\ run'[p][k].tok # 0 =>
            /\ run'[p][k].tok = issued + 1 /\ issued + 1 \in valid'
            /\ mem'[p].token = mem[p].token
  PROVE  FreshInv'
<1>1. Procs = {p}
  BY DEF OneProcess
<1>2. mem[p].token \in Nat /\ mem[p].token <= issued
      /\ \A j \in Cycles : run[p][j].tok \in Nat /\ run[p][j].tok <= issued
  BY Fields, Constants DEF TokensInv, ThreadsInv
<1>3. ASSUME NEW c \in Cycles, run'[p][c].at = "store", run'[p][c].tok # 0
      PROVE  /\ run'[p][c].tok \in valid' /\ run'[p][c].tok # mem'[p].token
             /\ \A j \in Cycles \ {c} : run'[p][j].tok # run'[p][c].tok
  <2>1. CASE c = k
    <3>1. /\ run'[p][c].tok = issued + 1 /\ issued + 1 \in valid'
          /\ mem'[p].token = mem[p].token
      BY <1>3, <2>1
    <3>2. ASSUME NEW j \in Cycles \ {c}
          PROVE  run'[p][j].tok # issued + 1
      <4>1. run'[p][j] = run[p][j]
        BY <2>1 DEF OthersStay
      <4> QED BY <1>2, <4>1
    <3>3. mem[p].token # issued + 1
      BY <1>2
    <3> QED BY <3>1, <3>2, <3>3
  <2>2. CASE c # k
    <3>1. run'[p][c] = run[p][c]
      BY <2>2 DEF OthersStay
    <3>2. /\ run[p][c].tok \in valid /\ run[p][c].tok # mem[p].token
          /\ \A j \in Cycles \ {c} : run[p][j].tok # run[p][c].tok
      BY <1>3, <3>1 DEF FreshInv, At
    <3>3. run[p][c].tok \notin olds /\ run[p][c].tok # issued + 1
      BY <1>2, <1>3, <2>2, <3>1, <3>2
    <3>4. ASSUME NEW j \in Cycles \ {c}
          PROVE  run'[p][j].tok # run[p][c].tok
      <4>1. CASE j = k
        BY <3>3, <4>1
      <4>2. CASE j # k
        <5>1. run'[p][j] = run[p][j]
          BY <4>2 DEF OthersStay
        <5> QED BY <3>2, <5>1
      <4> QED BY <4>1, <4>2
    <3> QED BY <3>1, <3>2, <3>3, <3>4
  <2> QED BY <2>1, <2>2
<1> QED BY <1>1, <1>3 DEF FreshInv, At

LEMMA FreshAfter ==
  ASSUME OneProcess, "same" \notin Answers, TypeOK, TokensInv, FreshInv,
         NEW p \in Procs, NEW k \in Cycles, CycleStep(p, k)
  PROVE  FreshInv'
<1>1. issued \in Nat /\ 0 \notin valid
  <2>1. valid \subseteq 1 .. issued /\ issued \in Nat
    BY Types
  <2> QED BY <2>1
<1>2. PICK olds : olds = {0, mem[p].token, run[p][k].tok}
  OBVIOUS
<1>3. ASSUME OthersStay(p, k), valid' = valid, mem'[p].token \in olds,
             run'[p][k].tok \in olds, run'[p][k].at # "store"
      PROVE  FreshInv'
  BY <1>1, <1>2, <1>3, FreshKept
<1>4. CASE Leave(p, k)
  <2>1. Ended(p, k) /\ valid' = valid
    BY <1>4, LeaveEffect
  <2> QED BY <1>2, <1>3, <2>1 DEF Ended
<1>5. CASE Tick(p, k) \/ OpenFile(p, k)
  <2>1. \E step \in {"refresh", "write"} : Moved(p, k, step, run[p][k].tok)
    BY <1>5, TickEffect, OpenEffect
  <2>2. valid' = valid
    BY <1>5 DEF Tick, OpenFile, tokenVars
  <2> QED BY <1>2, <1>3, <2>1, <2>2 DEF Moved
<1>6. CASE Present(p, k)
  <2>1. Moved(p, k, "asked", mem[p].token) /\ valid' = valid
    BY <1>6, PresentEffect DEF Present, tokenVars
  <2> QED BY <1>2, <1>3, <2>1 DEF Moved
<1>7. CASE Refresh(p, k)
  <2>1. CASE Rotated(p, k)
    <3>1. /\ OthersStay(p, k) /\ run'[p][k].tok = issued + 1 /\ mem'[p].token = mem[p].token
          /\ valid' = (valid \ {run[p][k].tok}) \cup {issued + 1}
      BY <2>1 DEF Rotated, Moved
    <3>2. valid \ olds \subseteq valid' /\ issued + 1 \in valid'
      BY <1>2, <3>1
    <3> QED BY <1>1, <1>2, <3>1, <3>2, FreshKept
  <2>2. CASE Unrotated(p, k)
    <3>1. Moved(p, k, "store", 0) /\ valid' = valid
      BY <2>2 DEF Unrotated
    <3>2. /\ OthersStay(p, k) /\ run'[p][k].tok = 0 /\ mem'[p].token = mem[p].token
          /\ valid' = valid
      BY <3>1 DEF Moved
    <3> QED BY <1>1, <1>2, <3>2, FreshKept
  <2> QED BY <1>7, <2>1, <2>2, RefreshEffect
<1>8. CASE RefreshLost(p, k)
  <2>1. Ended(p, k) /\ valid' = (valid \ {run[p][k].tok}) \cup {issued'}
    BY <1>8, LostEffect
  <2>2. /\ OthersStay(p, k) /\ run'[p][k].tok = 0 /\ run'[p][k].at = "idle"
        /\ mem'[p].token \in olds /\ valid \ olds \subseteq valid'
    BY <1>2, <2>1 DEF Ended
  <2> QED BY <1>1, <1>2, <2>2, FreshKept
<1>9. CASE Store(p, k)
  <2>1. valid' = valid
    BY <1>9 DEF Store, tokenVars
  <2>2. CASE Differs(p, k)
    <3>1. Saved(p, k, run[p][k].tok, FALSE)
      BY <1>9, <2>2, StoreEffect
    <3> QED BY <1>2, <1>3, <2>1, <3>1 DEF Saved
  <2>3. CASE ~Differs(p, k)
    <3>1. Moved(p, k, "user", 0)
      BY <1>9, <2>3, StoreEffect
    <3> QED BY <1>2, <1>3, <2>1, <3>1 DEF Moved
  <2> QED BY <2>2, <2>3
<1>10. CASE Grant(p, k)
  <2>1. Saved(p, k, issued', TRUE) /\ issued' = issued + 1 /\ valid' = valid \cup {issued'}
    BY <1>10, GrantSaves
  <2>2. /\ OthersStay(p, k) /\ run'[p][k].tok = 0 /\ run'[p][k].at = "open"
        /\ mem'[p].token = issued + 1 /\ valid \ olds \subseteq valid'
    BY <2>1 DEF Saved
  <2> QED BY <1>1, <1>2, <2>2, FreshKept
<1>11. CASE Revoke(p, k) \/ RevokeFails(p, k)
  <2>1. Saved(p, k, 0, TRUE) /\ valid \ {mem[p].token} \subseteq valid'
    BY <1>11, RevokeSaves
  <2>2. /\ OthersStay(p, k) /\ run'[p][k].tok = 0 /\ run'[p][k].at = "open"
        /\ mem'[p].token \in olds /\ valid \ olds \subseteq valid'
    BY <1>2, <2>1 DEF Saved
  <2> QED BY <1>1, <1>2, <2>2, FreshKept
<1>12. CASE EnsureUser(p, k)
  <2>1. Saved(p, k, mem[p].token, TRUE) /\ valid' = valid
    BY <1>12, UserSaves DEF EnsureUser, tokenVars
  <2> QED BY <1>2, <1>3, <2>1 DEF Saved
<1>13. CASE OpenFails(p, k) \/ WriteFile(p, k) \/ WriteFails(p, k)
  <2>1. AfterSave(p, k) /\ valid' = valid
    BY <1>13 DEF OpenFails, WriteFile, WriteFails, tokenVars
  <2>2. Ended(p, k) \/ Moved(p, k, "user", run[p][k].tok)
    BY <2>1, AfterSaveEffect
  <2> QED BY <1>2, <1>3, <2>1, <2>2 DEF Ended, Moved
<1> QED
  BY <1>4, <1>5, <1>6, <1>7, <1>8, <1>9, <1>10, <1>11, <1>12, <1>13 DEF CycleStep, Leave

LEMMA FreshStep ==
  ASSUME OneProcess, "same" \notin Answers, TypeOK, TokensInv, FreshInv, [Next]_vars
  PROVE  FreshInv'
<1>1. CASE \E p \in Procs, k \in Cycles : CycleStep(p, k)
  BY <1>1, FreshAfter
<1>2. CASE \E p \in Procs : Invoke(p) \/ Stop(p) \/ Kill(p)
  <2>1. PICK p \in Procs : Invoke(p) \/ Stop(p) \/ Kill(p)
    BY <1>2
  <2>2. Procs = {p}
    BY <2>1 DEF OneProcess
  <2>3. ASSUME NEW j \in Cycles
        PROVE  run'[p][j].at # "store"
    <3>1. CASE Invoke(p)
      <4>1. PICK c \in {"login", "apply", "first", "logout"} :
                run' = [run EXCEPT ![p][FirstCycle].at = FirstStep(c)]
        BY <3>1 DEF Invoke
      <4>2. FirstStep(c) # "store" /\ FirstStep(c) \in Steps
        BY <4>1 DEF FirstStep, Steps
      <4>3. run[p][j].at = "idle" /\ FirstCycle \in Cycles
        BY <3>1, Constants DEF Invoke, TypeOK, Resting, At
      <4>4. GoTo(p, FirstCycle, FirstStep(c))
        BY <4>1 DEF GoTo
      <4>5. /\ run'[p][FirstCycle].at = FirstStep(c)
            /\ j # FirstCycle => run'[p][j] = run[p][j]
        BY <4>2, <4>3, <4>4, GoToChanges
      <4> QED BY <4>2, <4>3, <4>5
    <3>2. CASE Stop(p) \/ Kill(p)
      <4>1. run'[p][j] = Idle
        BY <3>2 DEF Stop, Kill, EndProcess, TypeOK
      <4> QED BY <4>1, Constants
    <3> QED BY <2>1, <3>1, <3>2
  <2> QED BY <2>2, <2>3 DEF FreshInv, At
<1>3. CASE EditFile \/ RemoveFile \/ UNCHANGED vars
  <2>1. UNCHANGED <<run, mem, valid>>
    BY <1>3 DEF EditFile, RemoveFile, vars, tokenVars
  <2> QED BY <2>1 DEF FreshInv, At
<1> QED BY <1>1, <1>2, <1>3 DEF Next

\* Against an endpoint that answers a new token or none, no cycle ever handles a
\* stale answer (authClient, main.go:268), however the daemon's cycles overlap: the
\* comparison with the shared copy is right there, and with SessionKept only a lost
\* answer ends the session.
THEOREM RotationNeverStale ==
  OneProcess /\ "same" \notin Answers /\ Spec => []NeverStale
<1>1. Init => FreshInv
  BY Constants DEF Init, FreshInv, At
<1>2. FreshInv => NeverStale
  BY DEF FreshInv, NeverStale, Stale, Differs
<1>3. ASSUME OneProcess, "same" \notin Answers
      PROVE  TypeOK /\ TokensInv /\ FreshInv /\ [Next]_vars => FreshInv'
  BY <1>3, FreshStep
<1>4. Spec => [](TypeOK /\ TokensInv)
  BY CredInit, CredStep, PTL DEF Spec
<1>5. ASSUME OneProcess, "same" \notin Answers
      PROVE  Spec => []NeverStale
  BY <1>1, <1>2, <1>3, <1>4, <1>5, PTL DEF Spec
<1> QED BY <1>5

-------------------------------------------------------------------------------
(* The file after cycles and commands that work one at a time.                 *)

\* What the file has to be when cycle k is at rest and the others are, too.
FileGood(p, k) ==
    ~behind /\ ~Saving(p, k) /\ ~Differs(p, k) => readable /\ Good(file.token)

\* A cycle that is not at work holds nothing.
LEMMA RestingSound ==
  ASSUME NEW p, NEW k, ~AtWork(p, k)
  PROVE  Sound(p, k) /\ ~Saving(p, k) /\ ~Differs(p, k)
BY DEF AtWork, Sound, Saving, Writing, Differs

LEMMA AloneFile ==
  ASSUME NEW p, NEW k \in Cycles, AloneInv(p), \A j \in Cycles \ {k} : ~AtWork(p, j)
  PROVE  Sound(p, k) /\ FileGood(p, k)
<1>1. \A j \in Cycles \ {k} : ~Saving(p, j) /\ ~Differs(p, j)
  BY RestingSound
<1> QED BY <1>1 DEF AloneInv, FileGood

LEMMA AloneTogether ==
  ASSUME NEW p, NEW k \in Cycles, Sound(p, k), FileGood(p, k),
         \A j \in Cycles \ {k} : ~AtWork(p, j)
  PROVE  AloneInv(p)
<1>1. \A j \in Cycles : Sound(p, j)
  BY RestingSound
<1>2. \A j, i \in Cycles : AtWork(p, j) /\ AtWork(p, i) => j = i
  OBVIOUS
<1> QED BY <1>1, <1>2 DEF AloneInv, FileGood

\* A step of the only cycle at work: the others stay where they are.
LEMMA AloneAgain ==
  ASSUME NEW p, NEW k \in Cycles, OthersStay(p, k), \A j \in Cycles \ {k} : ~AtWork(p, j),
         Sound(p, k)', FileGood(p, k)'
  PROVE  AloneInv(p)'
<1>1. \A j \in Cycles \ {k} : ~AtWork(p, j)'
  BY DEF OthersStay, AtWork, At
<1>2. (Sound(p, k) /\ FileGood(p, k) /\ (\A j \in Cycles \ {k} : ~AtWork(p, j))
       => AloneInv(p))'
  BY AloneTogether, PTL
<1> QED BY <1>1, <1>2

\* A step of a cycle that is not at work, before it or after.
LEMMA AloneUnmoved ==
  ASSUME NEW p, NEW k \in Cycles, AloneInv(p), OthersStay(p, k), ~AtWork(p, k), ~AtWork(p, k)',
         mem'[p].token = mem[p].token,
         UNCHANGED file, UNCHANGED readable, UNCHANGED behind, UNCHANGED valid
  PROVE  AloneInv(p)'
<1>1. \A j \in Cycles \ {k} : /\ Sound(p, j)' <=> Sound(p, j)
                              /\ AtWork(p, j)' <=> AtWork(p, j)
                              /\ Saving(p, j)' <=> Saving(p, j)
                              /\ Differs(p, j)' <=> Differs(p, j)
  BY DEF OthersStay, Sound, AtWork, Saving, Differs, Writing, Good, At
<1>2. Sound(p, k)' /\ ~Saving(p, k) /\ ~Differs(p, k)
  BY DEF AtWork, Sound, Saving, Writing, Differs, At
<1>3. \A j \in Cycles : Sound(p, j)'
  BY <1>1, <1>2 DEF AloneInv
<1>4. \A i, j \in Cycles : AtWork(p, i)' /\ AtWork(p, j)' => i = j
  BY <1>1 DEF AloneInv
<1>5. ASSUME ~behind', \A j \in Cycles : ~Saving(p, j)' /\ ~Differs(p, j)'
      PROVE  readable' /\ Good(file.token)'
  <2>1. \A j \in Cycles : ~Saving(p, j) /\ ~Differs(p, j)
    BY <1>1, <1>2, <1>5
  <2> QED BY <1>5, <2>1 DEF AloneInv, Good
<1> QED BY <1>3, <1>4, <1>5 DEF AloneInv

LEMMA AloneAfter ==
  ASSUME OneProcess, TypeOK, TokensInv, TypeOK', NEW p \in Procs, NEW k \in Cycles,
         CycleStep(p, k), AloneInv(p), ~clashed'
  PROVE  AloneInv(p)'
<1>1. mem[p].token \in Nat /\ mem[p].token <= issued /\ issued \in Nat
      /\ run[p][k].last \in BOOLEAN /\ 0 \notin valid
  <2>1. valid \subseteq 1 .. issued /\ issued \in Nat /\ MaxTokens \in Nat
    BY Types
  <2>2. mem[p].token \in 0 .. MaxTokens /\ run[p][k].last \in BOOLEAN
    BY Fields
  <2> QED BY <2>1, <2>2 DEF TokensInv, ThreadsInv
<1>2. ASSUME AtWork(p, k)
      PROVE  Sound(p, k) /\ FileGood(p, k) /\ \A j \in Cycles \ {k} : ~AtWork(p, j)
  <2>1. \A j \in Cycles \ {k} : ~AtWork(p, j)
    BY <1>2 DEF AloneInv
  <2> QED BY <2>1, AloneFile
<1>3. CASE Leave(p, k)
  <2>1. /\ Ended(p, k) /\ UNCHANGED <<file, readable, behind, clashed, valid, issued>>
        /\ At(p, k) \in {"grant", "revoke", "refresh", "asked", "user"}
    BY <1>3, LeaveEffect
  <2>2. ~Saving(p, k) /\ ~Differs(p, k) /\ ~AtWork(p, k)' /\ Sound(p, k)'
    BY <2>1 DEF Ended, AtWork, Saving, Differs, Sound, Writing, At
  <2>3. CASE AtWork(p, k)
    <3>1. FileGood(p, k)'
      BY <1>2, <2>1, <2>2, <2>3 DEF FileGood, Good
    <3> QED BY <1>2, <2>1, <2>2, <2>3, <3>1, AloneAgain DEF Ended
  <2>4. CASE ~AtWork(p, k)
    <3>1. CASE cmd'[p] = "run"
      BY <2>1, <2>2, <2>4, <3>1, AloneUnmoved DEF Ended
    <3>2. CASE cmd'[p] = "none"
      <4>1. \A j \in Cycles : ~AtWork(p, j)'
        BY <3>2 DEF TypeOK, Resting, AtWork, At
      <4>2. \A j \in Cycles \ {k} : ~AtWork(p, j)
        BY <2>1, <4>1 DEF Ended, OthersStay, AtWork, At
      <4>3. FileGood(p, k)
        BY <4>2, AloneFile
      <4>4. FileGood(p, k)'
        BY <2>1, <2>2, <4>3 DEF FileGood, Good
      <4> QED BY <2>1, <2>2, <4>2, <4>4, AloneAgain DEF Ended
    <3> QED BY <2>1, <3>1, <3>2 DEF Ended
  <2> QED BY <2>3, <2>4
<1>4. CASE Tick(p, k)
  <2>1. Moved(p, k, "refresh", run[p][k].tok)
    BY <1>4, TickEffect
  <2>2. UNCHANGED file /\ UNCHANGED readable /\ UNCHANGED behind /\ UNCHANGED valid
        /\ ~AtWork(p, k)
    BY <1>4 DEF Tick, fileVars, tokenVars, AtWork
  <2>3. ~AtWork(p, k)'
    BY <2>1 DEF Moved, AtWork, At
  <2> QED BY <2>1, <2>2, <2>3, AloneUnmoved DEF Moved
<1>5. CASE Present(p, k)
  <2>1. Moved(p, k, "asked", mem[p].token)
    BY <1>5, PresentEffect
  <2>2. (\A j \in Cycles : ~AtWork(p, j)) /\ UNCHANGED <<file, readable, behind, valid>>
    BY <1>5 DEF Present, tokenVars
  <2>3. FileGood(p, k) /\ ~Saving(p, k) /\ ~Differs(p, k)
    BY <2>2, AloneFile, RestingSound
  <2>4. Sound(p, k)'
    BY <2>1 DEF Moved, Sound, Saving, Writing, At
  <2>5. FileGood(p, k)'
    BY <2>2, <2>3 DEF FileGood, Good
  <2> QED BY <2>1, <2>2, <2>4, <2>5, AloneAgain DEF Moved
<1>6. CASE Refresh(p, k)
  <2>1. At(p, k) = "asked" /\ run[p][k].tok \in valid /\ UNCHANGED <<file, readable, behind>>
    BY <1>6 DEF Refresh, fileVars
  <2>2. AtWork(p, k) /\ ~Saving(p, k) /\ ~Differs(p, k)
    BY <2>1 DEF AtWork, Saving, Differs
  <2>3. run[p][k].tok = mem[p].token
    BY <1>2, <2>1, <2>2 DEF Sound
  <2>4. CASE Rotated(p, k)
    <3>1. /\ run'[p][k].at = "store" /\ run'[p][k].tok = issued + 1
          /\ mem'[p].token = mem[p].token /\ issued + 1 \in valid' /\ OthersStay(p, k)
      BY <2>4 DEF Rotated, Moved
    <3>2. Sound(p, k)'
      BY <1>1, <3>1 DEF Sound, Saving, Writing, Good, At
    <3>3. Differs(p, k)'
      BY <1>1, <3>1 DEF Differs, At
    <3>4. FileGood(p, k)'
      BY <3>3 DEF FileGood
    <3> QED BY <1>2, <2>2, <3>1, <3>2, <3>4, AloneAgain
  <2>5. CASE Unrotated(p, k)
    <3>1. /\ run'[p][k].at = "store" /\ run'[p][k].tok \in {mem[p].token, 0}
          /\ mem'[p].token = mem[p].token /\ valid' = valid /\ OthersStay(p, k)
      BY <2>3, <2>5 DEF Unrotated, Moved
    <3>2. Sound(p, k)'
      BY <2>1, <2>3, <3>1 DEF Sound, Saving, Writing, Good, At
    <3>3. FileGood(p, k)'
      BY <1>2, <2>1, <2>2, <3>1 DEF FileGood, Good
    <3> QED BY <1>2, <2>2, <3>1, <3>2, <3>3, AloneAgain
  <2> QED BY <1>6, <2>4, <2>5, RefreshEffect
<1>7. CASE RefreshLost(p, k)
  <2>1. Ended(p, k) /\ behind' = TRUE
    BY <1>7, LostEffect
  <2>2. AtWork(p, k)
    BY <1>7 DEF RefreshLost, AtWork
  <2>3. Sound(p, k)' /\ FileGood(p, k)'
    BY <2>1 DEF Ended, Sound, Saving, Writing, FileGood, At
  <2> QED BY <1>2, <2>1, <2>2, <2>3, AloneAgain DEF Ended
<1>8. CASE Store(p, k)
  <2>1. At(p, k) = "store" /\ valid' = valid /\ UNCHANGED <<file, readable, behind>>
    BY <1>8 DEF Store, fileVars, tokenVars
  <2>2. AtWork(p, k) /\ ~Saving(p, k)
    BY <2>1 DEF AtWork, Saving
  <2>3. Good(run[p][k].tok) /\ (run[p][k].tok = 0 => mem[p].token \in valid)
    BY <1>2, <2>1, <2>2 DEF Sound
  <2>4. CASE Differs(p, k)
    <3>1. Saved(p, k, run[p][k].tok, FALSE)
      BY <1>8, <2>4, StoreEffect
    <3>2. run[p][k].tok \in valid
      BY <2>3, <2>4 DEF Differs, Good
    <3>3. Sound(p, k)' /\ FileGood(p, k)'
      BY <2>1, <3>1, <3>2 DEF Saved, Sound, Saving, Writing, FileGood, Good, At
    <3> QED BY <1>2, <2>2, <3>1, <3>3, AloneAgain DEF Saved
  <2>5. CASE ~Differs(p, k)
    <3>1. Moved(p, k, "user", 0)
      BY <1>8, <2>5, StoreEffect
    <3>2. mem[p].token \in valid
      BY <2>1, <2>3, <2>5 DEF Differs, Good
    <3>3. Sound(p, k)'
      BY <2>1, <3>1, <3>2 DEF Moved, Sound, Saving, Writing, At
    <3>4. FileGood(p, k)'
      BY <1>2, <2>1, <2>2, <2>5 DEF FileGood, Good
    <3> QED BY <1>2, <2>2, <3>1, <3>3, <3>4, AloneAgain DEF Moved
  <2> QED BY <2>4, <2>5
<1>9. ASSUME NEW t, NEW end, Saved(p, k, t, end), Good(t)', ~end => t \in valid', AtWork(p, k)
      PROVE  AloneInv(p)'
  <2>1. Sound(p, k)' /\ FileGood(p, k)'
    BY <1>9 DEF Saved, Sound, Saving, Writing, FileGood, Good, At
  <2> QED BY <1>2, <1>9, <2>1, AloneAgain DEF Saved
<1>10. CASE Grant(p, k)
  <2>1. Saved(p, k, issued', TRUE) /\ issued' \in valid'
    BY <1>10, GrantSaves
  <2>2. PICK t : t = issued'
    OBVIOUS
  <2>3. Saved(p, k, t, TRUE) /\ Good(t)' /\ AtWork(p, k)
    BY <1>10, <2>1, <2>2 DEF Good, Grant, AtWork
  <2> QED BY <1>9, <2>3
<1>11. CASE Revoke(p, k) \/ RevokeFails(p, k)
  <2>1. Saved(p, k, 0, TRUE) /\ AtWork(p, k) /\ Good(0)'
    BY <1>11, RevokeSaves DEF Revoke, RevokeFails, AtWork, Good
  <2> QED BY <1>9, <2>1
<1>12. CASE EnsureUser(p, k)
  <2>1. Saved(p, k, mem[p].token, TRUE) /\ AtWork(p, k) /\ At(p, k) = "user" /\ valid' = valid
    BY <1>12, UserSaves DEF EnsureUser, AtWork, tokenVars
  <2>2. mem[p].token \in valid
    BY <1>2, <2>1 DEF Sound
  <2>3. PICK t : t = mem[p].token
    OBVIOUS
  <2>4. Saved(p, k, t, TRUE) /\ Good(t)'
    BY <2>1, <2>2, <2>3 DEF Good
  <2> QED BY <1>9, <2>1, <2>4
<1>13. CASE OpenFile(p, k)
  <2>1. Moved(p, k, "write", run[p][k].tok) /\ readable' = FALSE /\ valid' = valid
        /\ At(p, k) = "open"
    BY <1>13, OpenEffect DEF OpenFile, tokenVars
  <2>2. AtWork(p, k) /\ Saving(p, k)
    BY <2>1 DEF AtWork, Saving
  <2>3. Sound(p, k)'
    BY <1>2, <2>1, <2>2 DEF Moved, Sound, Saving, Writing, Good, At
  <2>4. FileGood(p, k)'
    BY <2>1 DEF Moved, FileGood, Saving, At
  <2> QED BY <1>2, <2>1, <2>2, <2>3, <2>4, AloneAgain DEF Moved
<1>14. CASE OpenFails(p, k) \/ WriteFile(p, k) \/ WriteFails(p, k)
  <2>1. AfterSave(p, k) /\ valid' = valid /\ Saving(p, k) /\ AtWork(p, k)
    BY <1>14 DEF OpenFails, WriteFile, WriteFails, Writing, Saving, AtWork, tokenVars
  <2>2. /\ run[p][k].buf.token = mem[p].token /\ Good(mem[p].token)
        /\ ~run[p][k].last => mem[p].token \in valid
    BY <1>2, <2>1 DEF Sound
  <2>3. /\ OthersStay(p, k)
        /\ \/ run'[p][k].at = "idle"
           \/ run'[p][k].at = "user" /\ mem'[p].token \in valid
    BY <2>1, <2>2, AfterSaveEffect DEF Ended, Moved
  <2>4. Sound(p, k)'
    BY <2>1, <2>3 DEF Sound, Saving, Writing, At
  <2>5. FileGood(p, k)'
    <3>1. CASE OpenFails(p, k) \/ WriteFails(p, k)
      BY <3>1 DEF OpenFails, WriteFails, FileGood
    <3>2. CASE WriteFile(p, k)
      <4>1. file' = run[p][k].buf /\ Writing(p, k)
            /\ (readable' = TRUE \/ (readable /\ readable' = FALSE))
        BY <3>2 DEF WriteFile
      <4>2. ~readable
        BY <1>2, <2>1, <4>1 DEF Sound
      <4> QED BY <2>1, <2>2, <4>1, <4>2 DEF FileGood, Good
    <3> QED BY <1>14, <3>1, <3>2
  <2> QED BY <1>2, <2>1, <2>3, <2>4, <2>5, AloneAgain
<1> QED
  BY <1>3, <1>4, <1>5, <1>6, <1>7, <1>8, <1>10, <1>11, <1>12, <1>13, <1>14
  DEF CycleStep, Leave

\* A command that begins or ends.
LEMMA AloneCommand ==
  ASSUME TypeOK, NEW p \in Procs, Invoke(p) \/ Stop(p) \/ Kill(p), AloneInv(p)
  PROVE  AloneInv(p)'
<1>1. FirstCycle \in Cycles
  BY Constants
<1>2. CASE Invoke(p)
  <2>1. Resting(p) /\ UNCHANGED <<file, readable, behind, valid>>
    BY <1>2 DEF Invoke, TypeOK, tokenVars
  <2>2. PICK c \in {"login", "apply", "first", "logout"} :
            run' = [run EXCEPT ![p][FirstCycle].at = FirstStep(c)]
    BY <1>2 DEF Invoke
  <2>3. FirstStep(c) \in {"grant", "revoke", "refresh"} /\ FirstStep(c) \in Steps
    BY <2>2 DEF FirstStep, Steps
  <2>4. GoTo(p, FirstCycle, FirstStep(c))
    BY <2>2 DEF GoTo
  <2>5. run'[p][FirstCycle].at = FirstStep(c) /\ OthersStay(p, FirstCycle)
    BY <1>1, <2>3, <2>4, GoToChanges DEF OthersStay
  <2>6. \A j \in Cycles : ~AtWork(p, j)
    BY <2>1 DEF Resting, AtWork
  <2>7. FileGood(p, FirstCycle) /\ ~Saving(p, FirstCycle) /\ ~Differs(p, FirstCycle)
    BY <1>1, <2>6, AloneFile, RestingSound
  <2>8. Sound(p, FirstCycle)'
    BY <2>3, <2>5 DEF Sound, Saving, Writing, At
  <2>9. FileGood(p, FirstCycle)'
    BY <2>1, <2>7 DEF FileGood, Good
  <2> QED BY <1>1, <2>5, <2>6, <2>8, <2>9, AloneAgain
<1>3. CASE Stop(p) \/ Kill(p)
  <2>1. \A j \in Cycles : run'[p][j].at = "idle"
    BY <1>3, Constants DEF Stop, Kill, EndProcess, TypeOK
  <2>2. \A j \in Cycles : Sound(p, j)' /\ ~AtWork(p, j)'
    BY <2>1 DEF Sound, Saving, Writing, AtWork, At
  <2>3. ASSUME ~behind'
        PROVE  readable' /\ Good(file.token)'
    <3>1. ~behind /\ (\A j \in Cycles : ~AtWork(p, j)) /\ UNCHANGED <<file, readable, valid>>
      <4>1. CASE Stop(p)
        BY <2>3, <4>1 DEF Stop, Resting, AtWork, fileVars, tokenVars
      <4>2. CASE Kill(p)
        <5>1. behind' = (behind \/ \E j \in Cycles : AtWork(p, j))
          BY <4>2 DEF Kill
        <5>2. UNCHANGED <<file, readable, valid>>
          BY <4>2 DEF Kill, tokenVars
        <5>3. ~(behind \/ \E j \in Cycles : AtWork(p, j))
          BY <2>3, <5>1
        <5> QED BY <5>2, <5>3
      <4> QED BY <1>3, <4>1, <4>2
    <3>2. \A j \in Cycles : ~Saving(p, j) /\ ~Differs(p, j)
      BY <3>1, RestingSound
    <3> QED BY <3>1, <3>2 DEF AloneInv, Good
  <2> QED BY <2>2, <2>3 DEF AloneInv
<1> QED BY <1>2, <1>3

LEMMA AloneOutside ==
  ASSUME NEW p \in Procs, EditFile \/ RemoveFile \/ UNCHANGED vars, TypeOK, AloneInv(p)
  PROVE  AloneInv(p)'
<1>1. UNCHANGED run /\ UNCHANGED mem /\ UNCHANGED valid
  BY DEF EditFile, RemoveFile, vars, tokenVars
<1>2. \A j \in Cycles : /\ AtWork(p, j)' <=> AtWork(p, j)
                        /\ Saving(p, j)' <=> Saving(p, j)
                        /\ Differs(p, j)' <=> Differs(p, j)
  BY <1>1 DEF AtWork, Saving, Differs, At
<1>3. CASE RemoveFile
  <2>1. readable' = TRUE /\ file'.token = 0 /\ \A j \in Cycles : ~AtWork(p, j)
    BY <1>3, Constants DEF RemoveFile, Resting, AtWork
  <2>2. \A j \in Cycles : Sound(p, j)'
    BY <1>2, <2>1 DEF Sound, Saving, Writing, AtWork, At
  <2> QED BY <1>2, <2>1, <2>2 DEF AloneInv, Good
<1>4. CASE EditFile \/ UNCHANGED vars
  <2>1. file'.token = file.token /\ UNCHANGED readable /\ UNCHANGED behind
    <3>1. CASE EditFile
      <4>1. PICK s \in Settings : file' = [file EXCEPT !.set = s]
        BY <3>1 DEF EditFile
      <4>2. file'.token = file.token
        BY <4>1, Types DEF Config
      <4> QED BY <3>1, <4>2 DEF EditFile
    <3> QED BY <1>4, <3>1 DEF vars, fileVars
  <2>2. \A j \in Cycles : Sound(p, j)' <=> Sound(p, j)
    BY <1>1, <2>1 DEF Sound, Saving, Writing, Good, At
  <2>3. (readable /\ Good(file.token))' <=> readable /\ Good(file.token)
    BY <1>1, <2>1 DEF Good
  <2> QED BY <1>2, <2>1, <2>2, <2>3 DEF AloneInv
<1> QED BY <1>3, <1>4

\* Whether cycles have come in each other's way is never forgotten.
LEMMA ClashStays == ASSUME [Next]_vars, ~clashed' PROVE ~clashed
<1>1. ASSUME NEW p \in Procs, NEW k \in Cycles, CycleStep(p, k)
      PROVE  ~clashed
  <2>1. CASE Present(p, k)
    <3>1. clashed' = (clashed \/ \E j \in Cycles : AtWork(p, j))
      BY <2>1 DEF Present
    <3>2. ~(clashed \/ \E j \in Cycles : AtWork(p, j))
      BY <3>1
    <3> QED BY <3>2
  <2>2. CASE Tick(p, k) \/ Grant(p, k) \/ Revoke(p, k) \/ RevokeFails(p, k) \/ Refresh(p, k)
             \/ Store(p, k) \/ EnsureUser(p, k)
    BY <2>2 DEF Tick, Grant, Revoke, RevokeFails, Refresh, Store, EnsureUser, fileVars
  <2>3. CASE Leave(p, k)
    BY <2>3 DEF Leave, GrantRefused, LogoutNothing, NoRefresh, UserKnown, EnsureUserFails,
                fileVars
  <2>4. CASE RefreshLost(p, k) \/ OpenFile(p, k) \/ OpenFails(p, k) \/ WriteFile(p, k)
             \/ WriteFails(p, k)
    BY <2>4 DEF RefreshLost, OpenFile, OpenFails, WriteFile, WriteFails
  <2> QED BY <1>1, <2>1, <2>2, <2>3, <2>4 DEF CycleStep, Leave
<1>2. ASSUME NEW p \in Procs, Invoke(p) \/ Stop(p) \/ Kill(p)
      PROVE  ~clashed
  <2>1. CASE Invoke(p)
    <3>1. clashed' = (clashed \/ \E q \in Procs \ {p} : cmd[q] # "none")
      BY <2>1 DEF Invoke
    <3>2. ~(clashed \/ \E q \in Procs \ {p} : cmd[q] # "none")
      BY <3>1
    <3> QED BY <3>2
  <2>2. CASE Stop(p) \/ Kill(p)
    BY <2>2 DEF Stop, Kill, fileVars
  <2> QED BY <1>2, <2>1, <2>2
<1>3. CASE EditFile \/ RemoveFile \/ UNCHANGED vars
  BY <1>3 DEF EditFile, RemoveFile, vars, fileVars
<1> QED BY <1>1, <1>2, <1>3 DEF Next

LEMMA SavingStep ==
  ASSUME OneProcess, TypeOK, TokensInv, TypeOK', SavingInv, [Next]_vars
  PROVE  SavingInv'
<1> SUFFICES ASSUME ~clashed', NEW p \in Procs PROVE AloneInv(p)'
  BY DEF SavingInv
<1>1. AloneInv(p) /\ Procs = {p}
  BY ClashStays DEF SavingInv, OneProcess
<1>2. CASE \E q \in Procs, k \in Cycles : CycleStep(q, k)
  BY <1>1, <1>2, AloneAfter
<1>3. CASE \E q \in Procs : Invoke(q) \/ Stop(q) \/ Kill(q)
  BY <1>1, <1>3, AloneCommand
<1>4. CASE EditFile \/ RemoveFile \/ UNCHANGED vars
  BY <1>1, <1>4, AloneOutside
<1> QED BY <1>2, <1>3, <1>4 DEF Next

LEMMA SavingInit == Init => SavingInv
<1> SUFFICES ASSUME Init, NEW p \in Procs PROVE AloneInv(p)
  BY DEF SavingInv
<1>1. \A k \in Cycles : Sound(p, k) /\ ~AtWork(p, k)
  BY Constants DEF Init, Sound, Saving, Writing, AtWork, At
<1>2. readable /\ Good(file.token)
  BY DEF Init, Good
<1> QED BY <1>1, <1>2 DEF AloneInv

\* When commands do not run side by side and cycles do not overlap while they
\* authenticate and save (main.go, runApply), each completed config.Save makes up
\* for what failed before it: at rest the file can be read and its token is accepted
\* unless a save failed, an answer was lost or a process was killed since.
THEOREM SessionStored == OneProcess /\ Spec => []StoredUsable
<1>1. SavingInv /\ OneProcess => StoredUsable
  <2> SUFFICES ASSUME SavingInv, OneProcess, ~clashed, ~behind, \A q \in Procs : Resting(q)
               PROVE  readable /\ (file.token # 0 => file.token \in valid)
    BY DEF StoredUsable
  <2>1. PICK p \in Procs : AloneInv(p)
    BY DEF SavingInv, OneProcess
  <2>2. \A k \in Cycles : ~Saving(p, k) /\ ~Differs(p, k)
    BY RestingSound DEF Resting, AtWork
  <2> QED BY <2>1, <2>2 DEF AloneInv, Good
<1>2. ASSUME OneProcess
      PROVE  TypeOK /\ TokensInv /\ TypeOK' /\ SavingInv /\ [Next]_vars => SavingInv'
  BY <1>2, SavingStep
<1>3. Spec => [](TypeOK /\ TokensInv)
  BY CredInit, CredStep, PTL DEF Spec
<1>4. ASSUME OneProcess
      PROVE  Spec => []StoredUsable
  BY <1>1, <1>2, <1>3, <1>4, SavingInit, PTL DEF Spec
<1> QED BY <1>4
================================================================================
