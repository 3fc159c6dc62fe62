------------------------------ MODULE Credentials ------------------------------
(***************************************************************************)
(* The configuration file and the copies of it that invocations of the    *)
(* tool work on: login, apply, run and logout (main.go), the refresh token *)
(* they exchange at the token endpoint (internal/auth) and the file they   *)
(* save (internal/config).                                                 *)
(*                                                                         *)
(* A process loads the file once, when it starts, and saves its whole copy *)
(* whenever one field of it changed.  Processes run at the same time, and  *)
(* the ticks of one `run' daemon share that daemon's copy.                 *)
(*                                                                         *)
(* The token endpoint is external: it may replace a refresh token when it  *)
(* is used, and the token that was presented is dead from then on; it may  *)
(* answer the token that was presented, or none.                           *)
(***************************************************************************)
EXTENDS Integers, FiniteSets

CONSTANTS
    Procs,       \* invocations that may run at the same time
    Cycles,      \* apply cycles one daemon may have under way
    FirstCycle,  \* the cycle the command itself runs in
    Settings,    \* values of a setting that a flag overrides (--wg, say)
    Answers,     \* what the endpoint may answer: a "rotated" token, the "same", or
                 \* none ("absent")
    MaxTokens,   \* bound: refresh tokens the endpoint issues
    MaxEdits,    \* bound: changes the user makes to the file
    MaxLosses,   \* bound: processes killed at work and answers lost
    MaxFaults    \* bound: other requests and writes that fail

ASSUME CyclesAssumption == FirstCycle \in Cycles
ASSUME SettingsAssumption == Settings # {}
ASSUME AnswersAssumption == Answers \subseteq {"rotated", "same", "absent"}
ASSUME BoundsAssumption ==
    /\ MaxTokens \in Nat \ {0}
    /\ MaxEdits \in Nat /\ MaxLosses \in Nat /\ MaxFaults \in Nat

\* The fields of config.Config that commands change: the refresh token (0 for
\* none), whether the user id is known, and the setting.
Config == [token : 0 .. MaxTokens, user : BOOLEAN, set : Settings]
AnySetting == CHOOSE s \in Settings : TRUE
NoConfig == [token |-> 0, user |-> FALSE, set |-> AnySetting]

Commands == {"none", "login", "apply", "first", "run", "logout"}
Steps == {"idle", "grant", "refresh", "asked", "store", "user", "revoke", "open", "write"}

\* Where a cycle is, the token it has presented or, from "store" on, was answered
\* (0 if none), the bytes config.Save has marshalled, and whether the command ends
\* with this save.
Thread == [at : Steps, tok : 0 .. MaxTokens, buf : Config, last : BOOLEAN]
Idle == [at |-> "idle", tok |-> 0, buf |-> NoConfig, last |-> FALSE]

VARIABLES
    file,      \* the configuration file's contents, last written
    readable,  \* the file holds them: it is not truncated or garbled
    behind,    \* history: since the file was last written, a save failed, an
               \* answer was lost or a process was killed in the midst of a cycle
    clashed,   \* history: a cycle presented a token, or a command began, while
               \* another was at work
    cmd,       \* the command each process runs; "first": run's first cycle
    mem,       \* each process's copy of the configuration
    run,       \* each process's cycles
    valid,     \* refresh tokens the endpoint accepts
    issued,    \* how many tokens the endpoint has issued
    edits, losses, faults  \* how much of each bound is used

fileVars == <<file, readable, behind, clashed>>
tokenVars == <<valid, issued>>
boundVars == <<edits, losses, faults>>
vars == <<fileVars, cmd, mem, run, tokenVars, boundVars>>

\* Before the first login, or after one.
Init ==
    /\ \E s \in Settings :
        \/ file = [token |-> 0, user |-> FALSE, set |-> s] /\ issued = 0 /\ valid = {}
        \/ \E u \in BOOLEAN :
            file = [token |-> 1, user |-> u, set |-> s] /\ issued = 1 /\ valid = {1}
    /\ readable = TRUE
    /\ behind = FALSE /\ clashed = FALSE
    /\ cmd = [p \in Procs |-> "none"]
    /\ mem = [p \in Procs |-> NoConfig]
    /\ run = [p \in Procs |-> [k \in Cycles |-> Idle]]
    /\ edits = 0 /\ losses = 0 /\ faults = 0

At(p, k) == run[p][k].at
Resting(p) == \A k \in Cycles : At(p, k) = "idle"
Writing(p, k) == At(p, k) = "write"

Fault == faults < MaxFaults /\ faults' = faults + 1 /\ UNCHANGED <<edits, losses>>
Loss == losses < MaxLosses /\ losses' = losses + 1 /\ UNCHANGED <<edits, faults>>

GoTo(p, k, step) == run' = [run EXCEPT ![p][k].at = step]
GoWith(p, k, step, t) == run' = [run EXCEPT ![p][k] = [@ EXCEPT !.at = step, !.tok = t]]

\* A cycle is over.  The first one of a daemon makes way for the schedule; for
\* the other commands it was the whole process.
EndCycle(p, k) ==
    /\ run' = [run EXCEPT ![p][k] = Idle]
    /\ cmd' = [cmd EXCEPT ![p] = IF @ \in {"first", "run"} THEN "run" ELSE "none"]

Forget(p) == mem' = IF cmd'[p] = "none" THEN [mem EXCEPT ![p] = NoConfig] ELSE mem

Saving(p, k) == At(p, k) \in {"open", "write"}

\* The cycle has taken its token, or is past that: what it does from here on may
\* get in the way of another's.
AtWork(p, k) == At(p, k) \notin {"idle", "refresh"}

\* The definitions that say "mistake" stand for plausible bugs; mutation runs put
\* them in the place of the definition that follows them.

\* Mistake: the file gets the copy as it was before the change.
SaveStale(p, k, new, end) ==
    /\ mem' = [mem EXCEPT ![p] = new]
    /\ run' = [run EXCEPT ![p][k] = [at |-> "open", tok |-> 0, buf |-> mem[p], last |-> end]]

\* A process changes its copy and hands the whole of it to config.Save.
Save(p, k, new, end) ==
    /\ mem' = [mem EXCEPT ![p] = new]
    /\ run' = [run EXCEPT ![p][k] = [at |-> "open", tok |-> 0, buf |-> new, last |-> end]]

\* What follows a save, whether it worked or not: runApply only warns.
AfterSave(p, k) ==
    IF run[p][k].last THEN EndCycle(p, k) /\ Forget(p)
    ELSE GoTo(p, k, "user") /\ UNCHANGED <<cmd, mem>>

------------------------------------------------------------------------------
(* Commands.                                                               *)

FirstStep(c) ==
    CASE c = "login" -> "grant"
      [] c = "logout" -> "revoke"
      [] c \in {"apply", "first"} -> "refresh"

\* A command starts: config.Load, then the flags.  It refuses to start on a
\* file it cannot parse.  Only apply and run take the flag of the setting.
Invoke(p) ==
    /\ cmd[p] = "none"
    /\ readable
    /\ clashed' = (clashed \/ \E q \in Procs \ {p} : cmd[q] # "none")
    /\ \E c \in {"login", "apply", "first", "logout"} :
        /\ cmd' = [cmd EXCEPT ![p] = c]
        /\ run' = [run EXCEPT ![p][FirstCycle].at = FirstStep(c)]
        /\ \E s \in (IF c \in {"apply", "first"} THEN Settings ELSE {file.set}) :
            mem' = [mem EXCEPT ![p] = [file EXCEPT !.set = s]]
    /\ UNCHANGED <<file, readable, behind, tokenVars, boundVars>>

\* Mistake: the scheduler runs before the first cycle is over.
TickEarly(p, k) ==
    /\ cmd[p] \in {"first", "run"}
    /\ At(p, k) = "idle"
    /\ GoTo(p, k, "refresh")
    /\ UNCHANGED <<fileVars, cmd, mem, tokenVars, boundVars>>

\* The schedule starts a cycle, although others may still be under way.
Tick(p, k) ==
    /\ cmd[p] = "run"
    /\ At(p, k) = "idle"
    /\ GoTo(p, k, "refresh")
    /\ UNCHANGED <<fileVars, cmd, mem, tokenVars, boundVars>>

\* login: the user approves, the endpoint issues a token.  GetUserID may fail;
\* login then leaves the id as it was.
Grant(p, k) ==
    /\ At(p, k) = "grant"
    /\ issued < MaxTokens
    /\ issued' = issued + 1
    /\ valid' = valid \cup {issued'}
    /\ \E u \in {TRUE, mem[p].user} :
        Save(p, k, [mem[p] EXCEPT !.token = issued', !.user = u], TRUE)
    /\ UNCHANGED <<fileVars, cmd, boundVars>>

\* login: the device code expires or is refused.
GrantRefused(p, k) ==
    /\ At(p, k) = "grant"
    /\ EndCycle(p, k)
    /\ Forget(p)
    /\ UNCHANGED <<fileVars, tokenVars, boundVars>>

\* logout without a token has nothing to do.
LogoutNothing(p, k) ==
    /\ At(p, k) = "revoke"
    /\ mem[p].token = 0
    /\ EndCycle(p, k)
    /\ Forget(p)
    /\ UNCHANGED <<fileVars, tokenVars, boundVars>>

ClearCredentials(p, k) == Save(p, k, [mem[p] EXCEPT !.token = 0, !.user = FALSE], TRUE)

Revoke(p, k) ==
    /\ At(p, k) = "revoke"
    /\ mem[p].token # 0
    /\ valid' = valid \ {mem[p].token}
    /\ ClearCredentials(p, k)
    /\ UNCHANGED <<fileVars, cmd, issued, boundVars>>

\* logout goes on without the endpoint.
RevokeFails(p, k) ==
    /\ At(p, k) = "revoke"
    /\ mem[p].token # 0
    /\ Fault
    /\ ClearCredentials(p, k)
    /\ UNCHANGED <<fileVars, cmd, tokenVars>>

------------------------------------------------------------------------------
(* The authentication of an apply cycle.                                   *)

\* The endpoint accepts a token and answers a new one in its place.
Rotate(t) ==
    /\ issued < MaxTokens
    /\ issued' = issued + 1
    /\ valid' = (valid \ {t}) \cup {issued'}

\* The cycle takes the token of the copy for its request.
Present(p, k) ==
    /\ At(p, k) = "refresh"
    /\ mem[p].token # 0
    /\ GoWith(p, k, "asked", mem[p].token)
    /\ clashed' = (clashed \/ \E j \in Cycles : AtWork(p, j))
    /\ UNCHANGED <<file, readable, behind, cmd, mem, tokenVars, boundVars>>

Answered(p, k, t) == GoWith(p, k, "store", t)

\* The endpoint takes the token and answers.  Its answer is handled in a step of
\* its own.
Refresh(p, k) ==
    /\ At(p, k) = "asked"
    /\ run[p][k].tok \in valid
    /\ \/ "rotated" \in Answers /\ Rotate(run[p][k].tok) /\ Answered(p, k, issued')
       \/ "same" \in Answers /\ Answered(p, k, run[p][k].tok) /\ UNCHANGED tokenVars
       \/ "absent" \in Answers /\ Answered(p, k, 0) /\ UNCHANGED tokenVars
    /\ UNCHANGED <<fileVars, cmd, mem, boundVars>>

\* The cycle ends before the endpoint took the token: no address was detected,
\* the user declined, there is no token, the request failed or was refused.
NoRefresh(p, k) ==
    /\ At(p, k) \in {"refresh", "asked"}
    /\ EndCycle(p, k)
    /\ Forget(p)
    /\ UNCHANGED <<fileVars, tokenVars, boundVars>>

\* The endpoint has rotated the token, but its answer does not arrive.
RefreshLost(p, k) ==
    /\ At(p, k) = "asked"
    /\ run[p][k].tok \in valid
    /\ "rotated" \in Answers
    /\ Loss
    /\ Rotate(run[p][k].tok)
    /\ behind' = TRUE
    /\ EndCycle(p, k)
    /\ Forget(p)
    /\ UNCHANGED <<file, readable, clashed>>

\* The answer has a token, and it is not the one the copy holds by now.
Differs(p, k) == At(p, k) = "store" /\ run[p][k].tok \notin {0, mem[p].token}

\* Mistake: a rotated token reaches the file, but not the copy in use.
StoreFileOnly(p, k) ==
    /\ At(p, k) = "store"
    /\ IF Differs(p, k)
       THEN run' = [run EXCEPT ![p][k] =
                 [at |-> "open", tok |-> 0,
                  buf |-> [mem[p] EXCEPT !.token = run[p][k].tok], last |-> FALSE]]
       ELSE GoWith(p, k, "user", 0)
    /\ UNCHANGED <<fileVars, cmd, mem, tokenVars, boundVars>>

\* authClient keeps a token that differs, in the copy first and then in the file.
Store(p, k) ==
    /\ At(p, k) = "store"
    /\ IF Differs(p, k)
       THEN Save(p, k, [mem[p] EXCEPT !.token = run[p][k].tok], FALSE)
       ELSE GoWith(p, k, "user", 0) /\ UNCHANGED mem
    /\ UNCHANGED <<fileVars, cmd, tokenVars, boundVars>>

\* ensureUserID with a known id.  What is left of the cycle does not touch the
\* configuration.
UserKnown(p, k) ==
    /\ At(p, k) = "user"
    /\ mem[p].user
    /\ EndCycle(p, k)
    /\ Forget(p)
    /\ UNCHANGED <<fileVars, tokenVars, boundVars>>

EnsureUser(p, k) ==
    /\ At(p, k) = "user"
    /\ ~mem[p].user
    /\ Save(p, k, [mem[p] EXCEPT !.user = TRUE], TRUE)
    /\ UNCHANGED <<fileVars, cmd, tokenVars, boundVars>>

EnsureUserFails(p, k) ==
    /\ At(p, k) = "user"
    /\ ~mem[p].user
    /\ Fault
    /\ EndCycle(p, k)
    /\ Forget(p)
    /\ UNCHANGED <<fileVars, tokenVars>>

------------------------------------------------------------------------------
(* config.Save: os.WriteFile truncates the file, then writes.              *)

OpenFile(p, k) ==
    /\ At(p, k) = "open"
    /\ readable' = FALSE
    /\ GoTo(p, k, "write")
    /\ UNCHANGED <<file, behind, clashed, cmd, mem, tokenVars, boundVars>>

\* The directory or the file cannot be opened: it stays as it is.
OpenFails(p, k) ==
    /\ At(p, k) = "open"
    /\ Fault
    /\ behind' = TRUE
    /\ AfterSave(p, k)
    /\ UNCHANGED <<file, readable, clashed, tokenVars>>

\* A file somebody wrote since this process truncated it keeps the end of those
\* bytes if they are more.
WriteFile(p, k) ==
    /\ Writing(p, k)
    /\ file' = run[p][k].buf
    /\ readable' = TRUE \/ (readable /\ readable' = FALSE)
    /\ behind' = FALSE
    /\ AfterSave(p, k)
    /\ UNCHANGED <<clashed, tokenVars, boundVars>>

\* The write fails after the truncation (the disk is full, say).
WriteFails(p, k) ==
    /\ Writing(p, k)
    /\ Fault
    /\ behind' = TRUE
    /\ AfterSave(p, k)
    /\ UNCHANGED <<file, readable, clashed, tokenVars>>

------------------------------------------------------------------------------
(* The outside world.                                                      *)

EndProcess(p) ==
    /\ cmd' = [cmd EXCEPT ![p] = "none"]
    /\ mem' = [mem EXCEPT ![p] = NoConfig]
    /\ run' = [run EXCEPT ![p] = [k \in Cycles |-> Idle]]

\* An interrupted daemon shuts its scheduler down between cycles.
Stop(p) ==
    /\ cmd[p] = "run"
    /\ Resting(p)
    /\ EndProcess(p)
    /\ UNCHANGED <<fileVars, tokenVars, boundVars>>

\* A process is killed while it works.
Kill(p) ==
    /\ ~Resting(p)
    /\ Loss
    /\ behind' = (behind \/ \E k \in Cycles : AtWork(p, k))
    /\ EndProcess(p)
    /\ UNCHANGED <<file, readable, clashed, tokenVars>>

\* The user changes the setting in the file.
EditFile ==
    /\ edits < MaxEdits
    /\ edits' = edits + 1
    /\ readable
    /\ \E s \in Settings \ {file.set} : file' = [file EXCEPT !.set = s]
    /\ UNCHANGED <<readable, behind, clashed, cmd, mem, run, tokenVars, losses, faults>>

\* The user removes a file no command accepts; config.Load then yields the
\* defaults.
RemoveFile ==
    /\ ~readable
    /\ \A p \in Procs : Resting(p)
    /\ file' = NoConfig
    /\ readable' = TRUE
    /\ behind' = FALSE
    /\ UNCHANGED <<clashed, cmd, mem, run, tokenVars, boundVars>>

------------------------------------------------------------------------------

CycleStep(p, k) ==
    \/ Tick(p, k) \/ Grant(p, k) \/ GrantRefused(p, k)
    \/ LogoutNothing(p, k) \/ Revoke(p, k) \/ RevokeFails(p, k)
    \/ Present(p, k) \/ Refresh(p, k) \/ NoRefresh(p, k) \/ RefreshLost(p, k)
    \/ Store(p, k) \/ UserKnown(p, k) \/ EnsureUser(p, k) \/ EnsureUserFails(p, k)
    \/ OpenFile(p, k) \/ OpenFails(p, k) \/ WriteFile(p, k) \/ WriteFails(p, k)

Next ==
    \/ \E p \in Procs : Invoke(p) \/ Stop(p) \/ Kill(p)
    \/ \E p \in Procs, k \in Cycles : CycleStep(p, k)
    \/ EditFile \/ RemoveFile

Spec == Init /\ [][Next]_vars

------------------------------------------------------------------------------
(* Properties.                                                             *)

\* The variables have their types; tokens in use have been issued; a process
\* without a command has nothing under way, and only a daemon whose first cycle is
\* over has cycles beside the first.
TypeOK ==
    /\ file \in Config
    /\ readable \in BOOLEAN /\ behind \in BOOLEAN /\ clashed \in BOOLEAN
    /\ cmd \in [Procs -> Commands]
    /\ mem \in [Procs -> Config]
    /\ run \in [Procs -> [Cycles -> Thread]]
    /\ issued \in 0 .. MaxTokens
    /\ valid \subseteq 1 .. issued
    /\ edits \in 0 .. MaxEdits /\ losses \in 0 .. MaxLosses /\ faults \in 0 .. MaxFaults
    /\ \A p \in Procs : cmd[p] = "none" => Resting(p) /\ mem[p] = NoConfig
    /\ \A p \in Procs, k \in Cycles : cmd[p] # "run" /\ k # FirstCycle => At(p, k) = "idle"

\* Every save that is completed makes up for what went wrong before it.  As long as
\* cycles and commands do not get in each other's way, the file can be read and its
\* token, if any, is one the endpoint accepts whenever no cycle is under way,
\* unless something has gone wrong since the last save.
StoredUsable ==
    ~clashed /\ ~behind /\ (\A p \in Procs : Resting(p))
    => readable /\ (file.token # 0 => file.token \in valid)

\* An answer that is stale: the endpoint has replaced the token it carries, and it
\* would still be put into the copy.
Stale(p, k) == Differs(p, k) /\ run[p][k].tok \notin valid

\* Against an endpoint that answers a rotated token or none, overlapping cycles never
\* have a stale answer to handle: the comparison with the shared copy is right there.
NeverStale == \A p \in Procs, k \in Cycles : ~Stale(p, k)

\* The process holds a usable token: in its copy, or in an answer one of its
\* cycles has not handled yet.
Live(p) ==
    \/ mem[p].token \in valid
    \/ \E k \in Cycles : At(p, k) = "store" /\ run[p][k].tok \in valid

\* Overlapping cycles that rotate the token and saves that fail leave a daemon with
\* a usable token.  Only two steps can take it away: the endpoint's answer is lost,
\* or a cycle handles an answer that has become stale (main.go:268 compares it with
\* the copy and takes every token that differs for a rotated one).
KeepsSession ==
    [][\A p \in Procs :
        /\ cmd[p] = "run" /\ cmd'[p] = "run" /\ Live(p) /\ losses' = losses
        /\ \A k \in Cycles : Stale(p, k) => At(p, k)' = "store"
        => Live(p)']_vars

------------------------------------------------------------------------------
(* What the documentation says and the code does not keep.                 *)

\* "revoke the refresh token and clear credentials" (README, logout): a file
\* without credentials gets some from a login only.
LogoutClears ==
    [][file.token = 0 /\ file'.token # 0
       => \E p \in Procs : cmd[p] = "login" /\ Writing(p, FirstCycle)]_vars

\* "If the refresh rotated the refresh token, it is persisted back" (main.go:258):
\* a token takes the place of another because the endpoint has rotated it, so it is
\* a newer one.
OnlyRotated ==
    [][\A p \in Procs : cmd[p] = "run" /\ cmd'[p] = "run" => mem'[p].token >= mem[p].token]_vars

------------------------------------------------------------------------------
(* The inductive invariants behind StoredUsable and KeepsSession.           *)

\* What is at work belongs to its command; no token is in use before it is issued.
ThreadsInv ==
    \A p \in Procs :
        /\ mem[p].token <= issued
        /\ \A k \in Cycles :
            /\ At(p, k) = "grant" => cmd[p] = "login"
            /\ At(p, k) = "revoke" => cmd[p] = "logout"
            /\ run[p][k].buf.token <= issued /\ run[p][k].tok <= issued

TokensInv == ThreadsInv /\ file.token <= issued

\* Tokens that endpoint and process agree on, or none.
Good(t) == t \in valid \cup {0}

\* What a cycle holds that works alone: the token of the copy until the endpoint
\* has answered, then a good answer, then a good copy.
Sound(p, k) ==
    /\ At(p, k) = "asked" => run[p][k].tok = mem[p].token
    /\ At(p, k) = "store" => Good(run[p][k].tok) /\ (run[p][k].tok = 0 => mem[p].token \in valid)
    /\ At(p, k) = "user" => mem[p].token \in valid
    /\ Saving(p, k) => /\ run[p][k].buf.token = mem[p].token /\ Good(mem[p].token)
                       /\ ~run[p][k].last => mem[p].token \in valid
    /\ Writing(p, k) => ~readable

\* As long as cycles work one at a time each of them is sound, and the file is good
\* unless a better token is on its way into it.
AloneInv(p) ==
    /\ \A k \in Cycles : Sound(p, k)
    /\ \A k, j \in Cycles : AtWork(p, k) /\ AtWork(p, j) => k = j
    /\ ~behind /\ (\A k \in Cycles : ~Saving(p, k) /\ ~Differs(p, k))
       => readable /\ Good(file.token)

SavingInv == ~clashed => \A p \in Procs : AloneInv(p)

\* Against an endpoint that rotates every token it answers, a token that a cycle
\* was answered is known to this cycle only until it is stored.
FreshInv ==
    \A p \in Procs, k \in Cycles : At(p, k) = "store" /\ run[p][k].tok # 0 =>
        /\ run[p][k].tok \in valid
        /\ run[p][k].tok # mem[p].token
        /\ \A j \in Cycles \ {k} : run[p][j].tok # run[p][k].tok

OneProcess == \E p : Procs = {p}
==============================================================================
