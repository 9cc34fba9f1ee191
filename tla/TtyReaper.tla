----------------------------- MODULE TtyReaper -----------------------------
(***************************************************************************)
(* codex-hook-tty-reaper.py: the Stop hook that ends the processes a Codex *)
(* turn left waiting on a pseudo terminal.  It walks its own ancestors,    *)
(* reads the process table entry by entry, and signals the descendants of  *)
(* the anchor whose standard input is a terminal.  Meanwhile processes     *)
(* fork, exit, are reaped, and their ids are given out again.              *)
(*                                                                         *)
(* An incarnation (field id) is what a pidfd holds on to; the hook itself  *)
(* only ever sees a process id and a start time in clock ticks.            *)
(***************************************************************************)
EXTENDS Integers, FiniteSets, SequencesExt

CONSTANTS
    MaxPid,     \* bound: process ids
    MaxTick,    \* bound: ticks of the clock that stamps start times
    MaxForks,   \* bound: processes forked while the hook runs
    MaxChanges  \* bound: changes to the process table while the hook runs

ASSUME ReaperAssumption ==
    /\ MaxPid \in Nat \ 0..2 /\ MaxTick \in Nat \ {0}
    /\ MaxForks \in Nat /\ MaxChanges \in Nat

Anchor  == 2
Hook    == 3
Pids    == 1..MaxPid
Dynamic == 4..MaxPid    \* of the processes other than 1, the anchor and the hook

VARIABLES
    proc,       \* the process table: pid -> entry, Free when the id is unused
    tick, born, changes,    \* clock; incarnations and changes of the table so far
    pc, chain,  \* hook: where it is; the ancestor links read so far
    table,      \* hook: the snapshot, pid -> entry, Free when left out
    todo,       \* hook: entries still to read, then fd 0 links still to read
    found,      \* hook: descendants seen with a terminal as standard input
    targets,    \* hook: what is left of the ordered targets
    fd,         \* hook: incarnation held by the pidfd in use
    signalled,  \* hook: targets that got SIGTERM, each with its pidfd
    terms, kills,   \* incarnations SIGTERM and SIGKILL were delivered to
    listing,    \* the process table when the hook began to read it
    twins,      \* ids that changed hands within one tick
    stuck,      \* terminal-bound incarnations the hook found alive at its snapshot
    failed      \* hook: an error other than "no such process" ended the run

envVars  == <<proc, tick, born, changes, twins>>
hookVars == <<pc, chain, table, todo, found, targets, fd, signalled, listing>>
reaperVars == <<envVars, hookVars, terms, kills, stuck, failed>>

Process(id, ppid, start, tty) ==
    [id |-> id, ppid |-> ppid, start |-> start, zombie |-> FALSE, tty |-> tty]
Free == Process(0, 0, 0, FALSE)
Gone(i) == \A p \in Pids : proc[p].id # i \/ proc[p].zombie

----------------------------------------------------------------------------
(* What the code computes from what it has read.                            *)

\* _read_stat: an entry that vanished is left out; a zombie can still be read.
Readable(p) == proc[p].id # 0

\* _anchor_is_unchanged: the anchor is the process the walk saw, by start time.
AnchorIsUnchanged ==
    \E link \in ToSet(chain) :
        /\ link.pid = Anchor
        /\ table[Anchor].id # 0 /\ table[Anchor].start = link.start

\* Bug: a child started in its parent's own tick does not count.
Parent_StrictRule(t, q, rule) ==
    IF /\ q # 0 /\ t[q].id # 0 /\ t[q].ppid # 0 /\ t[t[q].ppid].id # 0
       /\ rule => t[t[q].ppid].start < t[q].start
    THEN t[q].ppid ELSE 0

\* The recorded parent of q in table t, 0 when there is none; with the start rule a link
\* counts only when the parent did not start later than the child.
Parent(t, q, rule) ==
    IF /\ q # 0 /\ t[q].id # 0 /\ t[q].ppid # 0 /\ t[t[q].ppid].id # 0
       /\ rule => t[t[q].ppid].start =< t[q].start
    THEN t[q].ppid ELSE 0

\* The n-th process up from p.
Climb(t, p, rule) ==
    LET up[n \in 0..MaxPid] == IF n = 0 THEN p ELSE Parent(t, up[n - 1], rule)
    IN  up

\* Everything below a by the recorded parents.
Below(t, a) ==
    {p \in Pids \ {a} : \E n \in 1..MaxPid : Climb(t, p, FALSE)[n] = a}

\* _depths_below: the distance of every process that climbs to a under the start rule.
DepthsBelow(t, a) ==
    LET Up(p) == {n \in 1..MaxPid : Climb(t, p, TRUE)[n] = a}
    IN  [p \in {p \in Pids \ {a} : Up(p) # {}} |-> Min(Up(p))]

Seen == {link.pid : link \in ToSet(chain)}

\* _targets: not the hook, nothing on its own ancestor chain.
Excluded == Seen

\* Deepest first, ties by ascending process id.
TargetOrder(S, depth) ==
    {s \in [1..Cardinality(S) -> S] : \A i, j \in 1..Cardinality(S) : i < j =>
        \/ depth[s[i]] > depth[s[j]]
        \/ depth[s[i]] = depth[s[j]] /\ s[i] < s[j]}

\* Bug: the start time is not compared.
SameProcess_AnyStart(p, start) ==
    Readable(p) /\ ~proc[p].zombie

\* _same_process: present, same start time, not dead.
SameProcess(p, start) ==
    Readable(p) /\ proc[p].start = start /\ ~proc[p].zombie

\* The SIGKILL goes through the pidfd that carried the SIGTERM, never a second one.
KillHandle(s) == s.id

Finish == pc' = "done"

----------------------------------------------------------------------------
(* The processes around the hook.                                           *)

\* The terminal-bound incarnations below the process that started as the anchor.
BoundIn(table_) ==
    IF table_[Anchor].id = Anchor
    THEN {table_[c].id : c \in {c \in Below(table_, Anchor) : table_[c].tty}} ELSE {}

Dies(table_, p) ==
    [q \in Pids |-> IF q = p THEN [table_[p] EXCEPT !.zombie = TRUE, !.tty = FALSE]
                    ELSE IF table_[q].ppid = p THEN [table_[q] EXCEPT !.ppid = 1]
                    ELSE table_[q]]

Change == changes < MaxChanges /\ changes' = changes + 1

\* A process is started in this tick or a later one; a free id still shows when the
\* process that had it last was started.
Fork(parent, p, tty, start) ==
    /\ Change /\ born < MaxPid + MaxForks
    /\ ~Readable(p) /\ Readable(parent) /\ ~proc[parent].zombie
    /\ born' = born + 1 /\ tick' = start
    /\ proc' = [proc EXCEPT ![p] = Process(born + 1, parent, start, tty)]
    /\ twins' = IF proc[p].start = start THEN twins \cup {p} ELSE twins
    /\ UNCHANGED <<hookVars, terms, kills, stuck, failed>>

\* A process leaves (on SIGTERM or by itself) and stays a zombie, or its parent reaps it and
\* the id can be given out again; its children go to process 1.  The hook need not end what
\* left, nor what lost its place below the anchor before the snapshot was complete.
Exit(p, reaped) ==
    /\ Change /\ p \notin {1, Hook} /\ Readable(p) /\ (proc[p].zombie => reaped)
    /\ proc' = IF reaped
               THEN [Dies(proc, p) EXCEPT ![p] = Process(0, 0, proc[p].start, FALSE)]
               ELSE Dies(proc, p)
    /\ stuck' = IF pc = "snap" THEN stuck \ {proc[c].id : c \in {p} \cup Below(proc, p)}
                ELSE stuck \ {proc[p].id}
    /\ UNCHANGED <<tick, born, twins, hookVars, terms, kills, failed>>

\* A process redirects its own standard input.
Redirect(p) ==
    /\ Change /\ p \in Dynamic /\ proc[p].tty
    /\ proc' = [proc EXCEPT ![p].tty = FALSE]
    /\ stuck' = stuck \ {proc[p].id}
    /\ UNCHANGED <<tick, born, twins, hookVars, terms, kills, failed>>

----------------------------------------------------------------------------
(* The hook.                                                                *)

quiet == UNCHANGED <<envVars, terms, kills, failed>>

Link(p) == [pid |-> p, ppid |-> proc[p].ppid, start |-> proc[p].start]

\* _ancestor_chain: one link is read at a time; an unreadable link, a loop or a parent
\* that started later than its child stops everything.
Walk ==
    LET last == chain[Len(chain)] IN
    /\ pc = "walk" /\ quiet
    /\ \/ /\ chain = <<>> /\ chain' = <<Link(Hook)>>
          /\ UNCHANGED <<pc, todo, stuck, listing>>
       \/ /\ chain # <<>> /\ last.pid # 1 /\ last.ppid # 0
          /\ IF /\ last.ppid \notin Seen /\ Readable(last.ppid)
                /\ proc[last.ppid].start =< last.start
             THEN chain' = Append(chain, Link(last.ppid)) /\ UNCHANGED pc
             ELSE Finish /\ UNCHANGED chain
          /\ UNCHANGED <<todo, stuck, listing>>
       \/ /\ chain # <<>> /\ (last.pid = 1 \/ last.ppid = 0)
          /\ UNCHANGED chain
          /\ IF Anchor \in Seen \ {Hook}
             THEN /\ pc' = "snap" /\ todo' = {p \in Pids : Readable(p)} /\ listing' = proc
                  /\ stuck' = BoundIn(proc) \ {proc[p].id : p \in Excluded}
             ELSE Finish /\ UNCHANGED <<todo, stuck, listing>>
    /\ UNCHANGED <<table, found, targets, fd, signalled>>

\* _snapshot: the listed entries are read one after the other, in the ascending
\* order in which procfs lists them.
Snapshot ==
    /\ pc = "snap" /\ quiet
    /\ todo # {}
    /\ LET p == Min(todo) IN
          /\ todo' = todo \ {p}
          /\ table' = [table EXCEPT ![p] = proc[p]]
    /\ UNCHANGED <<pc, chain, found, targets, fd, signalled, stuck, listing>>

\* _reap: the anchor check, then the descendants of the snapshot.
Descend ==
    /\ pc = "snap" /\ todo = {} /\ quiet
    /\ IF AnchorIsUnchanged
       THEN pc' = "links" /\ todo' = DOMAIN DepthsBelow(table, Anchor) \ Excluded
       ELSE Finish /\ UNCHANGED todo
    /\ UNCHANGED <<chain, table, found, targets, fd, signalled, stuck, listing>>

\* _has_terminal_stdin of each descendant, read after the snapshot.
ReadStdin ==
    /\ pc = "links" /\ quiet
    /\ \E p \in todo :
          /\ todo' = todo \ {p}
          /\ found' = IF proc[p].tty THEN found \cup {p} ELSE found
    /\ UNCHANGED <<pc, chain, table, targets, fd, signalled, stuck, listing>>

Order ==
    /\ pc = "links" /\ todo = {} /\ quiet
    /\ targets' \in TargetOrder(found, DepthsBelow(table, Anchor))
    /\ pc' = "open"
    /\ UNCHANGED <<chain, table, todo, found, fd, signalled, stuck, listing>>

\* _stop, the SIGTERM phase: open a pidfd, check the identity, send.  A missing
\* process skips the target.
Open ==
    /\ pc = "open" /\ targets # <<>> /\ quiet
    /\ IF Readable(Head(targets))
       THEN fd' = proc[Head(targets)].id /\ pc' = "check" /\ UNCHANGED targets
       ELSE targets' = Tail(targets) /\ UNCHANGED <<fd, pc>>
    /\ UNCHANGED <<chain, table, todo, found, signalled, stuck, listing>>

Check ==
    /\ pc = "check" /\ quiet
    /\ IF SameProcess(Head(targets), table[Head(targets)].start)
       THEN pc' = "term" /\ UNCHANGED targets
       ELSE pc' = "open" /\ targets' = Tail(targets)
    /\ UNCHANGED <<chain, table, todo, found, fd, signalled, stuck, listing>>

\* pidfd_send_signal: ESRCH once the incarnation has been reaped.
Held(i) == \E p \in Pids : proc[p].id = i

SendTerm ==
    /\ pc = "term"
    /\ IF Held(fd)
       THEN /\ terms' = terms \cup {fd}
            /\ signalled' = Append(signalled, [pid |-> Head(targets), id |-> fd])
       ELSE UNCHANGED <<terms, signalled>>
    /\ targets' = Tail(targets) /\ pc' = "open"
    /\ UNCHANGED <<envVars, chain, table, todo, found, fd, kills, stuck, failed, listing>>

\* The wait: until no signalled target is the same process any more, or 0.5 seconds.
Wait ==
    /\ pc = "open" /\ targets = <<>> /\ quiet
    /\ IF \A i \in DOMAIN signalled :
             ~SameProcess(signalled[i].pid, table[signalled[i].pid].start)
       THEN Finish ELSE pc' = "kill"
    /\ UNCHANGED <<chain, table, todo, found, targets, fd, signalled, stuck, listing>>

\* The SIGKILL phase: the same check, then the pidfd that carried the SIGTERM.
CheckAgain ==
    /\ pc = "kill" /\ quiet
    /\ IF signalled = <<>> THEN Finish /\ UNCHANGED <<fd, signalled>>
       ELSE LET s == Head(signalled) IN
            IF SameProcess(s.pid, table[s.pid].start)
            THEN fd' = KillHandle(s) /\ pc' = "sendkill" /\ UNCHANGED signalled
            ELSE signalled' = Tail(signalled) /\ UNCHANGED <<fd, pc>>
    /\ UNCHANGED <<chain, table, todo, found, targets, stuck, listing>>

SendKill ==
    /\ pc = "sendkill"
    /\ IF Held(fd)
       THEN /\ kills' = kills \cup {fd}
            /\ proc' = Dies(proc, CHOOSE p \in Pids : proc[p].id = fd)
       ELSE UNCHANGED <<kills, proc>>
    /\ signalled' = Tail(signalled) /\ pc' = "kill"
    /\ UNCHANGED <<tick, born, changes, twins, chain, table, todo, found,
                   targets, fd, terms, stuck, failed, listing>>

\* Any other error of a pidfd call ends the run: no further signal.
PidfdError ==
    /\ pc \in {"open", "term", "sendkill"} /\ (pc = "open" => targets # <<>>)
    /\ Finish /\ failed' = TRUE
    /\ UNCHANGED <<envVars, chain, table, todo, found, targets, fd, signalled, terms, kills, stuck, listing>>

HookStep == Walk \/ Snapshot \/ Descend \/ ReadStdin \/ Order \/ Open \/ Check \/ SendTerm
            \/ Wait \/ CheckAgain \/ SendKill

Env ==
    \/ \E parent \in Pids, p \in Dynamic \cup {Anchor}, tty \in BOOLEAN,
          start \in tick..MaxTick : Fork(parent, p, tty, start)
    \/ \E p \in Pids : Redirect(p) \/ \E reaped \in BOOLEAN : Exit(p, reaped)

\* Init: any forest over the ids, started in the hook's own tick; the hook is
\* below the anchor, directly or through a process that the anchor started.
ReaperInit ==
    /\ tick = 1 /\ changes = 0 /\ born = MaxPid
    /\ \E ppid \in [Dynamic -> Pids], up \in Dynamic \cup {Anchor},
          tty \in [Dynamic -> BOOLEAN], used \in SUBSET Dynamic :
         /\ proc = [p \in Pids |->
                       CASE p = 1      -> Process(1, 0, 0, FALSE)
                         [] p = Anchor -> Process(Anchor, 1, 0, TRUE)
                         [] p = Hook   -> Process(Hook, up, 1, TRUE)
                         [] p \in used -> Process(p, ppid[p], 1, tty[p])
                         [] OTHER      -> Free]
         /\ up \in used => ppid[up] = Anchor
         /\ up \in used \cup {Anchor}
         /\ \A p \in used : /\ Readable(ppid[p]) /\ ppid[p] \notin {p, Hook}
                            /\ ppid[p] \in Dynamic => ppid[p] < p
         /\ \A p \in Dynamic \ used : ppid[p] = 1 /\ ~tty[p]
    /\ pc = "walk" /\ chain = <<>> /\ table = [p \in Pids |-> Free] /\ todo = {} /\ found = {}
    /\ targets = <<>> /\ fd = 0 /\ signalled = <<>>
    /\ terms = {} /\ kills = {} /\ twins = {} /\ stuck = {} /\ failed = FALSE
    /\ listing = [p \in Pids |-> Free]

ReaperNext == HookStep \/ PidfdError \/ (pc # "done" /\ Env)

ReaperSpec == ReaperInit /\ [][ReaperNext]_reaperVars /\ WF_reaperVars(HookStep)

----------------------------------------------------------------------------
(* Properties.                                                              *)

Ids == 0..MaxPid + MaxForks

ReaperTypeOK ==
    /\ proc \in [Pids -> [id : Ids, ppid : {0} \cup Pids, start : 0..MaxTick,
                          zombie : BOOLEAN, tty : BOOLEAN]]
    /\ pc \in {"walk", "snap", "links", "open", "check", "term", "kill", "sendkill", "done"}
    /\ todo \subseteq Pids /\ found \subseteq Pids /\ fd \in Ids
    /\ terms \subseteq Ids /\ kills \subseteq Ids /\ stuck \subseteq Ids
    /\ ToSet(targets) \subseteq found

\* What was read on the recorded way from p up to the anchor, p included, is not all of
\* processes that were there when the reading began, or the anchor's id had changed hands
\* before the hook walked up to it.
Misled(p) ==
    \/ table[Anchor].id # Anchor
    \/ \E n \in 0..MaxPid :
          LET q == Climb(table, p, TRUE)[n] IN q # 0 /\ table[q].id # listing[q].id

\* Only stuck processes are signalled, however the table changes while it is read.  Neither
\* the hook nor a process it still runs under ever is.  SIGKILL reaches only an incarnation
\* that got SIGTERM, whatever became of its process id: the pidfd is never opened again.  And
\* a signalled incarnation was a terminal-bound descendant of the anchor when the hook began
\* to read the table.  There are two exceptions: an id on its recorded way to the anchor was
\* given out again while the table was read entry by entry; and it is not a process the hook
\* has read at all, but got the id of one within the same clock tick.
OnlyStuckSignalled ==
    /\ \A p \in Pids : (p = Hook \/ Hook \in Below(proc, p)) => proc[p].id \notin terms \cup kills
    /\ kills \subseteq terms
    /\ \A i \in terms : \/ i \in BoundIn(listing)
                        \/ \E p \in Pids : table[p].id = i /\ Misled(p)
                        \/ found \cap twins # {} /\ \A p \in Pids : table[p].id # i

\* The hook ends, and by then every terminal-bound descendant that the snapshot could see is
\* gone, unless it redirected its input first or a pidfd call failed.
StuckIsEnded == <>(pc = "done" /\ (failed \/ \A i \in stuck : Gone(i)))
============================================================================
