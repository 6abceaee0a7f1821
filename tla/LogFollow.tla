------------------------------ MODULE LogFollow ------------------------------
(***************************************************************************)
(* redo-log reading the logs of a build while the build writes them        *)
(* (redo_log.rs, and what builder.rs writes).                              *)
(*                                                                         *)
(* Every script's stderr goes to a log file of its target, a new file for  *)
(* every run of the script; the commands in a script add lines that name   *)
(* the targets they deal with.  redo-log descends into the log of every    *)
(* target named, and with -f stays in it until nobody holds the target's   *)
(* lock.  A toplevel command runs redo-log on a pipe, as a filter of its   *)
(* own stderr.                                                             *)
(*                                                                         *)
(* Lines are written and read whole; wording, colours and the progress     *)
(* display are left out.                                                   *)
(***************************************************************************)
EXTENDS Naturals, FiniteSets, Sequences, SequencesExt

CONSTANTS Target, Top,     \* Top: the toplevel command, whose log is the pipe
          Reader, None,
          Setups           \* the situations to look at:
    \*   mode    of redo-log: "pipe", "follow" (-rf), "cat" (-ru)
    \*   pipe    the lines the pipe holds
    \*   script  what each script does: {} prints a line, a set of targets is
    \*           a redo-ifchange of them
    \*   old     the log of an earlier run of each script
    \*   cached  targets that a cache hit may end without a script
    \*   pooled  targets that may find their pool full, once

(* What is in a log: what the script prints, and who is named and why. *)
Follows == {"do", "locked", "waiting", "unlocked", "unchanged"}
Line    == [kind : {"say"}, run : {0, 1}, of : Nat]
           \cup [kind : Follows \cup {"done"}, run : {0}, of : Target]

ASSUME LogAssumption ==
    /\ Top \notin Target /\ Reader # None /\ {Reader, None} \cap (Target \cup {Top}) = {}
    /\ \A s \in Setups :
         /\ s.mode \in {"pipe", "follow", "cat"} /\ s.pipe \in Nat \ {0}
         /\ s.script \in [Target \cup {Top} -> Seq(SUBSET Target)]
         /\ s.script[Top] # <<>> /\ s.script[Top][1] # {}
         /\ s.old \in [Target -> Seq(Line)]

VARIABLES lock,    \* lock[t]: who holds the target's lock, or None
          ask,     \* ask[p][c]: where p is with its dependency c: "no", "locked",
                   \* "waiting", "again", "pool", "forking", "running", "over"
          at,      \* at[p]: the next thing p's script does; 0 before it runs
          built,   \* targets this build is done with
          known,   \* targets whose row in the database others can see
          full,    \* targets that have found their pool full
          log,     \* log[p]: p's log files, the old ones too
          setup,
          reader   \* redo-log
buildVars == <<lock, ask, at, built, known, full, log, setup>>
vars == <<buildVars, reader>>

Commands == Target \cup {Top}
Script   == setup.script
Say(run, n)    == [kind |-> "say", run |-> run, of |-> n]
Meta(kind, c)  == [kind |-> kind, run |-> 0, of |-> c]

(* A frame of catlog: the target, the file it has open (0: none yet), the  *)
(* lines it has read, whether it has seen the target locked, whether       *)
(* FOLLOW_START_GRACE has not passed since it was called.                  *)
Following == setup.mode # "cat"
Piped     == setup.mode = "pipe"
Frame(t)  == [t |-> t, file |-> 0, pos |-> 0, saw |-> FALSE, grace |-> Following, pc |-> "read"]

(* Of the reader: stack, the catlog calls; already, where it has been;     *)
(* shown, what was printed of each log; quiet, that it was started after   *)
(* the build.                                                              *)
Init == /\ setup \in Setups
        /\ lock = [t \in Target |-> None]
        /\ ask = [p \in Commands |-> [t \in Target |-> "no"]]
        /\ at = [p \in Commands |-> IF p = Top THEN 1 ELSE 0]
        /\ built = {} /\ full = {}
        /\ \E logged \in {{}, Target} :
             /\ known = logged
             /\ log = [p \in Commands |-> IF p = Top THEN <<<<>>>>
                                          ELSE IF p \in logged THEN <<setup.old[p]>> ELSE <<>>]
        /\ reader = [on |-> FALSE, quiet |-> FALSE, stack |-> <<>>,
                     already |-> {}, shown |-> [p \in Commands |-> <<>>]]
-----------------------------------------------------------------------------
(* The build. *)
Doing(p)  == at[p] # 0 /\ at[p] <= Len(Script[p])
Item(p)   == Script[p][at[p]]

(* p writes to its newest log.  The toplevel command writes to the pipe,   *)
(* and does nothing else while what it wrote last does not fit; once the   *)
(* reader is gone its writes fail, and nobody minds.                       *)
Reading    == reader.stack # <<>>
Blocked(p) == p = Top /\ Piped /\ Reading /\ Len(log[Top][1]) > reader.stack[1].pos + setup.pipe
Emit(p, lines) == log' = [log EXCEPT ![p][Len(log[p])] = @ \o lines]
Now(p, c, s)   == ask' = [ask EXCEPT ![p][c] = s]
Take(p, c)     == lock' = [lock EXCEPT ![c] = p]
Unlock(c)      == lock' = [lock EXCEPT ![c] = None]

(* The script prints a line. *)
WriteLine(p) == /\ Doing(p) /\ Item(p) = {}
             /\ Emit(p, <<Say(1, at[p])>>)
             /\ at' = [at EXCEPT ![p] = @ + 1]
             /\ UNCHANGED <<lock, ask, built, known, full, setup>>

(* run_ifchange with the lock of c in hand: it is clean, or built.         *)
Consider(p, c, lines) ==
    IF c \in built
      THEN Emit(p, Append(lines, Meta("unchanged", c))) /\ Now(p, c, "over") /\ UNCHANGED lock
      ELSE Emit(p, Append(lines, Meta("do", c))) /\ Now(p, c, "forking") /\ Take(p, c)

(* run_ifchange deals with one target at a time: not with the next before  *)
(* the job is forked, or the target put off and its row committed.         *)
Is(p, states) == {d \in Item(p) : ask[p][d] \in states}
InHand(p) == Is(p, {"forking"}) \cup (Is(p, {"pool"}) \ known)

(* In a script it records its targets as dependencies, and commits, before *)
(* anything else; the toplevel command commits the row of a new target     *)
(* after the "do" line (persist_new_target_intent, or the loop's end).     *)
Record(p, c) ==
    /\ Doing(p) /\ c \in InHand(p) \ known
    /\ known' = known \cup {c}
    /\ UNCHANGED <<lock, ask, at, built, full, log, setup>>

(* First pass: a target whose lock is taken is put off. *)
FirstPass(p, c) ==
    /\ Doing(p) /\ c \in Is(p, {"no"}) /\ InHand(p) = {}
    /\ IF lock[c] = None THEN Consider(p, c, <<>>)
       ELSE Emit(p, <<Meta("locked", c)>>) /\ Now(p, c, "locked") /\ UNCHANGED lock
    /\ known' = IF p = Top THEN known ELSE known \cup Item(p)
    /\ UNCHANGED <<at, built, full, setup>>

(* Second pass, when all have been tried and no job runs: try the lock     *)
(* again, and when it is taken wait until it was free once (waitlock).  A  *)
(* "waiting" line that repeats the last line is left out.                  *)
WaitLine(p, c) == IF Last(Last(log[p])) = Meta("waiting", c) THEN <<>> ELSE <<Meta("waiting", c)>>
SecondPass(p, c) ==
    /\ Doing(p) /\ Is(p, {"no", "running"}) \cup InHand(p) = {}
    /\ Is(p, {"waiting", "again"}) \subseteq {c}
    /\ \/ ask[p][c] \in {"locked", "again"} /\ lock[c] = None
          /\ Consider(p, c, <<Meta("unlocked", c)>>)
       \/ ask[p][c] \in {"locked", "again"} /\ lock[c] # None
          /\ Emit(p, WaitLine(p, c)) /\ Now(p, c, "waiting") /\ UNCHANGED lock
       \/ ask[p][c] = "waiting" /\ lock[c] = None
          /\ Now(p, c, "again") /\ UNCHANGED <<lock, log>>
    /\ UNCHANGED <<at, built, known, full, setup>>

(* The targets that found their pool full come last. *)
PoolPass(p, c) ==
    /\ Doing(p) /\ ask[p][c] = "pool" /\ \A d \in Item(p) : ask[p][d] \in {"pool", "over"}
    /\ InHand(p) = {}
    /\ IF lock[c] = None THEN Consider(p, c, <<>>)
       ELSE Emit(p, <<Meta("locked", c)>>) /\ Now(p, c, "locked") /\ UNCHANGED lock
    /\ UNCHANGED <<at, built, known, full, setup>>

(* schedule_build_one after its "do" line: the pool is full, ...           *)
Defer(p, c) ==
    /\ ask[p][c] = "forking" /\ c \in setup.pooled \ full
    /\ full' = full \cup {c}
    /\ Unlock(c) /\ Emit(p, <<Meta("waiting", c)>>) /\ Now(p, c, "pool")
    /\ UNCHANGED <<at, built, known, setup>>

(* ... or the target is not built at all (a cache hit, an override), ...   *)
Hit(p, c) ==
    /\ ask[p][c] = "forking" /\ c \in setup.cached \cap known
    /\ built' = built \cup {c}
    /\ Unlock(c) /\ Emit(p, <<Meta("done", c)>>) /\ Now(p, c, "over")
    /\ UNCHANGED <<at, known, full, setup>>

(* ... or its job is forked, and run_ifchange goes on.                     *)
Fork(p, c) ==
    /\ ask[p][c] = "forking" /\ c \in known
    /\ Now(p, c, "running")
    /\ UNCHANGED <<lock, at, built, known, full, log, setup>>

(* Mutant of ExecDofile: the log file is truncated and written again. *)
ExecDofileTruncates(c) ==
    /\ at[c] = 0 /\ \E p \in Commands : ask[p][c] = "running"
    /\ log' = [log EXCEPT ![c] = <<<<>>>>]
    /\ at' = [at EXCEPT ![c] = 1]
    /\ UNCHANGED <<lock, ask, built, known, full, setup>>

(* exec_dofile_in_child, in the job: it renames a new log into place and   *)
(* runs the script.                                                        *)
ExecDofile(c) ==
    /\ at[c] = 0 /\ \E p \in Commands : ask[p][c] = "running"
    /\ log' = [log EXCEPT ![c] = Append(@, <<>>)]
    /\ at' = [at EXCEPT ![c] = 1]
    /\ UNCHANGED <<lock, ask, built, known, full, setup>>

(* The script has ended; the callback records it, unlocks the target and   *)
(* writes "done".                                                          *)
Finish(p, c) ==
    /\ ask[p][c] = "running" /\ at[c] = Len(Script[c]) + 1
    /\ built' = built \cup {c}
    /\ Unlock(c) /\ Emit(p, <<Meta("done", c)>>) /\ Now(p, c, "over")
    /\ UNCHANGED <<at, known, full, setup>>

(* redo-ifchange returns when all its targets are over. *)
Return(p) == /\ Doing(p) /\ Item(p) # {} /\ \A c \in Item(p) : ask[p][c] = "over"
             /\ at' = [at EXCEPT ![p] = @ + 1]
             /\ ask' = [ask EXCEPT ![p] = [c \in Target |-> "no"]]
             /\ UNCHANGED <<lock, built, known, full, log, setup>>

Build(p) == /\ ~Blocked(p)
            /\ \/ WriteLine(p) \/ Return(p)
               \/ p \in Target /\ ExecDofile(p)
               \/ \E c \in Target : \/ FirstPass(p, c) \/ SecondPass(p, c) \/ PoolPass(p, c)
                                    \/ Record(p, c) \/ Defer(p, c) \/ Hit(p, c) \/ Fork(p, c)
                                    \/ Finish(p, c)
Over == at[Top] > Len(Script[Top])
-----------------------------------------------------------------------------
(* redo-log. *)
Cur       == Last(reader.stack)
Log(f)    == log[f.t][f.file]

(* redo starts it before the build, on its pipe; a user whenever he likes. *)
Root == CHOOSE t \in Target : t \in Script[Top][1]
Start ==
    /\ ~reader.on
    /\ LET t == IF Piped THEN Top ELSE Root IN
       reader' = [reader EXCEPT !.on = TRUE, !.quiet = Over, !.already = {t},
                    !.stack = <<[Frame(t) EXCEPT !.file = IF Piped THEN 1 ELSE 0]>>]
    /\ UNCHANGED buildVars

Frames(s)   == reader' = [reader EXCEPT !.stack = s]
Set(f)      == Frames(Append(Front(reader.stack), f))
Leave       == Frames(Front(reader.stack))

(* A target without a row: with -f redo-log waits for the row until the    *)
(* grace is over; then the whole of redo-log ends, with code 24.           *)
NotKnown ==
    /\ Reading /\ Cur.pc = "read" /\ Cur.file = 0 /\ Cur.t \notin known /\ ~Cur.grace
    /\ Frames(<<>>)
    /\ UNCHANGED buildVars

(* catlog opens the log there is now. *)
OpenLog ==
    /\ Reading /\ Cur.pc = "read" /\ Cur.file = 0 /\ Cur.t \in known
    /\ IF log[Cur.t] # <<>> THEN Set([Cur EXCEPT !.file = Len(log[Cur.t])])
       ELSE IF Following THEN Set([Cur EXCEPT !.pc = "eof"]) ELSE Leave
    /\ UNCHANGED buildVars

(* Mutant of Enters: the target is noted before catlog looks whether it    *)
(* was.                                                                    *)
EntersNoted(l) == FALSE

(* The lines that redo-log descends into, unless it has been there. *)
Enters(l) == /\ \/ l.kind \in {"do", "locked", "waiting", "unlocked"}
                \/ l.kind = "unchanged" /\ setup.mode = "cat"
             /\ l.of \notin reader.already

ReadLine ==
    /\ Reading /\ Cur.pc = "read" /\ Cur.file # 0 /\ Cur.pos < Len(Log(Cur))
    /\ LET l     == Log(Cur)[Cur.pos + 1]
           stack == Append(Front(reader.stack), [Cur EXCEPT !.pos = @ + 1])
           shown == [reader.shown EXCEPT ![Cur.t] = Append(@, l)] IN
       reader' = [reader EXCEPT !.shown = shown,
                    !.stack = IF Enters(l) THEN Append(stack, Frame(l.of)) ELSE stack,
                    !.already = IF Enters(l) THEN @ \cup {l.of} ELSE @]
    /\ UNCHANGED buildVars

(* End of file: on the pipe when the command has ended; without -f at once; *)
(* with it redo-log asks, a moment later, whether the target is locked.    *)
EndOfFile ==
    /\ Reading /\ Cur.pc = "read" /\ Cur.file # 0 /\ Cur.pos = Len(Log(Cur))
    /\ IF Cur.t = Top THEN Over /\ Leave
       ELSE IF Following THEN Set([Cur EXCEPT !.pc = "eof"]) ELSE Leave
    /\ UNCHANGED buildVars

(* is_locked takes the lock if it can ... *)
IsLocked ==
    /\ Reading /\ Cur.pc = "eof"
    /\ IF lock[Cur.t] = None
         THEN Take(Reader, Cur.t) /\ Set([Cur EXCEPT !.pc = "probe"])
         ELSE Set([Cur EXCEPT !.pc = "read", !.saw = TRUE]) /\ UNCHANGED lock
    /\ UNCHANGED <<ask, at, built, known, full, log, setup>>

(* Mutant of NotLocked: the lock is_locked got stays with redo-log. *)
NotLockedKeeps ==
    /\ Reading /\ Cur.pc = "probe"
    /\ Leave
    /\ UNCHANGED buildVars

(* ... and gives it back; an unlocked target is over, unless redo-log may  *)
(* have been started just before its build.                                *)
NotLocked ==
    /\ Reading /\ Cur.pc = "probe"
    /\ Unlock(Cur.t)
    /\ IF ~Piped /\ ~Cur.saw /\ Cur.grace THEN Set([Cur EXCEPT !.pc = "read"]) ELSE Leave
    /\ UNCHANGED <<ask, at, built, known, full, log, setup>>

GraceOver == /\ Reading /\ Cur.grace
             /\ Frames([i \in DOMAIN reader.stack |-> [reader.stack[i] EXCEPT !.grace = FALSE]])
             /\ UNCHANGED buildVars

RedoLog == NotKnown \/ OpenLog \/ ReadLine \/ EndOfFile \/ IsLocked \/ NotLocked
-----------------------------------------------------------------------------
(* Nobody writes to the pipe before its reader has said REDO-OK. *)
Next == \/ (Piped => reader.on) /\ \E p \in Commands : Build(p) /\ UNCHANGED reader
        \/ Start \/ RedoLog \/ GraceOver

(* The commands and redo-log run; time passes. *)
Spec == /\ Init /\ [][Next]_vars
        /\ WF_vars(Start) /\ WF_vars(RedoLog) /\ WF_vars(GraceOver)
        /\ \A p \in Commands : WF_vars((Piped => reader.on) /\ Build(p) /\ UNCHANGED reader)
-----------------------------------------------------------------------------
(* What is printed of a target is the beginning of one log of it, no line  *)
(* twice, none left out, none of another run, although new runs replace    *)
(* the log while it is read (exec_dofile_in_child: "so readers never see a *)
(* log file truncated mid-read"; catlog's already).                        *)
ShownInOrder == \A p \in Commands :
    \/ reader.shown[p] = <<>>
    \/ \E g \in DOMAIN log[p] : IsPrefix(reader.shown[p], log[p][g])

(* redo-log after the build prints every line of every log the build left  *)
(* at or below the target it was asked for, at any depth: where a script   *)
(* of this build, or the log of an earlier one that this build did not     *)
(* replace, leads it through targets that have a log (catlog).             *)
OldNames(t) == {l.of : l \in {k \in Range(Last(log[t])) : k.kind \in Follows}}
Below(t)    == IF at[t] = 0 THEN OldNames(t) ELSE UNION Range(Script[t])
Leads(R)    == Root \in R /\ \A t \in R : log[t] # <<>> => Below(t) \subseteq R
NoLoss == (reader.on /\ reader.quiet /\ reader.stack = <<>> /\ setup.mode = "cat") =>
    \E R \in SUBSET Target :
       Leads(R) /\ \A t \in R : log[t] # <<>> => reader.shown[t] = Last(log[t])

(* The build and its redo-log both come to an end, and the locks that      *)
(* redo-log tries never keep the build waiting (is_locked).  On the pipe   *)
(* they can wait for each other (await_log_reader waits for both): the     *)
(* toplevel command stuck on the full pipe, redo-log in the log of a       *)
(* target the command has yet to unlock.  Not so when the pipe has room    *)
(* for the "do" and the "done" of all targets of the command but one,      *)
(* since a "done" is written after the unlock, and no target of the        *)
(* command is contended for.                                               *)
Jammed == Blocked(Top) /\ Cur.t # Top /\ lock[Cur.t] = Top
Roomy  == LET T == UNION Range(Script[Top]) IN
          /\ setup.pipe >= 2 * (Cardinality(T) - 1)
          /\ \A t \in Target : UNION Range(Script[t]) \cap T = {}
          /\ T \cap setup.pooled = {}
BothEnd == <>[](\/ Over /\ reader.on /\ ~Reading
                \/ Jammed /\ ~Roomy)
=============================================================================
