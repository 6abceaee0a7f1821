-------------------------- MODULE LogFollow_proofs --------------------------
(***************************************************************************)
(* Proofs about what redo-log prints of the logs a build writes, for every *)
(* set of targets, every script and every mode of redo-log.                *)
(***************************************************************************)
EXTENDS LogFollow, SequenceTheorems, TLAPS

Asked   == {"no", "locked", "waiting", "again", "pool", "forking", "running", "over"}
Logs    == Seq(Seq(Line))
Catlog  == [t : Commands, file : Nat, pos : Nat, saw : BOOLEAN, grace : BOOLEAN,
            pc : {"read", "eof", "probe"}]
Readers == [on : BOOLEAN, quiet : BOOLEAN, stack : Seq(Catlog), already : SUBSET Commands,
            shown : [Commands -> Seq(Line)]]

(* s is the beginning of u. *)
Begins(s, u) == Len(s) <= Len(u) /\ \A i \in 1..Len(s) : s[i] = u[i]

-----------------------------------------------------------------------------
(* The build. *)
BuildTypes ==
    /\ setup \in Setups
    /\ lock \in [Target -> Commands \cup {Reader, None}]
    /\ ask \in [Commands -> [Target -> Asked]]
    /\ at \in [Commands -> Nat]
    /\ log \in [Commands -> Logs]

(* The newest log of p names c. *)
Names(s, c)  == \E i \in 1..Len(s) : s[i].kind \in Follows /\ s[i].of = c
Naming(p, c) == Names(Last(log[p]), c)

(* Where a script is, and that its log names all it has asked for so far. *)
Stage(p) ==
    /\ at[p] <= Len(Script[p]) + 1
    /\ at[p] # 0 => log[p] # <<>>
    /\ \A c \in Target : ask[p][c] # "no" => Doing(p) /\ c \in Item(p) /\ Naming(p, c)
    /\ \A c \in Target : ask[p][c] \in {"forking", "running"} => lock[c] = p
    /\ at[p] # 0 => \A k \in 1..(at[p] - 1) : \A c \in Script[p][k] : Naming(p, c)

(* A script that runs was started by somebody, in the end by the toplevel  *)
(* command: no set of targets was started by its own members.              *)
Started(c) == Doing(c) => \E p \in Commands : ask[p][c] = "running"
Grounded ==
    \A S \in SUBSET Target : S # {} => \E c \in S : \A p \in S : ask[p][c] # "running"

BuildInv ==
    /\ BuildTypes /\ at[Top] # 0
    /\ \A p \in Commands : Stage(p)
    /\ \A c \in Target : Started(c)
    /\ Grounded

(* Who is named has a row that others can see, or is new and in the hands  *)
(* of the toplevel command, which has yet to commit.                       *)
Fresh   == {c \in Target : ask[Top][c] \in {"forking", "pool"}}
Told(w) == \A i \in 1..Len(w) : w[i].kind \in Follows => w[i].of \in known \cup Fresh
Recorded ==
    /\ built \subseteq known /\ known \subseteq Target
    /\ \A c \in Target : lock[c] # None => c \in known \cup Fresh
    /\ \A p \in Commands : \A c \in Target : ask[p][c] # "no" => c \in known \/ (p = Top /\ c \in Fresh)
    /\ \A p \in Commands : \A g \in 1..Len(log[p]) : Told(log[p][g])

(* What a step of the build may do to the logs. *)
Grown ==
    /\ log' \in [Commands -> Logs]
    /\ \A p \in Commands : Len(log[p]) <= Len(log'[p])
    /\ \A p \in Commands : \A g \in 1..Len(log[p]) : Begins(log[p][g], log'[p][g])

(* p writes to its newest log. *)
Wrote(p) ==
    /\ log' \in [Commands -> Logs]
    /\ \A q \in Commands \ {p} : log'[q] = log[q]
    /\ Len(log'[p]) = Len(log[p])
    /\ \A g \in 1..Len(log[p]) : Begins(log[p][g], log'[p][g])

-----------------------------------------------------------------------------
(* redo-log. *)

(* A frame has printed the beginning of the file it has open; no other     *)
(* frame is about its target; is_locked's lock is its own.                 *)
FrameOK(f) ==
    /\ f.t \in reader.already
    /\ f.file = 0 => f.t \in Target /\ reader.shown[f.t] = <<>> /\ f.pos = 0
    /\ f.file # 0 => /\ f.file \in 1..Len(log[f.t])
                     /\ f.pos = Len(reader.shown[f.t])
                     /\ Begins(reader.shown[f.t], log[f.t][f.file])
    /\ f.t = Top \/ setup.mode = "cat" => f.pc = "read"
    /\ f.pc = "probe" => lock[f.t] = Reader
    /\ f.file # 0 \/ f.pc # "read" => f.t = Top \/ f.t \in known
Stack == \A i \in 1..Len(reader.stack) : FrameOK(reader.stack[i])
Apart == \A i, j \in 1..Len(reader.stack) : reader.stack[i].t = reader.stack[j].t => i = j

(* Whatever is printed of p is the beginning of one log of p, for good. *)
Printed(p) == \/ reader.shown[p] = <<>>
              \/ p \in reader.already /\ \E g \in 1..Len(log[p]) : Begins(reader.shown[p], log[p][g])

ReadInv ==
    /\ reader \in Readers
    /\ ~reader.on => reader.stack = <<>> /\ \A p \in Commands : reader.shown[p] = <<>>
    /\ Stack /\ Apart
    /\ \A p \in Commands : Printed(p)

(* redo-log after the build: it reads the newest logs to their ends and    *)
(* goes wherever they lead.                                                *)
Whole ==
    /\ Root \in reader.already /\ reader.already \subseteq Target /\ reader.already \subseteq known
    /\ \A i \in 1..Len(reader.stack) :
         reader.stack[i].file # 0 => reader.stack[i].file = Len(log[reader.stack[i].t])
    /\ \A t \in reader.already :
         \/ log[t] = <<>> \/ reader.shown[t] = Last(log[t])
         \/ \E i \in 1..Len(reader.stack) : reader.stack[i].t = t
    /\ \A p \in Commands : \A i \in 1..Len(reader.shown[p]) :
         reader.shown[p][i].kind \in Follows => reader.shown[p][i].of \in reader.already
Quiet == reader.on /\ reader.quiet => Over /\ (setup.mode = "cat" => Whole)

LogInv == BuildInv /\ ReadInv /\ Quiet

-----------------------------------------------------------------------------
(* Sequences. *)
LEMMA SetupTypes ==
    ASSUME setup \in Setups
    PROVE  /\ setup.mode \in {"pipe", "follow", "cat"}
           /\ Script \in [Commands -> Seq(SUBSET Target)]
           /\ Len(Script[Top]) >= 1 /\ Root \in Target
           /\ setup.old \in [Target -> Seq(Line)]
           /\ Top \in Commands /\ Top \notin Target
           /\ Reader \notin Commands /\ None \notin Commands /\ Reader # None
<1>1. /\ setup.mode \in {"pipe", "follow", "cat"}
      /\ Script \in [Commands -> Seq(SUBSET Target)]
      /\ Script[Top] # <<>> /\ Script[Top][1] # {}
      /\ setup.old \in [Target -> Seq(Line)]
  BY LogAssumption DEF Script, Commands
<1>2. /\ Top \in Commands /\ Top \notin Target
      /\ Reader \notin Commands /\ None \notin Commands /\ Reader # None
  BY LogAssumption DEF Commands
<1>3. Script[Top] \in Seq(SUBSET Target)
  BY <1>1, <1>2
<1>4. Len(Script[Top]) >= 1
  BY <1>1, <1>3, EmptySeq
<1>5. Script[Top][1] \in SUBSET Target
  BY <1>3, <1>4
<1>6. \E t \in Target : t \in Script[Top][1]
  BY <1>1, <1>5
<1>7. Root \in Target
  BY <1>6 DEF Root
<1> QED BY <1>1, <1>2, <1>4, <1>7

LEMMA BeginsTransitive ==
    ASSUME NEW s \in Seq(Line), NEW u \in Seq(Line), NEW v \in Seq(Line), Begins(s, u), Begins(u, v)
    PROVE  Begins(s, v)
BY DEF Begins

LEMMA BeginsItself ==
    ASSUME NEW s \in Seq(Line) PROVE Begins(s, s)
BY DEF Begins

LEMMA BeginsPrefix ==
    ASSUME NEW s \in Seq(Line), NEW u \in Seq(Line), Begins(s, u)
    PROVE  IsPrefix(s, u)
<1>1. Len(s) \in Nat /\ Len(u) \in Nat /\ Len(s) <= Len(u)
  BY DEF Begins
<1>2. \A i \in 1..Len(s) : u[i] \in Line
  BY <1>1
<1>3. /\ SubSeq(u, 1, Len(s)) \in Seq(Line)
      /\ Len(SubSeq(u, 1, Len(s))) = IF 1 <= Len(s) THEN Len(s) - 1 + 1 ELSE 0
      /\ \A i \in 1..(Len(s) - 1 + 1) : SubSeq(u, 1, Len(s))[i] = u[1 + i - 1]
  BY <1>1, <1>2, SubSeqProperties
<1>4. Len(SubSeq(u, 1, Len(s))) = Len(s) /\ \A i \in 1..Len(s) : SubSeq(u, 1, Len(s))[i] = s[i]
  BY <1>1, <1>3 DEF Begins
<1>5. SubSeq(u, 1, Len(s)) = s
  BY <1>3, <1>4, SeqEqual
<1> QED BY <1>1, <1>5, SubSeqFull DEF IsPrefix

(* What is named stays named when a log grows. *)
LEMMA NamesStay ==
    ASSUME NEW s \in Seq(Line), NEW u \in Seq(Line), Begins(s, u), NEW c, Names(s, c)
    PROVE  Names(u, c)
BY DEF Begins, Names

LEMMA NewestLog ==
    ASSUME NEW w \in Logs, w # <<>>
    PROVE  Len(w) \in Nat \ {0} /\ Len(w) \in 1..Len(w) /\ Last(w) = w[Len(w)] /\ Last(w) \in Seq(Line)
<1>1. Len(w) \in Nat \ {0}
  BY EmptySeq DEF Logs
<1>2. w[Len(w)] \in Seq(Line)
  BY <1>1 DEF Logs
<1> QED BY <1>1, <1>2 DEF Last

LEMMA EmitWrites ==
    ASSUME log \in [Commands -> Logs], NEW p \in Commands, log[p] # <<>>,
           NEW lines \in Seq(Line), Emit(p, lines)
    PROVE  /\ Wrote(p)
           /\ \A c : Names(lines, c) => Naming(p, c)'
<1>1. PICK w \in Logs : w = log[p]
  OBVIOUS
<1>2. Len(w) \in Nat \ {0} /\ Len(w) \in 1..Len(w) /\ Last(w) = w[Len(w)] /\ Last(w) \in Seq(Line)
  BY <1>1, NewestLog
<1>3. PICK x \in Seq(Line) : x = w[Len(w)] \o lines
  <2>1. w[Len(w)] \o lines \in Seq(Line)
    BY <1>2, ConcatProperties
  <2> QED BY <2>1
<1>4. /\ Len(x) = Len(w[Len(w)]) + Len(lines)
      /\ \A i \in 1..Len(w[Len(w)]) : x[i] = w[Len(w)][i]
      /\ \A i \in 1..Len(lines) : x[Len(w[Len(w)]) + i] = lines[i]
  BY <1>2, <1>3
<1>5. PICK v \in Logs : v = [w EXCEPT ![Len(w)] = x]
  <2>1. [w EXCEPT ![Len(w)] = x] \in Seq(Seq(Line))
    BY <1>2, ExceptSeq DEF Logs
  <2> QED BY <2>1 DEF Logs
<1>6. Len(v) = Len(w) /\ v[Len(w)] = x /\ \A g \in 1..Len(w) : g # Len(w) => v[g] = w[g]
  BY <1>2, <1>5 DEF Logs
<1>7. log' = [log EXCEPT ![p] = v]
  BY <1>1, <1>3, <1>5 DEF Emit
<1>8. log'[p] = v /\ log' \in [Commands -> Logs] /\ \A q \in Commands \ {p} : log'[q] = log[q]
  BY <1>7
<1>9. ASSUME NEW g \in 1..Len(w) PROVE Begins(w[g], v[g])
  <2>1. CASE g = Len(w)
    BY <1>2, <1>4, <1>6, <2>1 DEF Begins
  <2>2. CASE g # Len(w)
    BY <1>6, <2>2, BeginsItself DEF Logs
  <2> QED BY <2>1, <2>2
<1>10. Wrote(p)
  BY <1>1, <1>6, <1>8, <1>9 DEF Wrote
<1>11. ASSUME NEW c, Names(lines, c) PROVE Naming(p, c)'
  <2>1. PICK i \in 1..Len(lines) : lines[i].kind \in Follows /\ lines[i].of = c
    BY <1>11 DEF Names
  <2>2. Last(log'[p]) = x
    BY <1>6, <1>8 DEF Last
  <2>3. Len(w[Len(w)]) + i \in 1..Len(x) /\ x[Len(w[Len(w)]) + i] = lines[i]
    BY <1>2, <1>4
  <2>4. Names(x, c)
    BY <2>1, <2>3 DEF Names
  <2> QED BY <2>2, <2>4 DEF Naming
<1> QED BY <1>10, <1>11

-----------------------------------------------------------------------------
(* The steps of the build. *)
LEMMA WroteGrows ==
    ASSUME log \in [Commands -> Logs], NEW p \in Commands, Wrote(p)
    PROVE  Grown
<1>1. ASSUME NEW q \in Commands, q # p, NEW g \in 1..Len(log[q]) PROVE Begins(log[q][g], log'[q][g])
  <2>1. log'[q] = log[q] /\ log[q][g] \in Seq(Line)
    BY <1>1 DEF Wrote, Logs
  <2> QED BY <2>1, BeginsItself
<1>2. \A q \in Commands : Len(log[q]) <= Len(log'[q])
  <2>1. \A q \in Commands : Len(log[q]) \in Nat
    BY DEF Logs
  <2> QED BY <2>1 DEF Wrote
<1> QED BY <1>1, <1>2 DEF Grown, Wrote

(* What p's log names is named after p has written. *)
LEMMA WroteNames ==
    ASSUME log \in [Commands -> Logs], NEW p \in Commands, Wrote(p), log[p] # <<>>
    PROVE  log'[p] # <<>> /\ \A c : Naming(p, c) => Naming(p, c)'
<1>1. log[p] \in Logs /\ log'[p] \in Logs /\ Len(log'[p]) = Len(log[p])
  BY DEF Wrote
<1>2. Len(log[p]) \in Nat \ {0} /\ Len(log[p]) \in 1..Len(log[p])
      /\ Last(log[p]) = log[p][Len(log[p])] /\ Last(log[p]) \in Seq(Line)
  BY <1>1, NewestLog
<1>3. log'[p] # <<>>
  <2>1. Len(<<>>) = 0
    BY EmptySeq
  <2> QED BY <1>1, <1>2, <2>1
<1>4. Last(log'[p]) = log'[p][Len(log'[p])] /\ Last(log'[p]) \in Seq(Line)
  BY <1>1, <1>3, NewestLog
<1>5. Begins(Last(log[p]), Last(log'[p]))
  BY <1>1, <1>2, <1>4 DEF Wrote
<1>6. ASSUME NEW c, Naming(p, c) PROVE Naming(p, c)'
  <2>1. Names(Last(log'[p]), c)
    BY <1>2, <1>4, <1>5, <1>6, NamesStay DEF Naming
  <2> QED BY <2>1 DEF Naming
<1> QED BY <1>3, <1>6

(* Everything about a process that a step leaves alone. *)
LEMMA StageElsewhere ==
    ASSUME BuildTypes, NEW q \in Commands, Stage(q), setup' = setup,
           log'[q] = log[q], ask'[q] = ask[q], at'[q] = at[q],
           \A d \in Target : lock[d] = q => lock'[d] = q
    PROVE  Stage(q)'
BY DEF Stage, Doing, Item, Script, Naming

(* p goes on with its dependency c: it writes to its log, takes the lock   *)
(* when it is about to fork, and unlocks when it was.                      *)
LEMMA AskStep ==
    ASSUME BuildInv, NEW p \in Commands, NEW c \in Target, NEW s \in Asked \ {"no", "running"},
           Doing(p), c \in Item(p), Now(p, c, s), at' = at, setup' = setup,
           Wrote(p), Naming(p, c)',
           ask[p][c] = "running" => ~Doing(c),
           lock' \in [Target -> Commands \cup {Reader, None}],
           \A d \in Target \ {c} : lock'[d] = lock[d],
           s = "forking" => lock'[c] = p,
           lock'[c] = lock[c] \/ lock[c] = None \/ lock[c] = p
    PROVE  BuildInv'
<1>1. /\ BuildTypes /\ Stage(p) /\ log[p] # <<>> /\ at[p] # 0
      /\ None \notin Commands
  BY SetupTypes DEF BuildInv, BuildTypes, Stage, Doing
<1>2. /\ ask' \in [Commands -> [Target -> Asked]]
      /\ ask'[p][c] = s /\ \A d \in Target \ {c} : ask'[p][d] = ask[p][d]
      /\ \A q \in Commands \ {p} : ask'[q] = ask[q]
  BY <1>1 DEF BuildTypes, Now
<1>3. BuildTypes'
  BY <1>1, <1>2 DEF BuildTypes, Wrote
<1>4. \A d : Naming(p, d) => Naming(p, d)'
  BY <1>1, WroteNames DEF BuildTypes
<1>5. log'[p] # <<>>
  BY <1>1, WroteNames DEF BuildTypes
<1>6. ASSUME NEW q \in Commands, q # p PROVE Stage(q)'
  <2>1. log'[q] = log[q] /\ ask'[q] = ask[q] /\ at'[q] = at[q] /\ Stage(q)
    BY <1>2, <1>6 DEF Wrote, BuildInv
  <2>2. \A d \in Target : lock[d] = q => lock'[d] = q
    BY <1>1, <1>6
  <2> QED BY <1>1, <2>1, <2>2, StageElsewhere
<1>7. Stage(p)'
  <2>1. Script' = Script /\ Doing(p)' /\ Item(p)' = Item(p)
    BY DEF Script, Doing, Item
  <2>2. \A d \in Target : ask'[p][d] # "no" => d \in Item(p) /\ Naming(p, d)'
    BY <1>1, <1>2, <1>4 DEF Stage
  <2>3. \A d \in Target : ask'[p][d] \in {"forking", "running"} => lock'[d] = p
    BY <1>1, <1>2 DEF Stage
  <2>4. \A k \in 1..(at[p] - 1) : \A d \in Script[p][k] : Naming(p, d)'
    BY <1>1, <1>4 DEF Stage
  <2>5. at[p] <= Len(Script[p]) + 1
    BY <1>1 DEF Stage
  <2> QED BY <1>1, <1>5, <2>1, <2>2, <2>3, <2>4, <2>5 DEF Stage
<1>8. ASSUME NEW d \in Target PROVE Started(d)'
  <2>1. Doing(d)' <=> Doing(d)
    BY DEF Doing, Script
  <2>2. SUFFICES ASSUME Doing(d) PROVE \E q \in Commands : ask'[q][d] = "running"
    BY <2>1 DEF Started
  <2>3. PICK q \in Commands : ask[q][d] = "running"
    BY <2>2 DEF BuildInv, Started
  <2>4. ask'[q][d] = "running"
    BY <1>2, <2>2, <2>3
  <2> QED BY <2>4
<1>9. Grounded'
  <2>1. \A q \in Commands, d \in Target : ask'[q][d] = "running" => ask[q][d] = "running"
    BY <1>2
  <2>2. Target \subseteq Commands
    BY DEF Commands
  <2> QED BY <2>1, <2>2 DEF BuildInv, Grounded
<1> QED BY <1>3, <1>6, <1>7, <1>8, <1>9 DEF BuildInv

(* What every step of the build keeps. *)
Kept == BuildInv' /\ Grown /\ \A t \in Target : lock[t] = Reader => lock'[t] = Reader

LEMMA MetaLine ==
    ASSUME NEW c \in Target, NEW k \in Follows \cup {"done"}, NEW lines \in Seq(Line)
    PROVE  /\ <<Meta(k, c)>> \in Seq(Line) /\ Append(lines, Meta(k, c)) \in Seq(Line)
           /\ k \in Follows => Names(<<Meta(k, c)>>, c) /\ Names(Append(lines, Meta(k, c)), c)
<1>1. PICK m \in Line : m = Meta(k, c)
  BY DEF Meta, Line
<1>2. m.kind = k /\ m.of = c
  BY <1>1 DEF Meta
<1>3. <<m>> \in Seq(Line) /\ Len(<<m>>) = 1 /\ <<m>>[1] = m
  OBVIOUS
<1>4. /\ Append(lines, m) \in Seq(Line) /\ Len(Append(lines, m)) = Len(lines) + 1
      /\ Append(lines, m)[Len(lines) + 1] = m
  BY AppendProperties
<1>5. k \in Follows => Names(<<m>>, c)
  BY <1>2, <1>3 DEF Names
<1>6. k \in Follows => Names(Append(lines, m), c)
  <2>1. Len(lines) \in Nat
    OBVIOUS
  <2>2. Len(lines) + 1 \in 1..Len(Append(lines, m))
    BY <1>4, <2>1
  <2> QED BY <1>2, <1>4, <2>2 DEF Names
<1> QED BY <1>1, <1>3, <1>4, <1>5, <1>6

LEMMA AskKeeps ==
    ASSUME BuildInv, NEW p \in Commands, NEW c \in Target, NEW s \in Asked \ {"no", "running"},
           Doing(p), c \in Item(p), Now(p, c, s), at' = at, setup' = setup,
           Wrote(p), Naming(p, c)',
           ask[p][c] = "running" => ~Doing(c),
           \/ UNCHANGED lock /\ s # "forking"
           \/ Take(p, c) /\ lock[c] = None
           \/ Unlock(c) /\ lock[c] = p /\ s # "forking"
    PROVE  Kept
<1>1. BuildTypes /\ Reader \notin Commands /\ None \notin Commands /\ Reader # None
  BY SetupTypes DEF BuildInv, BuildTypes
<1>2. /\ lock' \in [Target -> Commands \cup {Reader, None}]
      /\ \A d \in Target \ {c} : lock'[d] = lock[d]
      /\ s = "forking" => lock'[c] = p
      /\ lock'[c] = lock[c] \/ lock[c] = None \/ lock[c] = p
  <2>1. CASE UNCHANGED lock /\ s # "forking"
    BY <1>1, <2>1 DEF BuildTypes
  <2>2. CASE Take(p, c) /\ lock[c] = None
    BY <1>1, <2>2 DEF BuildTypes, Take
  <2>3. CASE Unlock(c) /\ lock[c] = p /\ s # "forking"
    BY <1>1, <2>3 DEF BuildTypes, Unlock
  <2> QED BY <2>1, <2>2, <2>3
<1>3. BuildInv'
  BY <1>2, AskStep
<1>4. Grown
  BY <1>1, WroteGrows DEF BuildTypes
<1>5. \A t \in Target : lock[t] = Reader => lock'[t] = Reader
  BY <1>1, <1>2
<1> QED BY <1>3, <1>4, <1>5 DEF Kept

LEMMA ConsiderKeeps ==
    ASSUME BuildInv, NEW p \in Commands, NEW c \in Target, NEW lines \in Seq(Line),
           Doing(p), c \in Item(p), lock[c] = None, ask[p][c] # "running",
           Consider(p, c, lines), at' = at, setup' = setup
    PROVE  Kept
<1>1. BuildTypes /\ log[p] # <<>>
  BY DEF BuildInv, Stage, Doing
<1>2. CASE c \in built
  <2>1. /\ Emit(p, Append(lines, Meta("unchanged", c))) /\ Now(p, c, "over") /\ UNCHANGED lock
    BY <1>2 DEF Consider
  <2>2. /\ Append(lines, Meta("unchanged", c)) \in Seq(Line)
        /\ Names(Append(lines, Meta("unchanged", c)), c)
    BY MetaLine DEF Follows
  <2>3. Wrote(p) /\ Naming(p, c)'
    BY <1>1, <2>1, <2>2, EmitWrites DEF BuildTypes
  <2> QED BY <2>1, <2>3, AskKeeps DEF Asked
<1>3. CASE c \notin built
  <2>1. /\ Emit(p, Append(lines, Meta("do", c))) /\ Now(p, c, "forking") /\ Take(p, c)
    BY <1>3 DEF Consider
  <2>2. Append(lines, Meta("do", c)) \in Seq(Line) /\ Names(Append(lines, Meta("do", c)), c)
    BY MetaLine DEF Follows
  <2>3. Wrote(p) /\ Naming(p, c)'
    BY <1>1, <2>1, <2>2, EmitWrites DEF BuildTypes
  <2> QED BY <2>1, <2>3, AskKeeps DEF Asked
<1> QED BY <1>2, <1>3

(* A command that says it met a lock. *)
LEMMA LockedKeeps ==
    ASSUME BuildInv, NEW p \in Commands, NEW c \in Target, NEW s \in {"locked", "pool", "over"},
           NEW k \in Follows \cup {"done"},
           Doing(p), c \in Item(p), k \in Follows \/ ask[p][c] # "no",
           ask[p][c] = "running" => ~Doing(c),
           Emit(p, <<Meta(k, c)>>), Now(p, c, s),
           UNCHANGED lock \/ (Unlock(c) /\ lock[c] = p), at' = at, setup' = setup
    PROVE  Kept
<1>1. BuildTypes /\ log[p] # <<>> /\ Stage(p)
  BY DEF BuildInv, Stage, Doing
<1>2. <<Meta(k, c)>> \in Seq(Line) /\ (k \in Follows => Names(<<Meta(k, c)>>, c))
  <2>1. <<>> \in Seq(Line)
    OBVIOUS
  <2> QED BY <2>1, MetaLine
<1>3. Wrote(p) /\ (k \in Follows => Naming(p, c)')
  BY <1>1, <1>2, EmitWrites DEF BuildTypes
<1>4. Naming(p, c)'
  <2>1. CASE k \in Follows
    BY <1>3, <2>1
  <2>2. CASE ask[p][c] # "no"
    BY <1>1, <1>3, <2>2, WroteNames DEF Stage, BuildTypes
  <2> QED BY <2>1, <2>2
<1>5. s \in Asked \ {"no", "running"} /\ s # "forking"
  BY DEF Asked
<1> QED BY <1>3, <1>4, <1>5, AskKeeps

LEMMA FirstPassKeeps ==
    ASSUME BuildInv, NEW p \in Commands, NEW c \in Target, FirstPass(p, c) \/ PoolPass(p, c)
    PROVE  Kept
<1>1. /\ Doing(p) /\ c \in Item(p) /\ ask[p][c] \in {"no", "pool"} /\ at' = at /\ setup' = setup
      /\ IF lock[c] = None THEN Consider(p, c, <<>>)
         ELSE Emit(p, <<Meta("locked", c)>>) /\ Now(p, c, "locked") /\ UNCHANGED lock
  <2>1. ask[p][c] # "no" => c \in Item(p)
    BY DEF BuildInv, Stage
  <2> QED BY <2>1 DEF FirstPass, PoolPass, Is
<1>2. CASE lock[c] = None
  <2>1. <<>> \in Seq(Line)
    OBVIOUS
  <2> QED BY <1>1, <1>2, <2>1, ConsiderKeeps
<1>3. CASE lock[c] # None
  BY <1>1, <1>3, LockedKeeps DEF Follows
<1> QED BY <1>2, <1>3

LEMMA SecondPassKeeps ==
    ASSUME BuildInv, NEW p \in Commands, NEW c \in Target, SecondPass(p, c)
    PROVE  Kept
<1>1. Doing(p) /\ at' = at /\ setup' = setup /\ ask[p][c] \in {"locked", "waiting", "again"}
  BY DEF SecondPass
<1>2. c \in Item(p) /\ Naming(p, c) /\ log[p] # <<>> /\ BuildTypes
  BY <1>1 DEF BuildInv, Stage, Doing
<1>3. <<>> \in Seq(Line)
  OBVIOUS
<1>4. CASE lock[c] = None /\ Consider(p, c, <<Meta("unlocked", c)>>)
  <2>1. <<Meta("unlocked", c)>> \in Seq(Line)
    BY <1>3, MetaLine DEF Follows
  <2> QED BY <1>1, <1>2, <1>4, <2>1, ConsiderKeeps
<1>5. CASE Emit(p, WaitLine(p, c)) /\ Now(p, c, "waiting") /\ UNCHANGED lock
  <2>1. WaitLine(p, c) \in Seq(Line)
    BY <1>3, MetaLine DEF WaitLine, Follows
  <2>2. Wrote(p)
    BY <1>2, <1>5, <2>1, EmitWrites DEF BuildTypes
  <2>3. Naming(p, c)'
    BY <1>2, <2>2, WroteNames DEF BuildTypes
  <2> QED BY <1>1, <1>2, <1>5, <2>2, <2>3, AskKeeps DEF Asked
<1>6. CASE Now(p, c, "again") /\ UNCHANGED <<lock, log>>
  <2>1. \A g \in 1..Len(log[p]) : log[p][g] \in Seq(Line)
    BY <1>2 DEF BuildTypes, Logs
  <2>2. \A g \in 1..Len(log[p]) : Begins(log[p][g], log[p][g])
    BY <2>1, BeginsItself
  <2>3. Wrote(p)
    BY <1>2, <1>6, <2>2 DEF Wrote, BuildTypes
  <2>4. Naming(p, c)'
    BY <1>2, <1>6 DEF Naming
  <2> QED BY <1>1, <1>2, <1>6, <2>3, <2>4, AskKeeps DEF Asked
<1> QED BY <1>4, <1>5, <1>6 DEF SecondPass

LEMMA EndKeeps ==
    ASSUME BuildInv, NEW p \in Commands, NEW c \in Target,
           Defer(p, c) \/ Hit(p, c) \/ Finish(p, c)
    PROVE  Kept
<1>1. ask[p][c] \in {"forking", "running"} /\ at' = at /\ setup' = setup /\ Unlock(c)
  BY DEF Defer, Hit, Finish
<1>2. BuildTypes /\ Doing(p) /\ c \in Item(p) /\ lock[c] = p
  BY <1>1 DEF BuildInv, Stage
<1>3. CASE Defer(p, c)
  BY <1>1, <1>2, <1>3, LockedKeeps DEF Defer, Follows
<1>4. CASE Hit(p, c)
  BY <1>1, <1>2, <1>4, LockedKeeps DEF Hit
<1>5. CASE Finish(p, c)
  <2>1. ~Doing(c)
    <3>1. c \in Commands
      BY DEF Commands
    <3>2. Script[c] \in Seq(SUBSET Target)
      BY <1>2, <3>1, SetupTypes DEF BuildTypes
    <3>3. Len(Script[c]) \in Nat
      BY <3>2
    <3> QED BY <1>5, <3>3 DEF Finish, Doing
  <2> QED BY <1>1, <1>2, <1>5, <2>1, LockedKeeps DEF Finish
<1> QED BY <1>3, <1>4, <1>5

(* The script prints a line. *)
LEMMA WriteLineKeeps ==
    ASSUME BuildInv, NEW p \in Commands, WriteLine(p)
    PROVE  Kept
<1>1. /\ BuildTypes /\ Stage(p) /\ Doing(p) /\ Item(p) = {} /\ log[p] # <<>> /\ at[p] # 0
      /\ setup' = setup /\ ask' = ask /\ lock' = lock
  BY DEF BuildInv, WriteLine, Stage, Doing
<1>2. /\ at' \in [Commands -> Nat] /\ at'[p] = at[p] + 1
      /\ \A q \in Commands \ {p} : at'[q] = at[q]
  BY <1>1 DEF WriteLine, BuildTypes
<1>3. Wrote(p)
  <2>1. Say(1, at[p]) \in Line
    BY <1>1 DEF Say, Line, BuildTypes
  <2>2. <<Say(1, at[p])>> \in Seq(Line)
    BY <2>1
  <2> QED BY <1>1, <2>2, EmitWrites DEF WriteLine, BuildTypes
<1>4. BuildTypes'
  BY <1>1, <1>2, <1>3 DEF BuildTypes, Wrote
<1>5. log'[p] # <<>> /\ \A d : Naming(p, d) => Naming(p, d)'
  BY <1>1, <1>3, WroteNames DEF BuildTypes
<1>6. Script[p] \in Seq(SUBSET Target) /\ Script' = Script
  BY <1>1, SetupTypes DEF BuildTypes, Script
<1>7. Len(Script[p]) \in Nat /\ at[p] \in Nat /\ at[p] <= Len(Script[p])
  BY <1>1, <1>6 DEF BuildTypes, Doing
<1>8. Stage(p)'
  <2>1. \A d \in Target : ask[p][d] = "no"
    BY <1>1 DEF Stage
  <2>2. \A k \in 1..(at'[p] - 1) : k = at[p] \/ k \in 1..(at[p] - 1)
    BY <1>2, <1>7
  <2>3. \A k \in 1..(at'[p] - 1) : \A d \in Script[p][k] : Naming(p, d)'
    BY <1>1, <1>5, <2>2 DEF Stage, Item
  <2>4. at'[p] # 0 /\ at'[p] <= Len(Script[p]) + 1
    BY <1>2, <1>7
  <2> QED BY <1>1, <1>5, <1>6, <2>1, <2>3, <2>4 DEF Stage
<1>9. ASSUME NEW q \in Commands, q # p PROVE Stage(q)'
  <2>1. log'[q] = log[q] /\ ask'[q] = ask[q] /\ at'[q] = at[q] /\ Stage(q)
    BY <1>1, <1>2, <1>3, <1>9 DEF Wrote, BuildInv
  <2> QED BY <1>1, <2>1, StageElsewhere
<1>10. ASSUME NEW d \in Target PROVE Started(d)'
  <2>1. d \in Commands
    BY DEF Commands
  <2>2. Doing(d)' => Doing(d)
    BY <1>1, <1>2, <1>6, <2>1 DEF Doing
  <2> QED BY <1>1, <2>2 DEF Started, BuildInv
<1>11. Grounded' /\ at'[Top] # 0
  <2>1. at'[Top] # 0
    <3>1. Top \in Commands
      BY DEF Commands
    <3> QED BY <1>2, <1>7, <3>1 DEF BuildInv
  <2> QED BY <1>1, <2>1 DEF BuildInv, Grounded
<1>12. BuildInv'
  BY <1>4, <1>8, <1>9, <1>10, <1>11 DEF BuildInv
<1> QED BY <1>1, <1>3, <1>12, WroteGrows DEF Kept, BuildTypes

LEMMA SameLogs ==
    ASSUME BuildTypes, log' = log PROVE Grown
<1>1. \A q \in Commands : \A g \in 1..Len(log[q]) : log[q][g] \in Seq(Line)
  BY DEF BuildTypes, Logs
<1>2. \A q \in Commands : Len(log[q]) \in Nat
  BY DEF BuildTypes, Logs
<1> QED BY <1>1, <1>2, BeginsItself DEF Grown, BuildTypes

(* redo-ifchange returns: its log names all of the item. *)
LEMMA ReturnKeeps ==
    ASSUME BuildInv, NEW p \in Commands, Return(p)
    PROVE  Kept
<1>1. /\ BuildTypes /\ Stage(p) /\ Doing(p) /\ log[p] # <<>> /\ at[p] # 0
      /\ \A c \in Item(p) : ask[p][c] = "over"
      /\ setup' = setup /\ log' = log /\ lock' = lock
  BY DEF BuildInv, Return, Stage, Doing
<1>2. /\ at' \in [Commands -> Nat] /\ at'[p] = at[p] + 1
      /\ \A q \in Commands \ {p} : at'[q] = at[q]
  BY <1>1 DEF Return, BuildTypes
<1>3. /\ ask' \in [Commands -> [Target -> Asked]] /\ \A c \in Target : ask'[p][c] = "no"
      /\ \A q \in Commands \ {p} : ask'[q] = ask[q]
  BY <1>1 DEF Return, BuildTypes, Asked
<1>4. BuildTypes'
  BY <1>1, <1>2, <1>3 DEF BuildTypes
<1>5. Script[p] \in Seq(SUBSET Target) /\ Script' = Script
  BY <1>1, SetupTypes DEF BuildTypes, Script
<1>6. Len(Script[p]) \in Nat /\ at[p] \in Nat /\ at[p] <= Len(Script[p])
  BY <1>1, <1>5 DEF BuildTypes, Doing
<1>7. Item(p) \subseteq Target
  BY <1>1, <1>5, <1>6 DEF Item
<1>8. Stage(p)'
  <2>1. \A d \in Item(p) : Naming(p, d)
    BY <1>1, <1>7 DEF Stage
  <2>2. \A k \in 1..(at'[p] - 1) : k = at[p] \/ k \in 1..(at[p] - 1)
    BY <1>2, <1>6
  <2>3. \A k \in 1..(at'[p] - 1) : \A d \in Script[p][k] : Naming(p, d)
    BY <1>1, <2>1, <2>2 DEF Stage, Item
  <2>4. \A k \in 1..(at'[p] - 1) : \A d \in Script[p][k] : Naming(p, d)'
    BY <1>1, <2>3 DEF Naming
  <2>5. at'[p] # 0 /\ at'[p] <= Len(Script[p]) + 1
    BY <1>2, <1>6
  <2> QED BY <1>1, <1>3, <1>5, <2>4, <2>5 DEF Stage
<1>9. ASSUME NEW q \in Commands, q # p PROVE Stage(q)'
  <2>1. log'[q] = log[q] /\ ask'[q] = ask[q] /\ at'[q] = at[q] /\ Stage(q)
    BY <1>1, <1>2, <1>3, <1>9 DEF BuildInv
  <2> QED BY <1>1, <2>1, StageElsewhere
<1>10. ASSUME NEW q \in Commands, NEW d \in Target PROVE ask'[q][d] = "running" <=> ask[q][d] = "running"
  <2>1. CASE q = p
    <3>1. ask[p][d] # "running"
      BY <1>1 DEF Stage
    <3> QED BY <1>3, <2>1, <3>1
  <2>2. CASE q # p
    BY <1>3, <2>2
  <2> QED BY <2>1, <2>2
<1>11. ASSUME NEW d \in Target PROVE Started(d)'
  <2>1. d \in Commands
    BY DEF Commands
  <2>2. Doing(d)' => Doing(d)
    BY <1>1, <1>2, <1>5, <2>1 DEF Doing
  <2> QED BY <1>10, <2>2 DEF Started, BuildInv
<1>12. Grounded'
  <2>1. Target \subseteq Commands
    BY DEF Commands
  <2> QED BY <1>10, <2>1 DEF BuildInv, Grounded
<1>13. at'[Top] # 0
  <2>1. Top \in Commands
    BY DEF Commands
  <2> QED BY <1>2, <1>6, <2>1 DEF BuildInv
<1>14. BuildInv'
  BY <1>4, <1>8, <1>9, <1>11, <1>12, <1>13 DEF BuildInv
<1>15. Grown
  BY <1>1, SameLogs
<1> QED BY <1>1, <1>14, <1>15 DEF Kept

(* Nothing in BuildInv minds what redo-log does to a lock nobody in the    *)
(* build holds.                                                            *)
LEMMA ProbeKeeps ==
    ASSUME BuildInv, UNCHANGED <<ask, at, log, setup>>,
           lock' \in [Target -> Commands \cup {Reader, None}],
           \A t \in Target : lock[t] \in Commands => lock'[t] = lock[t]
    PROVE  BuildInv'
<1>1. BuildTypes'
  BY DEF BuildInv, BuildTypes
<1>2. ASSUME NEW q \in Commands PROVE Stage(q)'
  BY StageElsewhere DEF BuildInv
<1>3. ASSUME NEW d \in Target PROVE Started(d)'
  BY DEF BuildInv, Started, Doing, Script
<1>4. Grounded'
  BY DEF BuildInv, Grounded
<1> QED BY <1>1, <1>2, <1>3, <1>4 DEF BuildInv

(* The script of c does not run when p forks its job. *)
LEMMA ForkKeeps ==
    ASSUME BuildInv, NEW p \in Commands, NEW c \in Target, Fork(p, c)
    PROVE  Kept
<1>1. /\ BuildTypes /\ ask[p][c] = "forking" /\ setup' = setup /\ lock' = lock
      /\ at' = at /\ log' = log /\ c \in Commands
  BY DEF BuildInv, Fork, Commands
<1>2. Stage(p) /\ Stage(c) /\ Doing(p) /\ lock[c] = p
  BY <1>1 DEF BuildInv, Stage
<1>3. ~Doing(c) /\ c # p
  <2>1. ASSUME Doing(c) PROVE FALSE
    <3>1. PICK q \in Commands : ask[q][c] = "running"
      BY <2>1 DEF BuildInv, Started
    <3>2. Stage(q)
      BY DEF BuildInv
    <3>3. lock[c] = q
      BY <3>1, <3>2 DEF Stage
    <3> QED BY <1>1, <1>2, <3>1, <3>3
  <2> QED BY <1>2, <2>1
<1>4. \A d \in Target : ask[c][d] = "no"
  BY <1>2, <1>3 DEF Stage
<1>5. /\ ask' \in [Commands -> [Target -> Asked]]
      /\ ask'[p][c] = "running" /\ \A d \in Target \ {c} : ask'[p][d] = ask[p][d]
      /\ \A q \in Commands \ {p} : ask'[q] = ask[q]
  BY <1>1 DEF Fork, Now, BuildTypes, Asked
<1>6. BuildTypes' /\ Script' = Script
  BY <1>1, <1>5 DEF BuildTypes, Script
<1>7. ASSUME NEW q \in Commands PROVE Stage(q)'
  <2>1. Stage(q)
    BY DEF BuildInv
  <2>2. CASE q # p
    BY <1>1, <1>5, <2>1, <2>2, StageElsewhere
  <2>3. CASE q = p
    <3>1. Doing(p)' /\ Item(p)' = Item(p)
      BY <1>1, <1>2, <1>6 DEF Doing, Item
    <3>2. \A d : Naming(p, d) <=> Naming(p, d)'
      BY <1>1 DEF Naming
    <3>3. \A d \in Target : ask'[p][d] # "no" => d \in Item(p) /\ Naming(p, d)'
      BY <1>1, <1>2, <1>5, <3>2 DEF Stage
    <3>4. \A d \in Target : ask'[p][d] \in {"forking", "running"} => lock'[d] = p
      BY <1>1, <1>2, <1>5 DEF Stage
    <3> QED BY <1>1, <1>2, <1>6, <2>3, <3>1, <3>2, <3>3, <3>4 DEF Stage
  <2> QED BY <2>2, <2>3
<1>8. ASSUME NEW d \in Target PROVE Started(d)'
  <2>1. Doing(d)' => Doing(d)
    BY <1>1, <1>6 DEF Doing
  <2>2. \A q \in Commands : ask[q][d] = "running" => ask'[q][d] = "running"
    BY <1>5
  <2> QED BY <2>1, <2>2 DEF Started, BuildInv
<1>9. Grounded'
  <2>1. SUFFICES ASSUME NEW S \in SUBSET Target, S # {}
                 PROVE  \E d \in S : \A q \in S : ask'[q][d] # "running"
    BY DEF Grounded
  <2>2. Target \subseteq Commands
    BY DEF Commands
  <2>3. \A d \in Target : ask'[c][d] # "running"
    BY <1>1, <1>3, <1>4, <1>5
  <2>4. CASE S \ {c} = {}
    <3>1. S = {c}
      BY <2>1, <2>4
    <3> QED BY <1>1, <2>3, <3>1
  <2>5. CASE S \ {c} # {}
    <3>1. PICK d \in S \ {c} : \A q \in S \ {c} : ask[q][d] # "running"
      <4>1. S \ {c} \in SUBSET Target
        OBVIOUS
      <4> QED BY <2>5, <4>1 DEF BuildInv, Grounded
    <3>2. \A q \in Commands : ask'[q][d] = ask[q][d]
      BY <1>5, <3>1
    <3>3. \A q \in S : ask'[q][d] # "running"
      BY <1>1, <2>2, <2>3, <3>1, <3>2
    <3> QED BY <3>3
  <2> QED BY <2>4, <2>5
<1>10. BuildInv'
  BY <1>1, <1>6, <1>7, <1>8, <1>9 DEF BuildInv
<1>11. Grown
  BY <1>1, SameLogs
<1> QED BY <1>1, <1>10, <1>11 DEF Kept

(* A new log for c, whose script starts. *)
LEMMA ExecDofileKeeps ==
    ASSUME BuildInv, NEW c \in Target, ExecDofile(c)
    PROVE  Kept
<1>1. /\ BuildTypes /\ at[c] = 0 /\ setup' = setup /\ lock' = lock /\ ask' = ask
      /\ c \in Commands /\ Stage(c) /\ ~Doing(c)
  BY DEF BuildInv, ExecDofile, Commands, Doing
<1>2. PICK p \in Commands : ask[p][c] = "running"
  BY DEF ExecDofile
<1>4. \A d \in Target : ask[c][d] = "no"
  BY <1>1 DEF Stage
<1>6. /\ at' \in [Commands -> Nat] /\ at'[c] = 1 /\ \A q \in Commands \ {c} : at'[q] = at[q]
  BY <1>1 DEF ExecDofile, BuildTypes
<1>7. PICK w \in Logs : w = log[c]
  BY <1>1 DEF BuildTypes
<1>8. PICK v \in Logs : v = Append(w, <<>>)
  <2>1. <<>> \in Seq(Line)
    OBVIOUS
  <2> QED BY <2>1, AppendProperties DEF Logs
<1>9. Len(v) = Len(w) + 1 /\ Len(w) \in Nat /\ \A g \in 1..Len(w) : v[g] = w[g] /\ w[g] \in Seq(Line)
  BY <1>8, AppendProperties DEF Logs
<1>10. log' \in [Commands -> Logs] /\ log'[c] = v /\ \A q \in Commands \ {c} : log'[q] = log[q]
  BY <1>1, <1>7, <1>8 DEF ExecDofile, BuildTypes
<1>11. BuildTypes'
  BY <1>1, <1>6, <1>10 DEF BuildTypes
<1>12. Script' = Script /\ Len(Script[c]) \in Nat
  <2>1. Script[c] \in Seq(SUBSET Target)
    BY <1>1, SetupTypes DEF BuildTypes
  <2> QED BY <1>1, <2>1 DEF Script
<1>13. Stage(c)'
  <2>1. log'[c] # <<>>
    <3>1. Len(<<>>) = 0
      BY EmptySeq
    <3> QED BY <1>9, <1>10, <3>1
  <2>3. at'[c] <= Len(Script[c]) + 1 /\ at'[c] - 1 = 0
    BY <1>6, <1>12
  <2>4. \A k \in 1..(at'[c] - 1) : FALSE
    BY <2>3
  <2> QED BY <1>1, <1>4, <1>6, <1>12, <2>1, <2>3, <2>4 DEF Stage
<1>14. ASSUME NEW q \in Commands, q # c PROVE Stage(q)'
  <2>1. log'[q] = log[q] /\ at'[q] = at[q] /\ Stage(q)
    BY <1>6, <1>10, <1>14 DEF BuildInv
  <2> QED BY <1>1, <2>1, StageElsewhere
<1>15. ASSUME NEW d \in Target PROVE Started(d)'
  <2>1. CASE d = c
    BY <1>1, <1>2, <2>1 DEF Started
  <2>2. CASE d # c
    <3>1. d \in Commands
      BY DEF Commands
    <3>2. Doing(d)' => Doing(d)
      BY <1>6, <1>12, <2>2, <3>1 DEF Doing
    <3> QED BY <1>1, <3>2 DEF Started, BuildInv
  <2> QED BY <2>1, <2>2
<1>16. Grounded'
  BY <1>1 DEF BuildInv, Grounded
<1>17. at'[Top] # 0
  <2>1. Top \in Commands /\ Top # c
    BY <1>1, SetupTypes DEF BuildTypes
  <2> QED BY <1>6, <2>1 DEF BuildInv
<1>18. BuildInv'
  BY <1>11, <1>13, <1>14, <1>15, <1>16, <1>17 DEF BuildInv
<1>19. Grown
  <2>1. ASSUME NEW q \in Commands
        PROVE  Len(log[q]) <= Len(log'[q]) /\ \A g \in 1..Len(log[q]) : Begins(log[q][g], log'[q][g])
    <3>1. CASE q = c
      BY <1>7, <1>9, <1>10, <3>1, BeginsItself
    <3>2. CASE q # c
      <4>1. log'[q] = log[q] /\ log[q] \in Logs
        BY <1>1, <1>10, <3>2 DEF BuildTypes
      <4>2. Len(log[q]) \in Nat /\ \A g \in 1..Len(log[q]) : log[q][g] \in Seq(Line)
        BY <4>1 DEF Logs
      <4> QED BY <4>1, <4>2, BeginsItself
    <3> QED BY <3>1, <3>2
  <2> QED BY <1>10, <2>1 DEF Grown
<1> QED BY <1>1, <1>18, <1>19 DEF Kept

LEMMA BuildKeeps ==
    ASSUME BuildInv, NEW p \in Commands, Build(p)
    PROVE  Kept
<1>1. ASSUME NEW c \in Target, Record(p, c) PROVE Kept
  <2>1. UNCHANGED <<lock, ask, at, built, full, log, setup>>
    BY <1>1 DEF Record
  <2> QED BY <2>1, ProbeKeeps, SameLogs DEF Kept, BuildInv, BuildTypes
<1> QED
  BY <1>1, FirstPassKeeps, SecondPassKeeps, EndKeeps, WriteLineKeeps, ReturnKeeps, ForkKeeps,
     ExecDofileKeeps DEF Build

(* When the toplevel command has ended no script runs: a script that runs  *)
(* was started by one that runs.                                           *)
LEMMA NoScriptAfter ==
    ASSUME BuildInv, Over, NEW p \in Commands
    PROVE  ~Doing(p)
<1>1. ~Doing(Top) /\ Top \in Commands
  <2>1. BuildTypes /\ Top \in Commands
    BY DEF BuildInv, Commands
  <2>2. Script[Top] \in Seq(SUBSET Target) /\ at[Top] \in Nat
    BY <2>1, SetupTypes DEF BuildTypes
  <2>3. Len(Script[Top]) \in Nat
    BY <2>2
  <2> QED BY <2>1, <2>2, <2>3 DEF Over, Doing
<1>2. {c \in Target : Doing(c)} = {}
  <2>1. SUFFICES ASSUME {c \in Target : Doing(c)} # {} PROVE FALSE
    OBVIOUS
  <2>2. PICK c \in {d \in Target : Doing(d)} : \A q \in {d \in Target : Doing(d)} : ask[q][c] # "running"
    <3>1. {d \in Target : Doing(d)} \in SUBSET Target
      OBVIOUS
    <3> QED BY <2>1, <3>1 DEF BuildInv, Grounded
  <2>3. PICK q \in Commands : ask[q][c] = "running"
    BY <2>2 DEF BuildInv, Started
  <2>4. Doing(q)
    BY <2>2, <2>3 DEF BuildInv, Stage
  <2> QED BY <1>1, <2>2, <2>3, <2>4 DEF Commands
<1> QED BY <1>1, <1>2 DEF Commands

LEMMA NothingAfter ==
    ASSUME BuildInv, Over, NEW p \in Commands
    PROVE  ~Build(p)
<1>1. ~Doing(p)
  BY NoScriptAfter
<1>2. \A q \in Commands : \A c \in Target : ask[q][c] = "no"
  BY NoScriptAfter DEF BuildInv, Stage
<1> QED
  BY <1>1, <1>2 DEF Build, WriteLine, Return, FirstPass, SecondPass, PoolPass, Record, Defer, Hit,
                    Fork, ExecDofile, Finish

LEMMA BuildCommits ==
    ASSUME NEW p \in Commands, Build(p)
    PROVE  setup' = setup /\ known \subseteq known'
BY DEF Build, WriteLine, Return, FirstPass, SecondPass, PoolPass, Record, Defer, Hit, Fork,
       ExecDofile, Finish

-----------------------------------------------------------------------------
(* The steps of redo-log. *)

(* The build goes on while redo-log waits: what it has printed stays the   *)
(* beginning of a log, and after the end of the build there is no step.    *)
LEMMA BuildStep ==
    ASSUME LogInv, NEW p \in Commands, Build(p), UNCHANGED reader
    PROVE  LogInv'
<1>1. Kept /\ BuildInv /\ ReadInv /\ Quiet /\ BuildInv'
  BY BuildKeeps DEF LogInv, Kept
<1>2. setup' = setup /\ known \subseteq known'
  BY BuildCommits
<1>3. reader \in Readers /\ BuildTypes /\ Top \notin Target
  BY <1>1, SetupTypes DEF ReadInv, BuildInv, BuildTypes
<1>4. ASSUME NEW q \in Commands, NEW g \in 1..Len(log[q]), Begins(reader.shown[q], log[q][g])
      PROVE  g \in 1..Len(log'[q]) /\ Begins(reader.shown[q], log'[q][g])
  <2>1. /\ log[q] \in Logs /\ log'[q] \in Logs /\ reader.shown[q] \in Seq(Line)
        /\ Len(log[q]) <= Len(log'[q]) /\ Begins(log[q][g], log'[q][g])
    BY <1>1, <1>3 DEF Kept, Grown, BuildTypes, Readers
  <2>2. Len(log[q]) \in Nat /\ Len(log'[q]) \in Nat
    BY <2>1 DEF Logs
  <2>3. g \in 1..Len(log'[q])
    BY <2>1, <2>2
  <2>4. log[q][g] \in Seq(Line) /\ log'[q][g] \in Seq(Line)
    BY <2>1, <2>3 DEF Logs
  <2> QED BY <1>4, <2>1, <2>3, <2>4, BeginsTransitive
<1>5. ASSUME NEW f \in Catlog, FrameOK(f) PROVE FrameOK(f)'
  <2>1. f.t \in Commands
    BY DEF Catlog
  <2>2. f.pc = "probe" => lock'[f.t] = Reader
    BY <1>1, <1>3, <1>5, <2>1 DEF FrameOK, Kept, Commands
  <2> QED BY <1>2, <1>4, <1>5, <2>1, <2>2 DEF FrameOK
<1>6. \A i \in 1..Len(reader.stack) : reader.stack[i] \in Catlog
  BY <1>3 DEF Readers
<1>7. Stack'
  BY <1>1, <1>5, <1>6 DEF Stack, ReadInv
<1>8. \A q \in Commands : Printed(q)'
  BY <1>1, <1>4 DEF Printed, ReadInv
<1>9. ReadInv'
  BY <1>1, <1>3, <1>7, <1>8 DEF ReadInv, Apart
<1>10. ~(reader.on /\ reader.quiet)
  BY <1>1, NothingAfter DEF Quiet
<1> QED BY <1>1, <1>9, <1>10 DEF LogInv, Quiet

LEMMA UnchangedBuild ==
    ASSUME BuildInv, UNCHANGED buildVars PROVE BuildInv'
BY ProbeKeeps DEF buildVars, BuildInv, BuildTypes

LEMMA TopOfStack ==
    ASSUME NEW s \in Seq(Catlog), s # <<>>
    PROVE  /\ Len(s) \in Nat \ {0} /\ Last(s) = s[Len(s)] /\ Last(s) \in Catlog
           /\ Front(s) \in Seq(Catlog) /\ Len(Front(s)) = Len(s) - 1
           /\ \A i \in 1..(Len(s) - 1) : Front(s)[i] = s[i]
           /\ \A f \in Catlog : /\ Append(Front(s), f) \in Seq(Catlog)
                                /\ Len(Append(Front(s), f)) = Len(s)
                                /\ Append(Front(s), f)[Len(s)] = f
                                /\ \A i \in 1..(Len(s) - 1) : Append(Front(s), f)[i] = s[i]
<1>1. Len(s) \in Nat \ {0}
  BY EmptySeq
<1>2. Last(s) = s[Len(s)] /\ Last(s) \in Catlog
  BY <1>1 DEF Last
<1>3. \A i \in 1..(Len(s) - 1) : s[i] \in Catlog
  BY <1>1
<1>4. /\ SubSeq(s, 1, Len(s) - 1) \in Seq(Catlog)
      /\ Len(SubSeq(s, 1, Len(s) - 1)) = Len(s) - 1
      /\ \A i \in 1..(Len(s) - 1) : SubSeq(s, 1, Len(s) - 1)[i] = s[i]
  <2>1. PICK m \in Int : m = Len(s) - 1
    BY <1>1
  <2>2. /\ SubSeq(s, 1, m) \in Seq(Catlog)
        /\ Len(SubSeq(s, 1, m)) = IF 1 <= m THEN m - 1 + 1 ELSE 0
        /\ \A i \in 1..(m - 1 + 1) : SubSeq(s, 1, m)[i] = s[1 + i - 1]
    BY <1>3, <2>1, SubSeqProperties
  <2>3. m \in Nat
    BY <1>1, <2>1
  <2>4. Len(SubSeq(s, 1, m)) = m /\ \A i \in 1..m : SubSeq(s, 1, m)[i] = s[i]
    BY <2>2, <2>3
  <2> QED BY <2>1, <2>2, <2>4
<1>5. PICK u \in Seq(Catlog) : u = Front(s)
  BY <1>4 DEF Front
<1>6. Len(u) = Len(s) - 1 /\ \A i \in 1..(Len(s) - 1) : u[i] = s[i]
  BY <1>4, <1>5 DEF Front
<1>7. ASSUME NEW f \in Catlog
      PROVE  /\ Append(u, f) \in Seq(Catlog)
             /\ Len(Append(u, f)) = Len(s)
             /\ Append(u, f)[Len(s)] = f
             /\ \A i \in 1..(Len(s) - 1) : Append(u, f)[i] = s[i]
  BY <1>1, <1>6, AppendProperties
<1> QED BY <1>1, <1>2, <1>5, <1>6, <1>7

(* What redo-log leaves alone while it works on the log it is in. *)
Stays == /\ UNCHANGED <<ask, at, built, known, full, log, setup>>
         /\ \A t \in Target \ {Cur.t} : lock'[t] = lock[t]

LEMMA CurFrame ==
    ASSUME ReadInv, Reading
    PROVE  /\ reader.stack \in Seq(Catlog) /\ reader.stack # <<>>
           /\ Len(reader.stack) \in Nat \ {0} /\ Cur = reader.stack[Len(reader.stack)]
           /\ Cur \in Catlog /\ FrameOK(Cur)
           /\ \A i \in 1..Len(reader.stack) : reader.stack[i] \in Catlog
           /\ \A i \in 1..(Len(reader.stack) - 1) : reader.stack[i].t # Cur.t
           /\ reader \in Readers
<1>1. reader \in Readers /\ reader.stack \in Seq(Catlog) /\ reader.stack # <<>>
  BY DEF ReadInv, Readers, Reading
<1>2. /\ Len(reader.stack) \in Nat \ {0} /\ Cur = reader.stack[Len(reader.stack)] /\ Cur \in Catlog
  BY <1>1, TopOfStack DEF Cur
<1>3. Len(reader.stack) \in 1..Len(reader.stack)
  BY <1>2
<1>4. FrameOK(Cur)
  BY <1>2, <1>3 DEF ReadInv, Stack
<1>5. \A i \in 1..Len(reader.stack) : reader.stack[i] \in Catlog
  BY <1>1
<1>6. ASSUME NEW i \in 1..(Len(reader.stack) - 1) PROVE reader.stack[i].t # Cur.t
  <2>1. i \in 1..Len(reader.stack) /\ i # Len(reader.stack)
    BY <1>2
  <2> QED BY <1>2, <1>3, <2>1 DEF ReadInv, Apart
<1> QED BY <1>1, <1>2, <1>4, <1>5, <1>6

(* The frames under the top one mind neither its lock nor its output. *)
LEMMA UnderKeeps ==
    ASSUME ReadInv, Reading, Stays, reader' \in Readers, BuildTypes,
           reader.already \subseteq reader'.already,
           \A q \in Commands \ {Cur.t} : reader'.shown[q] = reader.shown[q],
           NEW f \in Catlog, FrameOK(f), f.t # Cur.t
    PROVE  FrameOK(f)'
<1>1. f.t \in Commands /\ reader'.shown[f.t] = reader.shown[f.t]
  BY DEF Catlog
<1>2. log' = log /\ setup' = setup /\ known' = known
  BY DEF Stays
<1>3. f.pc = "probe" => lock'[f.t] = Reader
  BY <1>1 DEF FrameOK, Stays, Commands
<1>4. f.t \in reader'.already
  BY DEF FrameOK
<1> QED BY <1>1, <1>2, <1>3, <1>4 DEF FrameOK

(* A step of the log redo-log is in, that prints nothing. *)
LEMMA SetKeeps ==
    ASSUME LogInv, Reading, Stays, NEW f \in Catlog, f.t = Cur.t, Set(f), FrameOK(f)',
           f.file # 0 => f.file = Cur.file \/ f.file = Len(log[f.t])
    PROVE  ReadInv' /\ Quiet'
<1> DEFINE s == reader.stack
           n == Len(s)
           v == Append(Front(s), f)
<1>1. ReadInv /\ Quiet /\ BuildTypes /\ log' = log /\ setup' = setup /\ at' = at /\ known' = known
  BY DEF LogInv, BuildInv, Stays
<1>2. /\ s \in Seq(Catlog) /\ s # <<>> /\ n \in Nat \ {0} /\ Cur = s[n] /\ Cur \in Catlog
      /\ \A i \in 1..n : s[i] \in Catlog
      /\ \A i \in 1..(n - 1) : s[i].t # Cur.t
      /\ reader \in Readers
  BY <1>1, CurFrame
<1>3. v \in Seq(Catlog) /\ Len(v) = n /\ v[n] = f /\ \A i \in 1..(n - 1) : v[i] = s[i]
  BY <1>2, TopOfStack
<1>4. reader' = [reader EXCEPT !.stack = v]
  BY DEF Set, Frames
<1>5. /\ reader' \in Readers /\ reader'.stack = v /\ reader'.on = reader.on
      /\ reader'.quiet = reader.quiet /\ reader'.already = reader.already
      /\ reader'.shown = reader.shown
  BY <1>2, <1>3, <1>4 DEF Readers
<1> HIDE DEF v
<1>6. \A i \in 1..n : i = n \/ i \in 1..(n - 1)
  BY <1>2
<1>7. \A i \in 1..n : v[i].t = s[i].t
  BY <1>2, <1>3, <1>6
<1>8. Stack'
  <2>1. ASSUME NEW i \in 1..(n - 1) PROVE FrameOK(reader.stack[i])'
    <3>1. i \in 1..n
      BY <1>2
    <3>2. FrameOK(s[i]) /\ s[i] \in Catlog /\ s[i].t # Cur.t
      BY <1>1, <1>2, <3>1 DEF ReadInv, Stack
    <3>3. PICK g \in Catlog : g = s[i]
      BY <3>2
    <3>4. FrameOK(g)'
      BY <1>1, <1>5, <3>2, <3>3, UnderKeeps
    <3>5. reader'.stack[i] = g
      BY <1>3, <1>5, <3>3
    <3> QED BY <3>4, <3>5 DEF FrameOK
  <2>2. ASSUME NEW i \in 1..n, i = n PROVE FrameOK(reader.stack[i])'
    <3>1. reader'.stack[i] = f
      BY <1>3, <1>5, <2>2
    <3> QED BY <3>1 DEF FrameOK
  <2>3. Len(reader'.stack) = n
    BY <1>3, <1>5
  <2> QED BY <1>6, <2>1, <2>2, <2>3 DEF Stack
<1>9. Apart'
  BY <1>1, <1>3, <1>5, <1>7 DEF Apart, ReadInv
<1>10. \A q \in Commands : Printed(q)'
  BY <1>1, <1>5 DEF ReadInv, Printed
<1>11. reader.on
  BY <1>1, <1>2 DEF ReadInv
<1>12. ReadInv'
  BY <1>5, <1>8, <1>9, <1>10, <1>11 DEF ReadInv
<1>13. Root' = Root /\ Over' = Over
  BY <1>1 DEF Root, Script, Over
<1>14. ASSUME Whole PROVE Whole'
  <2>1. ASSUME NEW i \in 1..n, v[i].file # 0 PROVE v[i].file = Len(log[v[i].t])
    <3>1. CASE i = n
      BY <1>2, <1>3, <1>14, <2>1, <3>1 DEF Whole
    <3>2. CASE i \in 1..(n - 1)
      BY <1>3, <1>14, <2>1, <3>2 DEF Whole
    <3> QED BY <1>6, <3>1, <3>2
  <2>2. ASSUME NEW t \in reader.already
        PROVE  \/ log[t] = <<>> \/ reader.shown[t] = Last(log[t])
               \/ \E i \in 1..n : v[i].t = t
    BY <1>7, <1>14 DEF Whole
  <2> QED BY <1>1, <1>3, <1>5, <1>13, <1>14, <2>1, <2>2 DEF Whole
<1>15. Quiet'
  BY <1>1, <1>5, <1>13, <1>14 DEF Quiet
<1> QED BY <1>12, <1>15

(* redo-log has done with a log. *)
LEMMA LeaveKeeps ==
    ASSUME LogInv, Reading, Stays, Leave,
           reader.quiet /\ setup.mode = "cat" =>
             log[Cur.t] = <<>> \/ reader.shown[Cur.t] = Last(log[Cur.t])
    PROVE  ReadInv' /\ Quiet'
<1> DEFINE s == reader.stack
           n == Len(s)
           v == Front(s)
<1>1. ReadInv /\ Quiet /\ BuildTypes /\ log' = log /\ setup' = setup /\ at' = at /\ known' = known
  BY DEF LogInv, BuildInv, Stays
<1>2. /\ s \in Seq(Catlog) /\ s # <<>> /\ n \in Nat \ {0} /\ Cur = s[n] /\ Cur \in Catlog
      /\ \A i \in 1..n : s[i] \in Catlog
      /\ \A i \in 1..(n - 1) : s[i].t # Cur.t
      /\ reader \in Readers
  BY <1>1, CurFrame
<1>3. v \in Seq(Catlog) /\ Len(v) = n - 1 /\ \A i \in 1..(n - 1) : v[i] = s[i]
  BY <1>2, TopOfStack
<1>4. reader' = [reader EXCEPT !.stack = v]
  BY DEF Leave, Frames
<1>5. /\ reader' \in Readers /\ reader'.stack = v /\ reader'.on = reader.on
      /\ reader'.quiet = reader.quiet /\ reader'.already = reader.already
      /\ reader'.shown = reader.shown
  BY <1>2, <1>3, <1>4 DEF Readers
<1> HIDE DEF v
<1>6. \A i \in 1..(n - 1) : i \in 1..n
  BY <1>2
<1>7. Stack'
  <2>1. ASSUME NEW i \in 1..(n - 1) PROVE FrameOK(reader.stack[i])'
    <3>2. FrameOK(s[i]) /\ s[i] \in Catlog /\ s[i].t # Cur.t
      BY <1>1, <1>2, <1>6 DEF ReadInv, Stack
    <3>3. PICK g \in Catlog : g = s[i]
      BY <3>2
    <3>4. FrameOK(g)'
      BY <1>1, <1>5, <3>2, <3>3, UnderKeeps
    <3>5. reader'.stack[i] = g
      BY <1>3, <1>5, <3>3
    <3> QED BY <3>4, <3>5 DEF FrameOK
  <2>2. Len(reader'.stack) = n - 1
    BY <1>3, <1>5
  <2> QED BY <2>1, <2>2 DEF Stack
<1>8. Apart'
  BY <1>1, <1>3, <1>5, <1>6 DEF Apart, ReadInv
<1>9. \A q \in Commands : Printed(q)'
  BY <1>1, <1>5 DEF ReadInv, Printed
<1>10. reader.on
  BY <1>1, <1>2 DEF ReadInv
<1>11. ReadInv'
  BY <1>5, <1>7, <1>8, <1>9, <1>10 DEF ReadInv
<1>12. Root' = Root /\ Over' = Over
  BY <1>1 DEF Root, Script, Over
<1>13. ASSUME Whole, reader.quiet, setup.mode = "cat" PROVE Whole'
  <2>1. \A i \in 1..(n - 1) : v[i].file # 0 => v[i].file = Len(log[v[i].t])
    BY <1>3, <1>6, <1>13 DEF Whole
  <2>2. ASSUME NEW t \in reader.already
        PROVE  \/ log[t] = <<>> \/ reader.shown[t] = Last(log[t])
               \/ \E i \in 1..(n - 1) : v[i].t = t
    <3>1. CASE t = Cur.t
      BY <1>13, <3>1
    <3>2. CASE t # Cur.t /\ \E i \in 1..n : s[i].t = t
      <4>1. PICK i \in 1..n : s[i].t = t
        BY <3>2
      <4>2. i \in 1..(n - 1)
        BY <1>2, <3>2, <4>1
      <4> QED BY <1>3, <4>1, <4>2
    <3> QED BY <1>13, <3>1, <3>2 DEF Whole
  <2> QED BY <1>1, <1>3, <1>5, <1>12, <1>13, <2>1, <2>2 DEF Whole
<1>14. Quiet'
  BY <1>1, <1>5, <1>12, <1>13 DEF Quiet
<1> QED BY <1>11, <1>14

(* When the toplevel command has ended, all who are named are known. *)
LEMMA NoneFresh ==
    ASSUME BuildInv, Over PROVE Fresh = {}
<1>1. Top \in Commands
  BY DEF Commands
<1>2. \A c \in Target : ask[Top][c] = "no"
  BY <1>1, NoScriptAfter DEF BuildInv, Stage
<1> QED BY <1>2 DEF Fresh

LEMMA RootKnown ==
    ASSUME BuildInv, Recorded, Over PROVE Root \in known
<1>1. /\ BuildTypes /\ Top \in Commands /\ Stage(Top) /\ at[Top] \in Nat /\ at[Top] # 0
  BY DEF BuildInv, BuildTypes, Commands
<1>2. Script[Top] \in Seq(SUBSET Target) /\ Len(Script[Top]) >= 1 /\ Root \in Target
  BY <1>1, SetupTypes DEF BuildTypes
<1>3. Len(Script[Top]) \in Nat
  BY <1>2
<1>4. 1 \in 1..(at[Top] - 1)
  BY <1>1, <1>2, <1>3 DEF Over
<1>5. Root \in Script[Top][1]
  <2>1. \E t \in Target : t \in Script[Top][1]
    <3>1. Script[Top][1] # {} /\ Script[Top][1] \in SUBSET Target
      BY <1>1, <1>2, <1>3, LogAssumption DEF BuildTypes, Script
    <3> QED BY <3>1
  <2> QED BY <2>1 DEF Root
<1>6. Naming(Top, Root) /\ log[Top] # <<>>
  BY <1>1, <1>4, <1>5 DEF Stage
<1>7. Len(log[Top]) \in 1..Len(log[Top]) /\ Last(log[Top]) = log[Top][Len(log[Top])]
  BY <1>1, <1>6, NewestLog DEF BuildTypes
<1>8. Told(Last(log[Top]))
  BY <1>1, <1>7 DEF Recorded
<1>9. Root \in known \cup Fresh
  BY <1>6, <1>8 DEF Naming, Names, Told
<1> QED BY <1>9, NoneFresh

LEMMA NewFrame ==
    ASSUME NEW t \in Commands
    PROVE  /\ Frame(t) \in Catlog /\ Frame(t).t = t /\ Frame(t).file = 0 /\ Frame(t).pos = 0
           /\ Frame(t).pc = "read"
<1>1. PICK b \in BOOLEAN : b = Following
  BY DEF Following
<1>2. Frame(t) = [t |-> t, file |-> 0, pos |-> 0, saw |-> FALSE, grace |-> b, pc |-> "read"]
  BY <1>1, Zenon DEF Frame
<1>3. [t |-> t, file |-> 0, pos |-> 0, saw |-> FALSE, grace |-> b, pc |-> "read"] \in Catlog
  BY DEF Catlog
<1> QED BY <1>2, <1>3

LEMMA StartStep ==
    ASSUME LogInv, Recorded, Start PROVE LogInv'
<1>1. /\ BuildInv /\ ReadInv /\ BuildTypes /\ ~reader.on /\ UNCHANGED buildVars
      /\ reader \in Readers /\ \A p \in Commands : reader.shown[p] = <<>>
  BY DEF LogInv, BuildInv, ReadInv, Start
<1>2. BuildInv' /\ log' = log /\ setup' = setup /\ lock' = lock /\ at' = at /\ known' = known
  BY <1>1, UnchangedBuild DEF buildVars
<1>3. /\ setup.mode \in {"pipe", "follow", "cat"} /\ Root \in Target
      /\ Top \in Commands /\ Top \notin Target
  BY <1>1, SetupTypes DEF BuildTypes
<1>4. PICK t \in Commands : t = IF Piped THEN Top ELSE Root
  BY <1>3 DEF Commands
<1>5. PICK f \in Catlog : f = [Frame(t) EXCEPT !.file = IF Piped THEN 1 ELSE 0]
  <2>1. PICK k \in Nat : k = IF Piped THEN 1 ELSE 0
    OBVIOUS
  <2>2. [Frame(t) EXCEPT !.file = k] \in Catlog
    BY NewFrame DEF Catlog
  <2> QED BY <2>1, <2>2
<1>6. /\ f.t = t /\ f.file = (IF Piped THEN 1 ELSE 0) /\ f.pos = 0 /\ f.pc = "read"
  BY <1>5, NewFrame DEF Catlog
<1>7. reader' = [reader EXCEPT !.on = TRUE, !.quiet = Over, !.already = {t}, !.stack = <<f>>]
  BY <1>4, <1>5 DEF Start
<1>8. <<f>> \in Seq(Catlog) /\ Len(<<f>>) = 1 /\ <<f>>[1] = f
  OBVIOUS
<1>9. /\ reader' \in Readers /\ reader'.on /\ reader'.quiet = Over /\ reader'.already = {t}
      /\ reader'.stack = <<f>> /\ reader'.shown = reader.shown
  <2>1. Over \in BOOLEAN
    BY DEF Over
  <2> QED BY <1>1, <1>7, <1>8, <2>1 DEF Readers
<1>10. FrameOK(f)'
  <2>1. CASE Piped
    <3>1. log[Top] \in Logs /\ log[Top] # <<>>
      BY <1>1, <1>3 DEF BuildInv, Stage, BuildTypes
    <3>2. Len(log[Top]) \in Nat \ {0}
      BY <3>1, NewestLog
    <3>3. 1 \in 1..Len(log[Top])
      BY <3>2
    <3>4. log[Top][1] \in Seq(Line)
      BY <3>1, <3>3 DEF Logs
    <3>5. Len(log[Top][1]) \in Nat /\ Len(<<>>) = 0
      BY <3>4, EmptySeq
    <3>6. Begins(<<>>, log[Top][1])
      BY <3>5 DEF Begins
    <3> QED BY <1>1, <1>2, <1>4, <1>6, <1>9, <2>1, <3>3, <3>5, <3>6 DEF FrameOK
  <2>2. CASE ~Piped
    BY <1>1, <1>2, <1>3, <1>4, <1>6, <1>9, <2>2 DEF FrameOK
  <2> QED BY <2>1, <2>2
<1>11. Stack'
  <2>1. ASSUME NEW i \in 1..1 PROVE FrameOK(reader.stack[i])'
    <3>1. reader'.stack[i] = f
      BY <1>8, <1>9
    <3> QED BY <1>10, <3>1 DEF FrameOK
  <2> QED BY <1>8, <1>9, <2>1 DEF Stack
<1>12. Apart'
  BY <1>8, <1>9 DEF Apart
<1>13. ReadInv'
  BY <1>1, <1>9, <1>11, <1>12 DEF ReadInv, Printed
<1>14. Root' = Root /\ Over' = Over
  BY <1>2 DEF Root, Script, Over
<1>15. ASSUME setup.mode = "cat", Over PROVE Whole'
  <2>1. t = Root /\ f.file = 0
    BY <1>4, <1>6, <1>15 DEF Piped
  <2>2. \A i \in 1..Len(reader'.stack) : reader'.stack[i].file = 0
    BY <1>8, <1>9, <2>1
  <2>3. \E i \in 1..Len(reader'.stack) : reader'.stack[i].t = t
    BY <1>6, <1>8, <1>9
  <2>4. \A p \in Commands : reader'.shown[p] = <<>>
    BY <1>1, <1>9
  <2>5. \A p \in Commands : \A i \in 1..Len(reader'.shown[p]) : FALSE
    BY <2>4, EmptySeq
  <2>6. Root \in known
    BY <1>1, <1>15, RootKnown
  <2> QED BY <1>2, <1>3, <1>9, <1>14, <2>1, <2>2, <2>3, <2>5, <2>6 DEF Whole
<1>16. Quiet'
  BY <1>2, <1>9, <1>14, <1>15 DEF Quiet
<1> QED BY <1>2, <1>13, <1>16 DEF LogInv

LEMMA OpenLogStep ==
    ASSUME LogInv, OpenLog PROVE LogInv'
<1>1. /\ BuildInv /\ ReadInv /\ BuildTypes /\ Reading /\ UNCHANGED buildVars
      /\ Cur.pc = "read" /\ Cur.file = 0 /\ Cur.t \in known
  BY DEF LogInv, BuildInv, OpenLog
<1>2. BuildInv' /\ Stays
  BY <1>1, UnchangedBuild DEF buildVars, Stays
<1>3. PICK h \in Catlog : h = Cur
  BY <1>1, CurFrame
<1>4. FrameOK(h) /\ h.t \in Target /\ reader.shown[h.t] = <<>> /\ h.pos = 0
  BY <1>1, <1>3, CurFrame DEF FrameOK
<1>5. h.t \in Commands /\ log[h.t] \in Logs /\ Top \notin Target
      /\ setup.mode \in {"pipe", "follow", "cat"}
  BY <1>1, <1>4, SetupTypes DEF Commands, BuildTypes
<1>6. log' = log /\ setup' = setup /\ known' = known
  BY <1>2 DEF Stays
<1>7. CASE log[h.t] # <<>>
  <2>1. Len(log[h.t]) \in Nat \ {0} /\ Len(log[h.t]) \in 1..Len(log[h.t]) /\ Last(log[h.t]) \in Seq(Line)
        /\ Last(log[h.t]) = log[h.t][Len(log[h.t])]
    BY <1>5, <1>7, NewestLog
  <2>2. PICK f \in Catlog : f = [h EXCEPT !.file = Len(log[h.t])]
    BY <2>1 DEF Catlog
  <2>3. f.t = h.t /\ f.file = Len(log[h.t]) /\ f.pos = 0 /\ f.pc = "read"
    BY <1>1, <1>3, <1>4, <2>2 DEF Catlog
  <2>4. Set(f)
    BY <1>3, <1>7, <2>2 DEF OpenLog
  <2>5. reader'.shown = reader.shown /\ reader'.already = reader.already
    BY <1>1, <2>4, CurFrame DEF Set, Frames, Readers
  <2>6. Len(<<>>) = 0 /\ Len(log[h.t][Len(log[h.t])]) \in Nat
    BY <2>1, EmptySeq
  <2>7. Begins(<<>>, log[h.t][Len(log[h.t])])
    BY <2>6 DEF Begins
  <2>8. FrameOK(f)'
    BY <1>1, <1>3, <1>4, <1>6, <2>1, <2>3, <2>5, <2>6, <2>7 DEF FrameOK
  <2> QED BY <1>1, <1>2, <1>3, <2>3, <2>4, <2>8, SetKeeps DEF LogInv
<1>8. CASE log[h.t] = <<>> /\ Following
  <2>1. PICK f \in Catlog : f = [h EXCEPT !.pc = "eof"]
    BY DEF Catlog
  <2>2. f.t = h.t /\ f.file = 0 /\ f.pos = 0 /\ f.pc = "eof"
    BY <1>1, <1>3, <1>4, <2>1 DEF Catlog
  <2>3. Set(f)
    BY <1>3, <1>8, <2>1 DEF OpenLog
  <2>4. reader'.shown = reader.shown /\ reader'.already = reader.already
    BY <1>1, <2>3, CurFrame DEF Set, Frames, Readers
  <2>5. FrameOK(f)'
    BY <1>1, <1>3, <1>4, <1>5, <1>6, <1>8, <2>2, <2>4 DEF FrameOK, Following
  <2> QED BY <1>1, <1>2, <1>3, <2>2, <2>3, <2>5, SetKeeps DEF LogInv
<1>9. CASE log[h.t] = <<>> /\ ~Following
  <2>1. Leave
    BY <1>3, <1>9 DEF OpenLog
  <2> QED BY <1>1, <1>2, <1>3, <1>9, <2>1, LeaveKeeps DEF LogInv
<1> QED BY <1>7, <1>8, <1>9

(* A log read to its end has been printed whole. *)
LEMMA EndOfFileStep ==
    ASSUME LogInv, EndOfFile PROVE LogInv'
<1>1. /\ BuildInv /\ ReadInv /\ Quiet /\ BuildTypes /\ Reading /\ UNCHANGED buildVars
      /\ Cur.pc = "read" /\ Cur.file # 0 /\ Cur.pos = Len(Log(Cur))
  BY DEF LogInv, BuildInv, EndOfFile
<1>2. BuildInv' /\ Stays
  BY <1>1, UnchangedBuild DEF buildVars, Stays
<1>3. PICK h \in Catlog : h = Cur
  BY <1>1, CurFrame
<1>4. FrameOK(h) /\ h.t \in Commands /\ reader \in Readers
      /\ h.file # 0 /\ h.pc = "read" /\ h.pos = Len(log[h.t][h.file])
  BY <1>1, <1>3, CurFrame DEF Catlog, Log
<1>5. log' = log /\ setup' = setup /\ known' = known
  BY <1>2 DEF Stays
<1>6. CASE Leave
  <2>1. ASSUME reader.quiet, setup.mode = "cat" PROVE reader.shown[h.t] = Last(log[h.t])
    <3>1. reader.on
      BY <1>1, CurFrame DEF ReadInv
    <3>2. Whole
      BY <1>1, <2>1, <3>1 DEF Quiet
    <3>3. h.file = Len(log[h.t])
      <4>1. Len(reader.stack) \in 1..Len(reader.stack) /\ h = reader.stack[Len(reader.stack)]
        BY <1>1, <1>3, CurFrame
      <4> QED BY <1>4, <3>2, <4>1 DEF Whole
    <3>4. log[h.t] \in Logs /\ h.file \in 1..Len(log[h.t])
      BY <1>1, <1>4 DEF FrameOK, BuildTypes
    <3>5. log[h.t][h.file] \in Seq(Line) /\ reader.shown[h.t] \in Seq(Line)
      BY <1>4, <3>4 DEF Logs, Readers
    <3>6. Len(reader.shown[h.t]) = Len(log[h.t][h.file])
          /\ Begins(reader.shown[h.t], log[h.t][h.file])
      BY <1>4 DEF FrameOK
    <3>7. reader.shown[h.t] = log[h.t][h.file]
      BY <3>5, <3>6, SeqEqual DEF Begins
    <3> QED BY <3>3, <3>7 DEF Last
  <2> QED BY <1>1, <1>2, <1>3, <1>6, <2>1, LeaveKeeps DEF LogInv
<1>7. CASE h.t # Top /\ Following
  <2>1. PICK f \in Catlog : f = [h EXCEPT !.pc = "eof"]
    BY DEF Catlog
  <2>2. f.t = h.t /\ f.file = h.file /\ f.pos = h.pos /\ f.pc = "eof"
    BY <2>1 DEF Catlog
  <2>3. Set(f)
    BY <1>3, <1>7, <2>1 DEF EndOfFile
  <2>4. reader'.shown = reader.shown /\ reader'.already = reader.already
    BY <1>4, <2>3 DEF Set, Frames, Readers
  <2>5. FrameOK(f)'
    BY <1>4, <1>5, <1>7, <2>2, <2>4 DEF FrameOK, Following
  <2> QED BY <1>1, <1>2, <1>3, <2>2, <2>3, <2>5, SetKeeps DEF LogInv
<1> QED BY <1>3, <1>6, <1>7 DEF EndOfFile

LEMMA IsLockedStep ==
    ASSUME LogInv, IsLocked PROVE LogInv'
<1>1. /\ BuildInv /\ ReadInv /\ BuildTypes /\ Reading /\ Cur.pc = "eof"
      /\ UNCHANGED <<ask, at, built, known, full, log, setup>>
  BY DEF LogInv, BuildInv, IsLocked
<1>2. PICK h \in Catlog : h = Cur
  BY <1>1, CurFrame
<1>3. FrameOK(h) /\ h.t \in Commands /\ h.pc = "eof" /\ reader \in Readers /\ None \notin Commands
  BY <1>1, <1>2, CurFrame, SetupTypes DEF Catlog, BuildTypes
<1>4. h.t \in Target /\ h.t # Top /\ setup.mode # "cat"
  BY <1>3 DEF FrameOK, Commands
<1>5. CASE lock[h.t] = None
  <2>1. PICK f \in Catlog : f = [h EXCEPT !.pc = "probe"]
    BY DEF Catlog
  <2>2. f.t = h.t /\ f.file = h.file /\ f.pos = h.pos /\ f.pc = "probe"
    BY <2>1 DEF Catlog
  <2>3. Set(f) /\ lock' = [lock EXCEPT ![h.t] = Reader]
    BY <1>2, <1>5, <2>1 DEF IsLocked, Take
  <2>4. /\ lock' \in [Target -> Commands \cup {Reader, None}] /\ lock'[h.t] = Reader
        /\ \A t \in Target \ {h.t} : lock'[t] = lock[t]
    BY <1>1, <1>4, <2>3 DEF BuildTypes
  <2>5. BuildInv'
    BY <1>1, <1>3, <1>5, <2>4, ProbeKeeps
  <2>6. Stays
    BY <1>1, <1>2, <2>4 DEF Stays
  <2>7. reader'.shown = reader.shown /\ reader'.already = reader.already
    BY <1>3, <2>3 DEF Set, Frames, Readers
  <2>8. FrameOK(f)'
    BY <1>1, <1>3, <1>4, <2>2, <2>4, <2>7 DEF FrameOK
  <2> QED BY <1>1, <1>2, <2>2, <2>3, <2>5, <2>6, <2>8, SetKeeps DEF LogInv
<1>6. CASE lock[h.t] # None
  <2>1. PICK f \in Catlog : f = [h EXCEPT !.pc = "read", !.saw = TRUE]
    BY DEF Catlog
  <2>2. f.t = h.t /\ f.file = h.file /\ f.pos = h.pos /\ f.pc = "read"
    BY <2>1 DEF Catlog
  <2>3. Set(f) /\ lock' = lock
    BY <1>2, <1>6, <2>1 DEF IsLocked
  <2>4. BuildInv' /\ Stays
    BY <1>1, <2>3, UnchangedBuild DEF buildVars, Stays
  <2>5. reader'.shown = reader.shown /\ reader'.already = reader.already
    BY <1>3, <2>3 DEF Set, Frames, Readers
  <2>6. FrameOK(f)'
    BY <1>1, <1>3, <2>2, <2>5 DEF FrameOK
  <2> QED BY <1>1, <1>2, <2>2, <2>3, <2>4, <2>6, SetKeeps DEF LogInv
<1> QED BY <1>5, <1>6

(* redo-log gives back a lock that is its own. *)
LEMMA NotLockedStep ==
    ASSUME LogInv, NotLocked PROVE LogInv'
<1>1. /\ BuildInv /\ ReadInv /\ BuildTypes /\ Reading /\ Cur.pc = "probe" /\ Unlock(Cur.t)
      /\ UNCHANGED <<ask, at, built, known, full, log, setup>>
  BY DEF LogInv, BuildInv, NotLocked
<1>2. PICK h \in Catlog : h = Cur
  BY <1>1, CurFrame
<1>3. FrameOK(h) /\ h.t \in Commands /\ h.pc = "probe" /\ reader \in Readers /\ Reader \notin Commands
  BY <1>1, <1>2, CurFrame, SetupTypes DEF Catlog, BuildTypes
<1>4. h.t \in Target /\ h.t # Top /\ setup.mode # "cat" /\ lock[h.t] = Reader
  BY <1>3 DEF FrameOK, Commands
<1>5. /\ lock' \in [Target -> Commands \cup {Reader, None}]
      /\ \A t \in Target \ {h.t} : lock'[t] = lock[t]
  BY <1>1, <1>2, <1>4 DEF BuildTypes, Unlock
<1>6. BuildInv'
  BY <1>1, <1>3, <1>4, <1>5, ProbeKeeps
<1>7. Stays
  BY <1>1, <1>2, <1>5 DEF Stays
<1>8. CASE Set([Cur EXCEPT !.pc = "read"])
  <2>1. PICK f \in Catlog : f = [h EXCEPT !.pc = "read"]
    BY DEF Catlog
  <2>2. f.t = h.t /\ f.file = h.file /\ f.pos = h.pos /\ f.pc = "read"
    BY <2>1 DEF Catlog
  <2>3. Set(f)
    BY <1>2, <1>8, <2>1
  <2>4. reader'.shown = reader.shown /\ reader'.already = reader.already
    BY <1>3, <2>3 DEF Set, Frames, Readers
  <2>5. FrameOK(f)'
    BY <1>1, <1>3, <2>2, <2>4 DEF FrameOK
  <2> QED BY <1>1, <1>2, <1>6, <1>7, <2>2, <2>3, <2>5, SetKeeps DEF LogInv
<1>9. CASE Leave
  BY <1>1, <1>4, <1>6, <1>7, <1>9, LeaveKeeps DEF LogInv
<1> QED BY <1>8, <1>9 DEF NotLocked

LEMMA GraceOverStep ==
    ASSUME LogInv, GraceOver PROVE LogInv'
<1> DEFINE s == reader.stack
           n == Len(s)
           v == [i \in 1..n |-> [s[i] EXCEPT !.grace = FALSE]]
<1>1. /\ BuildInv /\ ReadInv /\ Quiet /\ BuildTypes /\ Reading /\ UNCHANGED buildVars
      /\ reader' = [reader EXCEPT !.stack = [i \in DOMAIN s |-> [s[i] EXCEPT !.grace = FALSE]]]
  BY DEF LogInv, BuildInv, GraceOver, Frames
<1>2. BuildInv' /\ log' = log /\ setup' = setup /\ lock' = lock /\ at' = at /\ known' = known
  BY <1>1, UnchangedBuild DEF buildVars
<1>3. s \in Seq(Catlog) /\ n \in Nat /\ DOMAIN s = 1..n /\ reader \in Readers /\ s # <<>>
      /\ \A i \in 1..n : s[i] \in Catlog
  BY <1>1, CurFrame
<1>4. \A i \in 1..n : /\ v[i] \in Catlog /\ v[i].t = s[i].t /\ v[i].file = s[i].file
                      /\ v[i].pos = s[i].pos /\ v[i].pc = s[i].pc
  BY <1>3 DEF Catlog
<1>5. v \in Seq(Catlog) /\ Len(v) = n
  <2>1. v \in [1..n -> Catlog]
    BY <1>4
  <2>2. v \in Seq(Catlog)
    BY <1>3, <2>1, SeqDef
  <2>3. Len(v) \in Nat /\ 1..Len(v) = 1..n
    BY <2>1, <2>2, LenProperties
  <2> QED BY <1>3, <2>2, <2>3
<1>6. reader' = [reader EXCEPT !.stack = v]
  BY <1>1, <1>3
<1> HIDE DEF v
<1>7. /\ reader' \in Readers /\ reader'.stack = v /\ reader'.on = reader.on
      /\ reader'.quiet = reader.quiet /\ reader'.already = reader.already
      /\ reader'.shown = reader.shown
  BY <1>3, <1>5, <1>6 DEF Readers
<1>8. Stack'
  <2>1. ASSUME NEW i \in 1..n PROVE FrameOK(reader.stack[i])'
    <3>1. FrameOK(s[i])
      BY <1>1 DEF ReadInv, Stack
    <3> QED BY <1>2, <1>4, <1>7, <3>1 DEF FrameOK
  <2> QED BY <1>5, <1>7, <2>1 DEF Stack
<1>9. Apart'
  BY <1>1, <1>4, <1>5, <1>7 DEF ReadInv, Apart
<1>10. \A q \in Commands : Printed(q)'
  BY <1>1, <1>2, <1>7 DEF ReadInv, Printed
<1>11. ReadInv'
  BY <1>1, <1>3, <1>7, <1>8, <1>9, <1>10 DEF ReadInv
<1>12. Root' = Root /\ Over' = Over
  BY <1>2 DEF Root, Script, Over
<1>13. ASSUME Whole PROVE Whole'
  BY <1>2, <1>4, <1>5, <1>7, <1>12, <1>13 DEF Whole
<1>14. Quiet'
  BY <1>1, <1>2, <1>7, <1>12, <1>13 DEF Quiet
<1> QED BY <1>2, <1>11, <1>14 DEF LogInv

(* A line is printed after the ones before it, and the target it names is  *)
(* entered when redo-log was not there yet.                                *)
LEMMA ReadLineStep ==
    ASSUME LogInv, Recorded, ReadLine PROVE LogInv'
<1> DEFINE s == reader.stack
           n == Len(s)
           v == reader'.stack
<1>1. /\ BuildInv /\ ReadInv /\ Quiet /\ BuildTypes /\ Reading /\ UNCHANGED buildVars
      /\ Cur.pc = "read" /\ Cur.file # 0 /\ Cur.pos < Len(log[Cur.t][Cur.file])
  BY DEF LogInv, BuildInv, ReadLine, Log
<1>2. BuildInv' /\ Stays /\ log' = log /\ setup' = setup /\ lock' = lock /\ at' = at /\ known' = known
  BY <1>1, UnchangedBuild DEF buildVars, Stays
<1>h. PICK h \in Catlog : h = Cur
  BY <1>1, CurFrame
<1>3. /\ s \in Seq(Catlog) /\ s # <<>> /\ n \in Nat \ {0} /\ h = s[n]
      /\ \A i \in 1..n : s[i] \in Catlog
      /\ \A i \in 1..(n - 1) : s[i].t # h.t
      /\ reader \in Readers /\ FrameOK(h)
  BY <1>1, <1>h, CurFrame
<1>4. /\ h.t \in Commands /\ h.file \in 1..Len(log[h.t]) /\ h.pos \in Nat
      /\ h.pos = Len(reader.shown[h.t]) /\ Begins(reader.shown[h.t], log[h.t][h.file])
      /\ h.t \in reader.already
  BY <1>1, <1>h, <1>3 DEF FrameOK, Catlog
<1>w. PICK w \in Seq(Line) : w = log[h.t][h.file]
  <2>1. log[h.t] \in Logs
    BY <1>1, <1>4 DEF BuildTypes
  <2> QED BY <1>4, <2>1 DEF Logs
<1>x. PICK x \in Seq(Line) : x = reader.shown[h.t]
  BY <1>3, <1>4 DEF Readers
<1>5. Len(w) \in Nat /\ h.pos < Len(w) /\ h.pos + 1 \in 1..Len(w)
  <2>1. h.pos < Len(w)
    BY <1>1, <1>h, <1>w
  <2>2. Len(w) \in Nat
    BY <1>w
  <2> QED BY <1>4, <2>1, <2>2
<1>l. PICK l \in Line : l = w[h.pos + 1]
  BY <1>5
<1>u. PICK u \in Seq(Line) : u = Append(x, l)
  BY AppendProperties
<1>6. /\ Len(u) = h.pos + 1 /\ u[h.pos + 1] = l /\ \A i \in 1..h.pos : u[i] = x[i]
  BY <1>4, <1>x, <1>u, AppendProperties
<1>7. Begins(u, w)
  <2>1. \A i \in 1..Len(u) : i = h.pos + 1 \/ i \in 1..h.pos
    BY <1>4, <1>6
  <2>2. \A i \in 1..h.pos : u[i] = w[i]
    BY <1>4, <1>6, <1>w, <1>x DEF Begins
  <2>3. Len(u) <= Len(w)
    BY <1>4, <1>5, <1>6
  <2> QED BY <1>6, <1>l, <2>1, <2>2, <2>3 DEF Begins
<1>f. PICK f \in Catlog : f = [h EXCEPT !.pos = @ + 1]
  <2>1. PICK k \in Nat : k = h.pos + 1
    BY <1>4
  <2>2. [h EXCEPT !.pos = k] \in Catlog
    BY <1>h DEF Catlog
  <2> QED BY <2>1, <2>2
<1>8. /\ f.t = h.t /\ f.file = h.file /\ f.pos = h.pos + 1 /\ f.pc = "read"
  BY <1>1, <1>h, <1>4, <1>f DEF Catlog
<1>base. PICK base \in Seq(Catlog) : base = Append(Front(s), f)
  BY <1>3, TopOfStack
<1>9. Len(base) = n /\ base[n] = f /\ \A i \in 1..(n - 1) : base[i] = s[i]
  BY <1>3, <1>base, TopOfStack
<1>10. l.kind \in Follows => l.of \in Target
  BY DEF Line, Follows
<1>11. Enters(l) => l.of \in Target /\ l.of \notin reader.already
  BY <1>10 DEF Enters, Follows
<1>v0. PICK v0 \in Seq(Catlog) : v0 = IF Enters(l) THEN Append(base, Frame(l.of)) ELSE base
  <2>1. CASE Enters(l)
    <3>1. Frame(l.of) \in Catlog
      BY <1>11, <2>1, NewFrame DEF Commands
    <3> QED BY <2>1, <3>1, AppendProperties
  <2>2. CASE ~Enters(l)
    BY <2>2
  <2> QED BY <2>1, <2>2
<1>a0. PICK a0 \in SUBSET Commands :
        a0 = IF Enters(l) THEN reader.already \cup {l.of} ELSE reader.already
  BY <1>3, <1>11 DEF Readers, Commands
<1>s0. PICK s0 \in [Commands -> Seq(Line)] : s0 = [reader.shown EXCEPT ![h.t] = u]
  BY <1>3, <1>4 DEF Readers
<1>12. reader' = [reader EXCEPT !.shown = s0, !.stack = v0, !.already = a0]
  <2>1. reader' = [reader EXCEPT !.shown = [reader.shown EXCEPT ![h.t] = Append(@, l)],
                     !.stack = IF Enters(l) THEN Append(base, Frame(l.of)) ELSE base,
                     !.already = IF Enters(l) THEN @ \cup {l.of} ELSE @]
    BY <1>h, <1>w, <1>l, <1>f, <1>base DEF ReadLine, Log
  <2>2. [reader.shown EXCEPT ![h.t] = Append(@, l)] = s0
    BY <1>x, <1>u, <1>s0
  <2> QED BY <2>1, <2>2, <1>v0, <1>a0
<1>13. /\ reader' \in Readers /\ reader'.stack = v0 /\ reader'.shown = s0
       /\ reader'.already = IF Enters(l) THEN reader.already \cup {l.of} ELSE reader.already
       /\ reader'.on = reader.on /\ reader'.quiet = reader.quiet
  <2>1. /\ reader' \in Readers /\ reader'.stack = v0 /\ reader'.shown = s0 /\ reader'.already = a0
        /\ reader'.on = reader.on /\ reader'.quiet = reader.quiet
    BY <1>3, <1>12 DEF Readers
  <2> QED BY <2>1, <1>a0
<1>14. /\ v[n] = f /\ \A i \in 1..(n - 1) : v[i] = s[i]
       /\ Len(v) = IF Enters(l) THEN n + 1 ELSE n
       /\ Enters(l) => v[n + 1] = Frame(l.of)
  <2>1. CASE ~Enters(l)
    BY <1>9, <1>13, <1>v0, <2>1
  <2>2. CASE Enters(l)
    <3>1. PICK g \in Catlog : g = Frame(l.of)
      BY <1>11, <2>2, NewFrame DEF Commands
    <3>2. /\ v = Append(base, g) /\ Len(Append(base, g)) = Len(base) + 1
          /\ \A i \in 1..Len(base) : Append(base, g)[i] = base[i]
          /\ Append(base, g)[Len(base) + 1] = g
      BY <1>13, <1>v0, <2>2, <3>1, AppendProperties
    <3>3. n \in 1..Len(base) /\ \A i \in 1..(n - 1) : i \in 1..Len(base)
      BY <1>3, <1>9
    <3> QED BY <1>9, <2>2, <3>1, <3>2, <3>3
  <2> QED BY <2>1, <2>2
<1>s. reader'.shown[h.t] = u /\ \A q \in Commands \ {h.t} : reader'.shown[q] = reader.shown[q]
  BY <1>3, <1>4, <1>13, <1>s0 DEF Readers
<1> HIDE DEF v
<1>15. reader.already \subseteq reader'.already
  BY <1>13
<1>16. \A i \in 1..Len(v) : i \in 1..(n - 1) \/ i = n \/ (Enters(l) /\ i = n + 1)
  BY <1>3, <1>14
<1>17. n \in 1..Len(v) /\ \A i \in 1..(n - 1) : i \in 1..Len(v) /\ i \in 1..n
  BY <1>3, <1>14
<1>18. Enters(l) => /\ n + 1 \in 1..Len(v) /\ v[n + 1].t = l.of /\ v[n + 1].file = 0
                    /\ v[n + 1].pos = 0 /\ v[n + 1].pc = "read"
  <2>1. Enters(l) => l.of \in Commands
    BY <1>11 DEF Commands
  <2> QED BY <1>3, <1>14, <2>1, NewFrame
<1>19. Stack'
  <2>1. ASSUME NEW i \in 1..(n - 1) PROVE FrameOK(reader.stack[i])'
    <3>1. FrameOK(s[i]) /\ s[i] \in Catlog /\ s[i].t # h.t
      BY <1>1, <1>3, <1>17 DEF ReadInv, Stack
    <3>2. PICK g \in Catlog : g = s[i]
      BY <3>1
    <3>3. FrameOK(g)'
      BY <1>h, <1>1, <1>2, <1>13, <1>s, <1>15, <3>1, <3>2, UnderKeeps
    <3>4. reader'.stack[i] = g
      BY <1>14, <3>2 DEF v
    <3> QED BY <3>3, <3>4 DEF FrameOK
  <2>2. ASSUME NEW i \in 1..Len(v), i = n PROVE FrameOK(reader.stack[i])'
    <3>1. reader'.stack[i] = f
      BY <1>14, <2>2 DEF v
    <3>2. h.t = Top \/ h.t \in known
      BY <1>1, <1>h, <1>3 DEF FrameOK
    <3> QED BY <1>h, <1>w, <1>1, <1>2, <1>4, <1>6, <1>7, <1>8, <1>13, <1>s, <1>15, <3>1, <3>2 DEF FrameOK
  <2>3. ASSUME NEW i \in 1..Len(v), i = n + 1, Enters(l) PROVE FrameOK(reader.stack[i])'
    <3>1. l.of \in Target /\ l.of \in Commands /\ l.of \notin reader.already
      BY <1>11, <2>3 DEF Commands
    <3>2. reader.shown[l.of] = <<>>
      BY <1>1, <3>1 DEF ReadInv, Printed
    <3>3. reader'.shown[l.of] = <<>>
      BY <1>4, <1>13, <1>s, <3>1, <3>2
    <3>4. /\ reader'.stack[i].t = l.of /\ reader'.stack[i].file = 0
          /\ reader'.stack[i].pos = 0 /\ reader'.stack[i].pc = "read"
      BY <1>18, <2>3 DEF v
    <3> QED BY <1>13, <1>s, <2>3, <3>1, <3>3, <3>4 DEF FrameOK
  <2> QED BY <1>16, <2>1, <2>2, <2>3 DEF Stack, v
<1>20. Apart'
  <2>1. \A i \in 1..n : v[i].t = s[i].t /\ s[i].t \in reader.already
    <3>1. \A i \in 1..n : i = n \/ i \in 1..(n - 1)
      BY <1>3
    <3>2. \A i \in 1..n : v[i].t = s[i].t
      BY <1>3, <1>8, <1>14, <3>1
    <3> QED BY <1>1, <3>2 DEF ReadInv, Stack, FrameOK
  <2>2. \A i \in 1..Len(v) : i \in 1..n \/ (Enters(l) /\ i = n + 1)
    BY <1>3, <1>14
  <2>3. \A i, j \in 1..n : v[i].t = v[j].t => i = j
    BY <1>1, <2>1 DEF ReadInv, Apart
  <2>4. ASSUME NEW i \in 1..Len(v), NEW j \in 1..Len(v), v[i].t = v[j].t PROVE i = j
    <3>1. Enters(l) => v[n + 1].t = l.of /\ l.of \notin reader.already
      BY <1>11, <1>18
    <3>2. Enters(l) => \A k \in 1..n : v[k].t # v[n + 1].t
      BY <2>1, <3>1
    <3>3. CASE i \in 1..n /\ j \in 1..n
      BY <2>3, <2>4, <3>3
    <3>4. CASE Enters(l) /\ i = n + 1
      BY <2>2, <2>4, <3>2, <3>4
    <3>5. CASE Enters(l) /\ j = n + 1
      BY <2>2, <2>4, <3>2, <3>5
    <3> QED BY <2>2, <3>3, <3>4, <3>5
  <2> QED BY <2>4 DEF Apart, v
<1>21. ASSUME NEW q \in Commands PROVE Printed(q)'
  <2>1. CASE q = h.t
    BY <1>2, <1>4, <1>w, <1>7, <1>s, <1>15, <2>1 DEF Printed
  <2>2. CASE q # h.t
    BY <1>1, <1>2, <1>13, <1>s, <1>15, <2>2 DEF ReadInv, Printed
  <2> QED BY <2>1, <2>2
<1>22. reader.on
  BY <1>1, <1>3 DEF ReadInv
<1>23. ReadInv'
  BY <1>13, <1>s, <1>19, <1>20, <1>21, <1>22 DEF ReadInv
<1>24. Root' = Root /\ Over' = Over
  BY <1>2 DEF Root, Script, Over
<1>25. ASSUME Whole, Over, setup.mode = "cat" PROVE Whole'
  <2>1. Root \in reader'.already /\ reader'.already \subseteq Target
    BY <1>11, <1>13, <1>s, <1>25 DEF Whole
  <2>k. reader'.already \subseteq known
    <3>1. Enters(l) => l.kind \in Follows
      BY DEF Enters, Follows
    <3>2. Told(w)
      BY <1>4, <1>w DEF Recorded
    <3>3. Enters(l) => l.of \in known
      BY <1>1, <1>5, <1>l, <1>25, <3>1, <3>2, NoneFresh DEF Told
    <3> QED BY <1>13, <1>25, <3>3 DEF Whole
  <2>2. ASSUME NEW i \in 1..Len(v), v[i].file # 0 PROVE v[i].file = Len(log[v[i].t])
    <3>1. CASE i \in 1..(n - 1)
      BY <1>14, <1>17, <1>25, <2>2, <3>1 DEF Whole
    <3>2. CASE i = n
      <4>1. n \in 1..n
        BY <1>3
      <4>2. v[i] = f /\ h.file # 0 /\ h = reader.stack[n]
        BY <1>3, <1>8, <1>14, <2>2, <3>2
      <4>3. h.file = Len(log[h.t])
        BY <1>25, <4>1, <4>2 DEF Whole
      <4> QED BY <1>8, <4>2, <4>3
    <3>3. CASE Enters(l) /\ i = n + 1
      BY <1>18, <2>2, <3>3
    <3> QED BY <1>16, <3>1, <3>2, <3>3
  <2>3. ASSUME NEW t \in reader'.already
        PROVE  \/ log[t] = <<>> \/ reader'.shown[t] = Last(log[t])
               \/ \E i \in 1..Len(v) : v[i].t = t
    <3>1. CASE t = h.t
      BY <1>8, <1>14, <1>17, <3>1
    <3>2. CASE Enters(l) /\ t = l.of
      BY <1>18, <3>2
    <3>3. CASE t \in reader.already /\ t # h.t
      <4>1. t \in Commands /\ reader'.shown[t] = reader.shown[t]
        BY <1>3, <1>13, <1>s, <3>3 DEF Readers
      <4>2. CASE \E i \in 1..n : s[i].t = t
        <5>1. PICK i \in 1..n : s[i].t = t
          BY <4>2
        <5>2. i \in 1..(n - 1)
          BY <1>3, <3>3, <5>1
        <5> QED BY <1>14, <1>17, <5>1, <5>2
      <4> QED BY <1>25, <3>3, <4>1, <4>2 DEF Whole
    <3> QED BY <1>13, <1>s, <3>1, <3>2, <3>3
  <2>4. ASSUME NEW q \in Commands, NEW i \in 1..Len(reader'.shown[q]),
               reader'.shown[q][i].kind \in Follows
        PROVE  reader'.shown[q][i].of \in reader'.already
    <3>1. CASE q # h.t
      BY <1>13, <1>s, <1>15, <1>25, <2>4, <3>1 DEF Whole
    <3>2. CASE q = h.t /\ i = h.pos + 1
      <4>1. reader'.shown[q][i] = l
        BY <1>6, <1>s, <3>2
      <4>2. Enters(l) \/ l.of \in reader.already
        BY <1>25, <2>4, <4>1 DEF Enters, Follows
      <4> QED BY <1>13, <1>s, <4>1, <4>2
    <3>3. CASE q = h.t /\ i # h.pos + 1
      <4>1. i \in 1..Len(reader.shown[h.t])
        BY <1>4, <1>6, <1>s, <3>3
      <4>2. reader'.shown[q][i] = reader.shown[h.t][i]
        BY <1>4, <1>x, <1>6, <1>s, <3>3, <4>1
      <4> QED BY <1>4, <1>15, <1>25, <2>4, <4>1, <4>2 DEF Whole
    <3> QED BY <3>1, <3>2, <3>3
  <2> QED BY <1>2, <1>24, <2>1, <2>k, <2>2, <2>3, <2>4 DEF Whole, v
<1>26. Quiet'
  BY <1>1, <1>2, <1>13, <1>s, <1>24, <1>25 DEF Quiet
<1> QED BY <1>2, <1>23, <1>26 DEF LogInv

-----------------------------------------------------------------------------
(* Who is named is known. *)

(* A step that deals with c and names nobody else. *)
LEMMA AskRecords ==
    ASSUME BuildTypes, Recorded, NEW p \in Commands, NEW c \in Target, NEW s \in Asked,
           Now(p, c, s), known \subseteq known', known' \subseteq Target,
           c \in known' \/ (p = Top /\ s \in {"forking", "pool"}),
           built' \subseteq built \cup {c}, built' \subseteq known',
           \A d \in Target \ {c} : lock'[d] = lock[d],
           \/ log' = log
           \/ log[p] # <<>> /\ \E lines \in Seq(Line) :
                Emit(p, lines) /\ \A i \in 1..Len(lines) : lines[i].kind \in Follows => lines[i].of = c
    PROVE  Recorded'
<1>1. /\ ask' \in [Commands -> [Target -> Asked]]
      /\ ask'[p][c] = s /\ \A d \in Target \ {c} : ask'[p][d] = ask[p][d]
      /\ \A q \in Commands \ {p} : ask'[q] = ask[q]
  BY DEF BuildTypes, Now
<1>2. Top \in Commands
  BY DEF Commands
<1>3. \A d \in Target \ {c} : d \in Fresh => d \in Fresh'
  BY <1>1, <1>2 DEF Fresh
<1>4. c \in known' \cup Fresh'
  BY <1>1, <1>2 DEF Fresh
<1>5. ASSUME NEW d \in known \cup Fresh PROVE d \in known' \cup Fresh'
  BY <1>3, <1>4, <1>5 DEF Fresh
<1>6. ASSUME NEW q \in Commands, NEW d \in Target, ask'[q][d] # "no"
      PROVE  d \in known' \/ (q = Top /\ d \in Fresh')
  <2>1. CASE q = p /\ d = c
    BY <1>1, <1>2, <2>1 DEF Fresh
  <2>2. CASE ~(q = p /\ d = c) /\ d # c
    <3>1. ask[q][d] # "no"
      BY <1>1, <1>6, <2>2
    <3> QED BY <1>3, <2>2, <3>1 DEF Recorded
  <2>3. CASE q # p /\ d = c
    <3>1. ask[q][d] # "no" /\ ask'[q] = ask[q]
      BY <1>1, <1>6, <2>3
    <3>2. d \in known \/ (q = Top /\ d \in Fresh)
      BY <3>1 DEF Recorded
    <3> QED BY <2>3, <3>1, <3>2 DEF Fresh
  <2> QED BY <2>1, <2>2, <2>3
<1>7. \A d \in Target : lock'[d] # None => d \in known' \cup Fresh'
  BY <1>4, <1>5 DEF Recorded
<1>8. ASSUME NEW q \in Commands, NEW g \in 1..Len(log'[q]) PROVE Told(log[q][g])'
  <2>1. ASSUME NEW w, Told(w) PROVE \A i \in 1..Len(w) : w[i].kind \in Follows => w[i].of \in known' \cup Fresh'
    BY <1>5, <2>1 DEF Told
  <2>2. CASE log'[q] = log[q]
    BY <1>8, <2>1, <2>2 DEF Recorded, Told
  <2>3. CASE log'[q] # log[q]
    <3>1. /\ log' # log /\ log[p] # <<>>
      BY <2>3
    <3>2. PICK lines \in Seq(Line) :
            Emit(p, lines) /\ \A i \in 1..Len(lines) : lines[i].kind \in Follows => lines[i].of = c
      BY <3>1
    <3>3. q = p /\ log[p] \in Logs
      BY <2>3, <3>2 DEF Emit, BuildTypes
    <3>4. PICK w \in Logs : w = log[p]
      BY <3>3
    <3>5. Len(w) \in Nat \ {0} /\ Len(w) \in 1..Len(w) /\ w[Len(w)] \in Seq(Line)
      BY <3>1, <3>4, NewestLog
    <3>6. PICK x \in Seq(Line) : x = w[Len(w)] \o lines
      BY <3>5, ConcatProperties
    <3>7. /\ Len(x) = Len(w[Len(w)]) + Len(lines)
          /\ \A i \in 1..Len(w[Len(w)]) : x[i] = w[Len(w)][i]
          /\ \A i \in 1..Len(lines) : x[Len(w[Len(w)]) + i] = lines[i]
      BY <3>5, <3>6
    <3>8. log'[p] = [w EXCEPT ![Len(w)] = x]
      BY <3>2, <3>4, <3>6 DEF Emit, BuildTypes
    <3>9. /\ Len([w EXCEPT ![Len(w)] = x]) = Len(w) /\ [w EXCEPT ![Len(w)] = x][Len(w)] = x
          /\ \A k \in 1..Len(w) : k # Len(w) => [w EXCEPT ![Len(w)] = x][k] = w[k]
      BY <3>5 DEF Logs
    <3>10. CASE g # Len(w)
      <4>1. g \in 1..Len(log[p]) /\ log'[q][g] = log[p][g]
        BY <1>8, <3>3, <3>4, <3>8, <3>9, <3>10
      <4> QED BY <2>1, <4>1 DEF Recorded, Told
    <3>11. CASE g = Len(w)
      <4>1. Told(w[Len(w)]) /\ log'[q][g] = x
        BY <3>3, <3>4, <3>5, <3>8, <3>9, <3>11 DEF Recorded
      <4>2. ASSUME NEW i \in 1..Len(x), x[i].kind \in Follows PROVE x[i].of \in known' \cup Fresh'
        <5>1. Len(w[Len(w)]) \in Nat /\ Len(lines) \in Nat
          BY <3>5
        <5>2. CASE i \in 1..Len(w[Len(w)])
          BY <2>1, <3>7, <4>1, <4>2, <5>2
        <5>3. CASE i \notin 1..Len(w[Len(w)])
          <6>1. PICK j \in 1..Len(lines) : i = Len(w[Len(w)]) + j
            <7>1. i - Len(w[Len(w)]) \in 1..Len(lines)
              BY <3>7, <5>1, <5>3
            <7> QED BY <5>1, <7>1
          <6>2. x[i].of = c
            BY <3>2, <3>7, <4>2, <6>1
          <6> QED BY <1>4, <6>2
        <5> QED BY <5>2, <5>3
      <4> QED BY <4>1, <4>2 DEF Told
    <3> QED BY <3>10, <3>11
  <2> QED BY <2>2, <2>3
<1> QED BY <1>6, <1>7, <1>8 DEF Recorded

(* One line about c, or two. *)
LEMMA LinesOf ==
    ASSUME NEW c \in Target, NEW k \in Follows \cup {"done"}, NEW m \in Follows \cup {"done"}
    PROVE  /\ <<Meta(k, c)>> \in Seq(Line) /\ Append(<<Meta(m, c)>>, Meta(k, c)) \in Seq(Line)
           /\ Append(<<>>, Meta(k, c)) \in Seq(Line)
           /\ \A i \in 1..Len(<<Meta(k, c)>>) : <<Meta(k, c)>>[i].of = c
           /\ \A i \in 1..Len(Append(<<>>, Meta(k, c))) : Append(<<>>, Meta(k, c))[i].of = c
           /\ \A i \in 1..Len(Append(<<Meta(m, c)>>, Meta(k, c))) :
                Append(<<Meta(m, c)>>, Meta(k, c))[i].of = c
<1>1. Meta(k, c) \in Line /\ Meta(m, c) \in Line /\ Meta(k, c).of = c /\ Meta(m, c).of = c
  BY DEF Meta, Line
<1>2. ASSUME NEW x \in Line, NEW y \in Line, x.of = c, y.of = c
      PROVE  /\ <<x>> \in Seq(Line) /\ Append(<<y>>, x) \in Seq(Line) /\ Append(<<>>, x) \in Seq(Line)
             /\ \A i \in 1..Len(<<x>>) : <<x>>[i].of = c
             /\ \A i \in 1..Len(Append(<<>>, x)) : Append(<<>>, x)[i].of = c
             /\ \A i \in 1..Len(Append(<<y>>, x)) : Append(<<y>>, x)[i].of = c
  BY <1>2
<1> QED BY <1>1, <1>2

LEMMA ConsiderRecords ==
    ASSUME BuildInv, Recorded, NEW p \in Commands, NEW c \in Target, Doing(p),
           NEW m \in Follows, NEW lines \in {<<>>, <<Meta(m, c)>>},
           Consider(p, c, lines), known \subseteq known', known' \subseteq Target, built' = built,
           c \in known' \/ p = Top
    PROVE  Recorded'
<1>1. BuildTypes /\ log[p] # <<>>
  BY DEF BuildInv, Stage, Doing
<1>2. CASE c \in built
  <2>1. /\ Emit(p, Append(lines, Meta("unchanged", c))) /\ Now(p, c, "over") /\ UNCHANGED lock
    BY <1>2 DEF Consider
  <2>2. /\ Append(lines, Meta("unchanged", c)) \in Seq(Line)
        /\ \A i \in 1..Len(Append(lines, Meta("unchanged", c))) : Append(lines, Meta("unchanged", c))[i].of = c
    <3>1. CASE lines = <<>>
      BY <3>1, LinesOf DEF Follows
    <3>2. CASE lines = <<Meta(m, c)>>
      <4>1. "unchanged" \in Follows \cup {"done"} /\ m \in Follows \cup {"done"}
        BY DEF Follows
      <4>2. PICK k \in Follows \cup {"done"} : k = "unchanged"
        BY <4>1
      <4>3. PICK n \in Follows \cup {"done"} : n = m
        BY <4>1
      <4>4. /\ Append(<<Meta(n, c)>>, Meta(k, c)) \in Seq(Line)
            /\ \A i \in 1..Len(Append(<<Meta(n, c)>>, Meta(k, c))) :
                 Append(<<Meta(n, c)>>, Meta(k, c))[i].of = c
        BY LinesOf
      <4> QED BY <3>2, <4>2, <4>3, <4>4, Zenon
    <3> QED BY <3>1, <3>2
  <2>3. c \in known /\ built \subseteq known
    BY <1>2 DEF Recorded
  <2> QED BY <1>1, <2>1, <2>2, <2>3, AskRecords DEF Asked
<1>3. CASE c \notin built
  <2>1. /\ Emit(p, Append(lines, Meta("do", c))) /\ Now(p, c, "forking") /\ Take(p, c)
    BY <1>3 DEF Consider
  <2>2. /\ Append(lines, Meta("do", c)) \in Seq(Line)
        /\ \A i \in 1..Len(Append(lines, Meta("do", c))) : Append(lines, Meta("do", c))[i].of = c
    <3>1. CASE lines = <<>>
      BY <3>1, LinesOf DEF Follows
    <3>2. CASE lines = <<Meta(m, c)>>
      <4>1. "do" \in Follows \cup {"done"} /\ m \in Follows \cup {"done"}
        BY DEF Follows
      <4>2. PICK k \in Follows \cup {"done"} : k = "do"
        BY <4>1
      <4>3. PICK n \in Follows \cup {"done"} : n = m
        BY <4>1
      <4>4. /\ Append(<<Meta(n, c)>>, Meta(k, c)) \in Seq(Line)
            /\ \A i \in 1..Len(Append(<<Meta(n, c)>>, Meta(k, c))) :
                 Append(<<Meta(n, c)>>, Meta(k, c))[i].of = c
        BY LinesOf
      <4> QED BY <3>2, <4>2, <4>3, <4>4, Zenon
    <3> QED BY <3>1, <3>2
  <2>3. built \subseteq known /\ \A d \in Target \ {c} : lock'[d] = lock[d]
    BY <1>1, <2>1 DEF Recorded, Take, BuildTypes
  <2> QED BY <1>1, <2>1, <2>2, <2>3, AskRecords DEF Asked
<1> QED BY <1>2, <1>3

(* A line that names nobody. *)
LEMMA SayRecords ==
    ASSUME BuildTypes, Recorded, NEW p \in Commands, log[p] # <<>>, NEW l \in Line, l.kind = "say",
           Emit(p, <<l>>), UNCHANGED <<lock, ask, built, known>>
    PROVE  Recorded'
<1>1. Fresh' = Fresh
  BY DEF Fresh
<1>2. PICK w \in Logs : w = log[p]
  BY DEF BuildTypes
<1>3. Len(w) \in Nat \ {0} /\ Len(w) \in 1..Len(w) /\ w[Len(w)] \in Seq(Line)
  BY <1>2, NewestLog
<1>4. PICK x \in Seq(Line) : x = w[Len(w)] \o <<l>>
  <2>1. <<l>> \in Seq(Line)
    OBVIOUS
  <2> QED BY <1>3, <2>1, ConcatProperties
<1>5. /\ Len(x) = Len(w[Len(w)]) + 1 /\ x[Len(w[Len(w)]) + 1] = l
      /\ \A i \in 1..Len(w[Len(w)]) : x[i] = w[Len(w)][i]
  BY <1>3, <1>4
<1>6. log'[p] = [w EXCEPT ![Len(w)] = x] /\ \A q \in Commands \ {p} : log'[q] = log[q]
  BY <1>2, <1>4 DEF Emit, BuildTypes
<1>7. /\ Len([w EXCEPT ![Len(w)] = x]) = Len(w) /\ [w EXCEPT ![Len(w)] = x][Len(w)] = x
      /\ \A k \in 1..Len(w) : k # Len(w) => [w EXCEPT ![Len(w)] = x][k] = w[k]
  BY <1>3 DEF Logs
<1>8. ASSUME NEW q \in Commands, NEW g \in 1..Len(log'[q]) PROVE Told(log[q][g])'
  <2>1. CASE q # p \/ g # Len(w)
    <3>1. g \in 1..Len(log[q]) /\ log'[q][g] = log[q][g]
      BY <1>2, <1>6, <1>7, <1>8, <2>1
    <3> QED BY <1>1, <3>1 DEF Recorded, Told
  <2>2. CASE q = p /\ g = Len(w)
    <3>1. log'[q][g] = x /\ Told(w[Len(w)])
      BY <1>2, <1>3, <1>6, <1>7, <2>2 DEF Recorded
    <3>2. \A i \in 1..Len(x) : i \in 1..Len(w[Len(w)]) \/ x[i] = l
      BY <1>3, <1>5
    <3> QED BY <1>1, <1>5, <3>1, <3>2 DEF Told, Follows
  <2> QED BY <2>1, <2>2
<1> QED BY <1>1, <1>8 DEF Recorded

LEMMA BuildRecords ==
    ASSUME BuildInv, Recorded, NEW p \in Commands, Build(p)
    PROVE  Recorded'
<1>1. BuildTypes /\ Stage(p) /\ (Doing(p) => log[p] # <<>>) /\ Top \in Commands /\ Top \notin Target
  BY SetupTypes DEF BuildInv, BuildTypes, Stage, Doing
<1>2. built \subseteq known /\ known \subseteq Target
  BY DEF Recorded
<1>3. Doing(p) => Item(p) \subseteq Target
  <2>1. Script[p] \in Seq(SUBSET Target) /\ at[p] \in Nat
    BY <1>1, SetupTypes DEF BuildTypes
  <2> QED BY <2>1 DEF Doing, Item
<1>4. ASSUME NEW c \in Target, FirstPass(p, c) PROVE Recorded'
  <2>1. /\ Doing(p) /\ c \in Item(p) /\ ask[p][c] = "no" /\ built' = built
        /\ known' = IF p = Top THEN known ELSE known \cup Item(p)
        /\ IF lock[c] = None THEN Consider(p, c, <<>>)
           ELSE Emit(p, <<Meta("locked", c)>>) /\ Now(p, c, "locked") /\ UNCHANGED lock
    BY <1>4 DEF FirstPass, Is
  <2>2. known \subseteq known' /\ known' \subseteq Target /\ (p # Top => c \in known')
    BY <1>2, <1>3, <2>1
  <2>3. CASE lock[c] = None
    BY <2>1, <2>2, <2>3, ConsiderRecords DEF Follows
  <2>4. CASE lock[c] # None
    <3>1. c \in known'
      BY <2>1, <2>2, <2>4 DEF Recorded, Fresh
    <3>2. /\ <<Meta("locked", c)>> \in Seq(Line)
          /\ \A i \in 1..Len(<<Meta("locked", c)>>) : <<Meta("locked", c)>>[i].of = c
      BY LinesOf DEF Follows
    <3> QED BY <1>1, <1>2, <2>1, <2>2, <2>4, <3>1, <3>2, AskRecords DEF Asked
  <2> QED BY <2>3, <2>4
<1>5. ASSUME NEW c \in Target, ask[p][c] # "no" PROVE Doing(p) /\ c \in Item(p) /\ log[p] # <<>>
  BY <1>1, <1>5 DEF Stage
<1>6. ASSUME NEW c \in Target, PoolPass(p, c) PROVE Recorded'
  <2>1. /\ Doing(p) /\ ask[p][c] = "pool" /\ InHand(p) = {} /\ built' = built /\ known' = known
        /\ IF lock[c] = None THEN Consider(p, c, <<>>)
           ELSE Emit(p, <<Meta("locked", c)>>) /\ Now(p, c, "locked") /\ UNCHANGED lock
    BY <1>6 DEF PoolPass
  <2>2. c \in known
    BY <1>5, <2>1 DEF InHand, Is
  <2>3. CASE lock[c] = None
    BY <1>2, <2>1, <2>2, <2>3, ConsiderRecords DEF Follows
  <2>4. CASE lock[c] # None
    <3>2. /\ <<Meta("locked", c)>> \in Seq(Line)
          /\ \A i \in 1..Len(<<Meta("locked", c)>>) : <<Meta("locked", c)>>[i].of = c
      BY LinesOf DEF Follows
    <3> QED BY <1>1, <1>2, <2>1, <2>2, <2>4, <3>2, AskRecords DEF Asked
  <2> QED BY <2>3, <2>4
<1>7. ASSUME NEW c \in Target, SecondPass(p, c) PROVE Recorded'
  <2>1. /\ Doing(p) /\ ask[p][c] \in {"locked", "waiting", "again"} /\ built' = built /\ known' = known
        /\ \/ Consider(p, c, <<Meta("unlocked", c)>>)
           \/ Emit(p, WaitLine(p, c)) /\ Now(p, c, "waiting") /\ UNCHANGED lock
           \/ Now(p, c, "again") /\ UNCHANGED <<lock, log>>
    BY <1>7 DEF SecondPass
  <2>2. c \in known
    BY <2>1 DEF Recorded, Fresh
  <2>3. CASE Consider(p, c, <<Meta("unlocked", c)>>)
    BY <1>2, <2>1, <2>2, <2>3, ConsiderRecords DEF Follows
  <2>4. CASE Emit(p, WaitLine(p, c)) /\ Now(p, c, "waiting") /\ UNCHANGED lock
    <3>1. /\ <<Meta("waiting", c)>> \in Seq(Line)
          /\ \A i \in 1..Len(<<Meta("waiting", c)>>) : <<Meta("waiting", c)>>[i].of = c
      BY LinesOf DEF Follows
    <3>2. <<>> \in Seq(Line) /\ \A i \in 1..Len(<<>>) : FALSE
      BY EmptySeq
    <3>3. PICK w \in Seq(Line) : w = WaitLine(p, c) /\ \A i \in 1..Len(w) : w[i].kind \in Follows => w[i].of = c
      BY <3>1, <3>2 DEF WaitLine
    <3> QED BY <1>1, <1>2, <2>1, <2>2, <2>4, <3>3, AskRecords DEF Asked
  <2>5. CASE Now(p, c, "again") /\ UNCHANGED <<lock, log>>
    BY <1>1, <1>2, <2>1, <2>2, <2>5, AskRecords DEF Asked
  <2> QED BY <2>1, <2>3, <2>4, <2>5
<1>8. ASSUME NEW c \in Target, Defer(p, c) PROVE Recorded'
  <2>1. /\ ask[p][c] = "forking" /\ Unlock(c) /\ Emit(p, <<Meta("waiting", c)>>) /\ Now(p, c, "pool")
        /\ built' = built /\ known' = known
    BY <1>8 DEF Defer
  <2>2. c \in known \/ p = Top
    BY <2>1 DEF Recorded
  <2>3. /\ <<Meta("waiting", c)>> \in Seq(Line)
        /\ \A i \in 1..Len(<<Meta("waiting", c)>>) : <<Meta("waiting", c)>>[i].of = c
    BY LinesOf DEF Follows
  <2>4. \A d \in Target \ {c} : lock'[d] = lock[d]
    BY <1>1, <2>1 DEF Unlock, BuildTypes
  <2> QED BY <1>1, <1>2, <1>5, <2>1, <2>2, <2>3, <2>4, AskRecords DEF Asked
<1>9. ASSUME NEW c \in Target, Hit(p, c) \/ Finish(p, c) PROVE Recorded'
  <2>1. /\ ask[p][c] \in {"forking", "running"} /\ Unlock(c) /\ Emit(p, <<Meta("done", c)>>) /\ Now(p, c, "over")
        /\ built' = built \cup {c} /\ known' = known
        /\ c \in known \/ ask[p][c] = "running"
    BY <1>9 DEF Hit, Finish
  <2>2. c \in known
    BY <2>1 DEF Recorded, Fresh
  <2>3. /\ <<Meta("done", c)>> \in Seq(Line)
        /\ \A i \in 1..Len(<<Meta("done", c)>>) : <<Meta("done", c)>>[i].of = c
    BY LinesOf DEF Follows
  <2>4. \A d \in Target \ {c} : lock'[d] = lock[d]
    BY <1>1, <2>1 DEF Unlock, BuildTypes
  <2> QED BY <1>1, <1>2, <1>5, <2>1, <2>2, <2>3, <2>4, AskRecords DEF Asked
<1>10. ASSUME NEW c \in Target, Fork(p, c) PROVE Recorded'
  BY <1>1, <1>2, <1>10, AskRecords DEF Fork, Asked
<1>11. ASSUME NEW c \in Target, Record(p, c) PROVE Recorded'
  <2>1. known' = known \cup {c} /\ UNCHANGED <<lock, ask, built, log>>
    BY <1>11 DEF Record
  <2>2. Fresh' = Fresh
    BY <2>1 DEF Fresh
  <2> QED BY <2>1, <2>2 DEF Recorded, Told
<1>12. ASSUME WriteLine(p) PROVE Recorded'
  <2>1. /\ Doing(p) /\ Emit(p, <<Say(1, at[p])>>) /\ UNCHANGED <<lock, ask, built, known>>
    BY <1>12 DEF WriteLine
  <2>2. Say(1, at[p]) \in Line /\ Say(1, at[p]).kind = "say"
    BY <1>1 DEF Say, Line, BuildTypes
  <2> QED BY <1>1, <2>1, <2>2, SayRecords
<1>13. ASSUME Return(p) PROVE Recorded'
  <2>1. /\ Doing(p) /\ \A c \in Item(p) : ask[p][c] = "over"
        /\ ask' = [ask EXCEPT ![p] = [c \in Target |-> "no"]] /\ UNCHANGED <<lock, built, known, log>>
    BY <1>13 DEF Return
  <2>2. \A c \in Target : ask[p][c] # "no" => ask[p][c] = "over"
    BY <1>5, <2>1
  <2>3. \A q \in Commands, c \in Target : ask'[q][c] = (IF q = p THEN "no" ELSE ask[q][c])
    BY <1>1, <2>1 DEF BuildTypes
  <2>4. Fresh' = Fresh
    BY <1>1, <2>2, <2>3 DEF Fresh
  <2> QED BY <2>1, <2>3, <2>4 DEF Recorded, Told
<1>14. ASSUME p \in Target, ExecDofile(p) PROVE Recorded'
  <2>1. log' = [log EXCEPT ![p] = Append(@, <<>>)] /\ UNCHANGED <<lock, ask, built, known>>
    BY <1>14 DEF ExecDofile
  <2>2. Fresh' = Fresh
    BY <2>1 DEF Fresh
  <2>3. PICK w \in Logs : w = log[p]
    BY <1>1 DEF BuildTypes
  <2>4. /\ Len(Append(w, <<>>)) = Len(w) + 1 /\ Len(w) \in Nat /\ Append(w, <<>>)[Len(w) + 1] = <<>>
        /\ \A g \in 1..Len(w) : Append(w, <<>>)[g] = w[g]
    <3>1. <<>> \in Seq(Line)
      OBVIOUS
    <3> QED BY <3>1, AppendProperties DEF Logs
  <2>5. log'[p] = Append(w, <<>>) /\ \A q \in Commands \ {p} : log'[q] = log[q]
    BY <1>1, <2>1, <2>3 DEF BuildTypes
  <2>6. ASSUME NEW g \in 1..Len(log'[p]) PROVE Told(log[p][g])'
    <3>1. CASE g \in 1..Len(w)
      <4>1. g \in 1..Len(log[p]) /\ log'[p][g] = log[p][g]
        BY <2>3, <2>4, <2>5, <3>1
      <4> QED BY <2>1, <2>2, <4>1 DEF Recorded, Told
    <3>2. CASE g \notin 1..Len(w)
      <4>1. log'[p][g] = <<>> /\ \A i \in 1..Len(<<>>) : FALSE
        BY <2>4, <2>5, <2>6, <3>2, EmptySeq
      <4> QED BY <4>1 DEF Told
    <3> QED BY <3>1, <3>2
  <2>7. ASSUME NEW q \in Commands, NEW g \in 1..Len(log'[q]) PROVE Told(log[q][g])'
    <3>1. CASE q # p
      BY <2>1, <2>2, <2>5, <2>7, <3>1 DEF Recorded, Told
    <3> QED BY <2>6, <2>7, <3>1
  <2> QED BY <2>1, <2>2, <2>7 DEF Recorded
<1> QED
  BY <1>4, <1>6, <1>7, <1>8, <1>9, <1>10, <1>11, <1>12, <1>13, <1>14 DEF Build

(* What redo-log does to a lock. *)
LEMMA ReadRecords ==
    ASSUME LogInv, Recorded, Start \/ RedoLog \/ GraceOver \/ UNCHANGED vars
    PROVE  Recorded'
<1>1. UNCHANGED <<ask, built, known, log>>
  BY DEF Start, RedoLog, NotKnown, OpenLog, ReadLine, EndOfFile, IsLocked, NotLocked, GraceOver,
         buildVars, vars
<1>2. Fresh' = Fresh
  BY <1>1 DEF Fresh
<1>3. \A t \in Target : lock'[t] # None => lock[t] # None \/ t \in known
  <2>1. CASE IsLocked /\ lock[Cur.t] = None
    <3>1. BuildTypes /\ lock' = [lock EXCEPT ![Cur.t] = Reader] /\ Cur.pc = "eof" /\ Reading /\ ReadInv
      BY <2>1 DEF IsLocked, Take, LogInv, BuildInv
    <3>2. FrameOK(Cur)
      BY <3>1, CurFrame
    <3>3. Cur.t \in known
      BY <3>1, <3>2 DEF FrameOK
    <3> QED BY <3>1, <3>3 DEF BuildTypes
  <2>2. CASE NotLocked
    BY <2>2 DEF NotLocked, Unlock, LogInv, BuildInv, BuildTypes
  <2>3. CASE lock' = lock
    BY <2>3
  <2> QED BY <2>1, <2>2, <2>3 DEF Start, RedoLog, NotKnown, OpenLog, ReadLine, EndOfFile, IsLocked,
             GraceOver, buildVars, vars
<1> QED BY <1>1, <1>2, <1>3 DEF Recorded, Told

LEMMA NextRecords ==
    ASSUME LogInv, Recorded, [Next]_vars PROVE Recorded'
BY BuildRecords, ReadRecords DEF Next, LogInv

LEMMA InitRecords ==
    ASSUME Init PROVE Recorded
<1>1. /\ setup \in Setups /\ lock = [t \in Target |-> None] /\ built = {}
      /\ ask = [p \in Commands |-> [t \in Target |-> "no"]]
  BY DEF Init
<1>2. PICK logged \in {{}, Target} :
        /\ known = logged
        /\ log = [p \in Commands |-> IF p = Top THEN <<<<>>>>
                                     ELSE IF p \in logged THEN <<setup.old[p]>> ELSE <<>>]
  BY DEF Init
<1>3. setup.old \in [Target -> Seq(Line)] /\ Top \notin Target
  BY <1>1, SetupTypes
<1>4. ASSUME NEW p \in Commands, NEW g \in 1..Len(log[p]) PROVE Told(log[p][g])
  <2>1. CASE p = Top
    <3>1. log[p] = <<<<>>>>
      BY <1>2, <2>1
    <3>2. log[p][g] = <<>> /\ \A i \in 1..Len(<<>>) : FALSE
      BY <1>4, <3>1, EmptySeq
    <3> QED BY <3>2 DEF Told
  <2>2. CASE p \in Target /\ logged = {}
    <3>1. log[p] = <<>>
      BY <1>2, <1>3, <2>2
    <3> QED BY <1>4, <3>1, EmptySeq
  <2>3. CASE p \in Target /\ logged = Target
    <3>1. log[p] = <<setup.old[p]>> /\ known = Target
      BY <1>2, <1>3, <2>3
    <3>2. PICK o \in Seq(Line) : o = setup.old[p]
      BY <1>3, <2>3
    <3>3. log[p][g] = o
      BY <1>4, <3>1, <3>2
    <3>4. \A l \in Line : l.kind \in Follows => l.of \in Target
      BY DEF Line, Follows
    <3>5. \A i \in 1..Len(o) : o[i] \in Line
      OBVIOUS
    <3> QED BY <3>1, <3>3, <3>4, <3>5 DEF Told
  <2> QED BY <1>2, <2>1, <2>2, <2>3 DEF Commands
<1> QED BY <1>1, <1>2, <1>4 DEF Recorded, Commands

-----------------------------------------------------------------------------
(* At first the only logs are the ones of earlier runs. *)
LEMMA InitInv ==
    ASSUME Init PROVE LogInv
<1>1. /\ setup \in Setups /\ lock = [t \in Target |-> None]
      /\ ask = [p \in Commands |-> [t \in Target |-> "no"]]
      /\ at = [p \in Commands |-> IF p = Top THEN 1 ELSE 0]
      /\ reader = [on |-> FALSE, quiet |-> FALSE, stack |-> <<>>,
                   already |-> {}, shown |-> [p \in Commands |-> <<>>]]
  BY DEF Init
<1>2. PICK logged \in {{}, Target} :
        log = [p \in Commands |-> IF p = Top THEN <<<<>>>>
                                  ELSE IF p \in logged THEN <<setup.old[p]>> ELSE <<>>]
  BY DEF Init
<1>3. /\ Script \in [Commands -> Seq(SUBSET Target)] /\ setup.old \in [Target -> Seq(Line)]
      /\ Top \in Commands /\ Top \notin Target /\ Len(Script[Top]) >= 1
  BY <1>1, SetupTypes
<1>4. \A p \in Commands : Len(Script[p]) \in Nat
  BY <1>3
<1>5. \A p \in Commands : p # Top => p \in Target
  BY DEF Commands
<1>6. ASSUME NEW p \in Commands
      PROVE  /\ log[p] \in Logs
             /\ p = Top => log[p] = <<<<>>>>
  <2>1. CASE p = Top
    <3>1. log[p] = <<<<>>>> /\ <<>> \in Seq(Line)
      BY <1>2, <2>1
    <3> QED BY <2>1, <3>1 DEF Logs
  <2>2. CASE p # Top
    <3>1. setup.old[p] \in Seq(Line)
      BY <1>3, <1>5, <2>2
    <3>2. log[p] = <<setup.old[p]>> \/ log[p] = <<>>
      BY <1>2, <2>2
    <3>3. PICK o \in Seq(Line) : o = setup.old[p]
      BY <3>1
    <3>4. <<o>> \in Seq(Seq(Line)) /\ <<>> \in Seq(Seq(Line))
      OBVIOUS
    <3>5. log[p] \in Logs
      BY <3>2, <3>3, <3>4 DEF Logs
    <3> QED BY <2>2, <3>1, <3>2, <3>5
  <2> QED BY <2>1, <2>2
<1>7. BuildTypes
  <2>1. log \in [Commands -> Logs]
    BY <1>2, <1>6
  <2> QED BY <1>1, <2>1 DEF BuildTypes, Asked
<1>8. ASSUME NEW p \in Commands PROVE Stage(p)
  <2>1. \A c \in Target : ask[p][c] = "no"
    BY <1>1
  <2>2. CASE p = Top
    <3>1. at[p] = 1 /\ at[p] <= Len(Script[p]) + 1 /\ \A k \in 1..(at[p] - 1) : FALSE
      BY <1>1, <1>4, <2>2
    <3>2. log[p] # <<>>
      BY <1>6, <2>2
    <3> QED BY <2>1, <3>1, <3>2 DEF Stage
  <2>3. CASE p # Top
    <3>1. at[p] = 0 /\ at[p] <= Len(Script[p]) + 1 /\ p \in Target
      BY <1>1, <1>4, <1>5, <2>3
    <3> QED BY <2>1, <3>1 DEF Stage
  <2> QED BY <2>2, <2>3
<1>9. \A c \in Target : Started(c)
  <2>1. \A c \in Target : c \in Commands /\ at[c] = 0
    BY <1>1, <1>3 DEF Commands
  <2> QED BY <2>1 DEF Started, Doing
<1>10. Grounded
  <2>1. \A p, c \in Target : ask[p][c] = "no"
    BY <1>1 DEF Commands
  <2> QED BY <2>1 DEF Grounded
<1>11. BuildInv
  <2>1. at[Top] # 0
    BY <1>1, <1>3
  <2> QED BY <1>7, <1>8, <1>9, <1>10, <2>1 DEF BuildInv
<1>12. /\ reader.stack = <<>> /\ ~reader.on /\ \A p \in Commands : reader.shown[p] = <<>>
  BY <1>1
<1>13. reader \in Readers
  <2>1. [p \in Commands |-> <<>>] \in [Commands -> Seq(Line)] /\ <<>> \in Seq(Catlog)
    OBVIOUS
  <2> QED BY <1>1, <2>1 DEF Readers
<1>14. \A i \in 1..Len(reader.stack) : FALSE
  BY <1>12, EmptySeq
<1>15. ReadInv
  BY <1>12, <1>13, <1>14 DEF ReadInv, Stack, Apart, Printed
<1>16. Quiet
  BY <1>12 DEF Quiet
<1> QED BY <1>11, <1>15, <1>16 DEF LogInv

(* A target without a row ends redo-log; not after the build. *)
LEMMA NotKnownStep ==
    ASSUME LogInv, NotKnown PROVE LogInv'
<1>1. /\ BuildInv /\ ReadInv /\ Quiet /\ BuildTypes /\ Reading /\ UNCHANGED buildVars
      /\ Cur.t \notin known /\ reader' = [reader EXCEPT !.stack = <<>>]
  BY DEF LogInv, BuildInv, NotKnown, Frames
<1>2. BuildInv' /\ log' = log /\ setup' = setup /\ at' = at
  BY <1>1, UnchangedBuild DEF buildVars
<1>3. reader \in Readers /\ Cur.t \in reader.already /\ reader.on
  BY <1>1, CurFrame DEF FrameOK, ReadInv
<1>4. /\ reader' \in Readers /\ reader'.stack = <<>> /\ reader'.on = reader.on
      /\ reader'.quiet = reader.quiet /\ reader'.already = reader.already
      /\ reader'.shown = reader.shown
  <2>1. <<>> \in Seq(Catlog)
    OBVIOUS
  <2> QED BY <1>1, <1>3, <2>1 DEF Readers
<1>5. \A i \in 1..Len(reader'.stack) : FALSE
  BY <1>4, EmptySeq
<1>6. ReadInv'
  BY <1>1, <1>2, <1>3, <1>4, <1>5 DEF ReadInv, Stack, Apart, Printed
<1>7. Quiet'
  BY <1>1, <1>2, <1>3, <1>4 DEF Quiet, Whole, Over, Script
<1> QED BY <1>2, <1>6, <1>7 DEF LogInv

LEMMA NextInv ==
    ASSUME LogInv, Recorded, [Next]_vars PROVE LogInv' /\ Recorded'
<1>0. Recorded'
  BY NextRecords
<1>1. CASE \E p \in Commands : Build(p) /\ UNCHANGED reader
  BY <1>0, <1>1, BuildStep
<1>2. CASE UNCHANGED vars
  <2>1. BuildInv' /\ log' = log /\ setup' = setup /\ lock' = lock /\ at' = at /\ reader' = reader
        /\ known' = known
    BY <1>2, UnchangedBuild DEF LogInv, vars, buildVars
  <2>2. ReadInv'
    BY <2>1 DEF LogInv, ReadInv, Stack, FrameOK, Apart, Printed
  <2>3. Quiet'
    BY <2>1 DEF LogInv, Quiet, Over, Whole, Script, Root
  <2> QED BY <1>0, <2>1, <2>2, <2>3 DEF LogInv
<1> QED
  BY <1>0, <1>1, <1>2, StartStep, NotKnownStep, OpenLogStep, ReadLineStep, EndOfFileStep, IsLockedStep,
     NotLockedStep, GraceOverStep DEF Next, RedoLog

LEMMA LogInvHolds ==
    Spec => []LogInv
<1>1. Init => LogInv /\ Recorded
  BY InitInv, InitRecords
<1>2. LogInv /\ Recorded /\ [Next]_vars => (LogInv /\ Recorded)'
  BY NextInv
<1> QED BY <1>1, <1>2, PTL DEF Spec

(* What redo-log prints of a target is the beginning of one of the         *)
(* target's logs, in every mode, however many runs of however many scripts *)
(* replace and extend the logs meanwhile.                                  *)
THEOREM PrintsOneLog ==
    Spec => []ShownInOrder
<1>1. LogInv => ShownInOrder
  <2>1. SUFFICES ASSUME LogInv, NEW p \in Commands, reader.shown[p] # <<>>
                 PROVE  \E g \in DOMAIN log[p] : IsPrefix(reader.shown[p], log[p][g])
    BY DEF ShownInOrder
  <2>2. PICK g \in 1..Len(log[p]) : Begins(reader.shown[p], log[p][g])
    BY <2>1 DEF LogInv, ReadInv, Printed
  <2>3. log[p] \in Logs /\ reader.shown[p] \in Seq(Line)
    BY <2>1 DEF LogInv, BuildInv, BuildTypes, ReadInv, Readers
  <2>4. log[p][g] \in Seq(Line) /\ g \in DOMAIN log[p]
    BY <2>3 DEF Logs
  <2> QED BY <2>2, <2>3, <2>4, BeginsPrefix
<1> QED BY <1>1, LogInvHolds, PTL

(* redo-log started after the build prints every log the build left,       *)
(* whole, at or below its target, to any depth.                            *)
THEOREM PrintsEverything ==
    Spec => []NoLoss
<1>1. LogInv => NoLoss
  <2>1. SUFFICES ASSUME LogInv, reader.on, reader.quiet, reader.stack = <<>>, setup.mode = "cat"
                 PROVE  \E R \in SUBSET Target :
                          Leads(R) /\ \A t \in R : log[t] # <<>> => reader.shown[t] = Last(log[t])
    BY DEF NoLoss
  <2>2. BuildInv /\ Over /\ Whole /\ BuildTypes
    BY <2>1 DEF LogInv, Quiet, BuildInv
  <2>3. reader.already \in SUBSET Target /\ Root \in reader.already
    BY <2>2 DEF Whole
  <2>4. \A i \in 1..Len(reader.stack) : FALSE
    BY <2>1, EmptySeq
  <2>5. \A t \in reader.already : log[t] # <<>> => reader.shown[t] = Last(log[t])
    BY <2>2, <2>4 DEF Whole
  <2>6. ASSUME NEW t \in reader.already, log[t] # <<>>, NEW c \in Below(t)
        PROVE  c \in reader.already
    <3>1. t \in Commands /\ Stage(t) /\ ~Doing(t)
      BY <2>2, <2>3, NoScriptAfter DEF Commands, BuildInv
    <3>2. Script[t] \in Seq(SUBSET Target) /\ at[t] \in Nat /\ log[t] \in Logs
      BY <2>2, <3>1, SetupTypes DEF BuildTypes
    <3>3. ASSUME at[t] = 0 PROVE Naming(t, c)
      <4>1. PICK l \in Range(Last(log[t])) : l.kind \in Follows /\ l.of = c
        BY <2>6, <3>3 DEF Below, OldNames
      <4>2. Last(log[t]) \in Seq(Line)
        BY <2>6, <3>2, NewestLog
      <4>3. DOMAIN Last(log[t]) = 1..Len(Last(log[t]))
        BY <4>2
      <4>4. PICK i \in 1..Len(Last(log[t])) : l = Last(log[t])[i]
        BY <4>1, <4>3 DEF Range
      <4> QED BY <4>1, <4>4 DEF Naming, Names
    <3>4. Naming(t, c)
      <4>1. CASE at[t] # 0
        <5>1. DOMAIN Script[t] = 1..Len(Script[t]) /\ Len(Script[t]) \in Nat
          BY <3>2
        <5>2. PICK k \in 1..Len(Script[t]) : c \in Script[t][k]
          BY <2>6, <4>1, <5>1 DEF Below, Range
        <5>3. k \in 1..(at[t] - 1)
          BY <3>1, <3>2, <4>1, <5>1 DEF Stage, Doing
        <5> QED BY <3>1, <4>1, <5>2, <5>3 DEF Stage
      <4> QED BY <3>3, <4>1
    <3>5. reader.shown[t] = Last(log[t])
      BY <2>5, <2>6
    <3>6. PICK i \in 1..Len(reader.shown[t]) :
            reader.shown[t][i].kind \in Follows /\ reader.shown[t][i].of = c
      BY <3>4, <3>5 DEF Naming, Names
    <3> QED BY <2>2, <3>1, <3>6 DEF Whole
  <2>7. Leads(reader.already)
    BY <2>3, <2>6 DEF Leads
  <2> QED BY <2>3, <2>5, <2>7
<1> QED BY <1>1, LogInvHolds, PTL

=============================================================================
