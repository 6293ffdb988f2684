---------------------------- MODULE FlowopLists ----------------------------
(* The flowops of a run (flowop.c) from their definition by the parser to   *)
(* the report of their statistics (stats.c). Every flowop is a node of the  *)
(* global list shm_flowoplist and of one execution list: its thread's, or   *)
(* that of the composite flowop it is part of. Every thread makes runtime   *)
(* flowops from the script's master ones, runs them, and deletes the parts  *)
(* of its composite flowops when it ends, while the main process walks the  *)
(* global list to add the statistics up.                                    *)
EXTENDS Integers, Sequences, FiniteSets, SequencesExt

CONSTANTS Thread,     \* threads, all of one thread definition
          Latency,    \* how long an operation of each thread takes
          Settings,   \* scripts, and how the run goes
          MaxOps      \* operations of a thread, at most

NIL == 0
DEFINITION == 0
INNER_DEF == -1
MASTER == -2

VARIABLES set,    \* the setting of the run
          st,     \* flowops, global list and execution lists
          th,     \* what each thread does
          main,   \* what the main process does
          quiet,  \* shm_bequiet
          abort,  \* shm_f_abort
          total,  \* globalstats[FLOW_TYPE_GLOBAL].fs_count
          done,   \* the operations that really ended since the last clear
          seen    \* whether anything disturbed the lists or the last snapshot

vars == <<set, st, th, main, quiet, abort, total, done, seen>>

---------------------------------------------------------------------------
(* Lists.                                                                   *)

OfThread(t) == [of |-> "thread", t |-> t, f |-> NIL]
OfComposite(f) == [of |-> "comp", t |-> "", f |-> f]
Nowhere == [of |-> "none", t |-> "", f |-> NIL]

HeadOf(s, w) == IF w.of = "thread" THEN s.heads[w.t] ELSE s.fo[w.f].comp

SetHead(s, w, id) ==
  IF w.of = "thread" THEN [s EXCEPT !.heads[w.t] = id] ELSE [s EXCEPT !.fo[w.f].comp = id]

RECURSIVE ExecList(_, _)
ExecList(s, id) == IF id = NIL THEN <<>> ELSE <<id>> \o ExecList(s, s.fo[id].exec)

RECURSIVE GlobalList(_, _, _)
GlobalList(s, id, fuel) ==
  IF id = NIL \/ fuel = 0 THEN <<>> ELSE <<id>> \o GlobalList(s, s.fo[id].next, fuel - 1)

AllFlowops(s) == GlobalList(s, s.list, Len(s.fo) + 1)

(* The end of an execution list gets the new flowop.                        *)
PutLast(s, w, id) ==
  IF w.of = "none" THEN s
  ELSE IF HeadOf(s, w) = NIL THEN SetHead(s, w, id)
  ELSE [s EXCEPT !.fo[Last(ExecList(s, HeadOf(s, w)))].exec = id]

NoStats == [count |-> 0, min |-> 0, max |-> 0]

Zeroed(type) == [name |-> <<>>, inst |-> 0, type |-> type, next |-> NIL, exec |-> NIL,
                 comp |-> NIL, iters |-> 1, freed |-> FALSE, stats |-> NoStats]

(* flowop_define_common(): at the head of the global list, at the end of    *)
(* the execution list; a copy of what it inherits, composite list included. *)
Define(s, name, inherit, w, inst, type) ==
  LET id == Len(s.fo) + 1
      base == IF inherit = NIL THEN Zeroed(type) ELSE s.fo[inherit]
      new == [base EXCEPT !.name = name, !.inst = inst, !.next = s.list, !.exec = NIL]
  IN PutLast([s EXCEPT !.fo = Append(@, new), !.list = id], w, id)

(* flowop_find(): all of that name, the first defined first.                *)
Find(s, name) == Reverse(SelectSeq(AllFlowops(s), LAMBDA id : s.fo[id].name = name))

(* flowop_find_one(): the first on the global list.                         *)
FindOne(s, name, inst) ==
  LET l == SelectSeq(AllFlowops(s), LAMBDA id : s.fo[id].name = name /\ s.fo[id].inst = inst)
  IN IF l = <<>> THEN NIL ELSE l[1]

(* flowop_recurse_search(): in an execution list, and, under the full name  *)
(* of the composite flowop, in the composite flowops on it.                 *)
RECURSIVE RecurseSearch(_, _, _, _)
RecurseSearch(s, path, name, id) ==
  IF id = NIL THEN NIL
  ELSE IF s.fo[id].name = path \o name THEN id
  ELSE LET inner == IF s.fo[id].type = "composite"
                    THEN RecurseSearch(s, s.fo[id].name, name, s.fo[id].comp) ELSE NIL
       IN IF inner # NIL THEN inner ELSE RecurseSearch(s, path, name, s.fo[id].exec)

FindFromList(s, name, id) == RecurseSearch(s, <<>>, name, id)

---------------------------------------------------------------------------
(* The parser.                                                              *)

(* flowop_add_from_proto().                                                 *)
AddFromProto(s, name) == Define(s, <<name>>, NIL, Nowhere, DEFINITION, "io")

(* parser_inner_flowop_define(): masters "composite.name" of the parts, and *)
(* of the parts of a part that is composite itself.                         *)
RECURSIVE InnerDefine(_, _, _)
InnerDefine(s, comp, mstr) ==
  LET one(x, i) ==
        LET d == Define(x, x.fo[mstr].name \o x.fo[i].name, i, OfComposite(mstr), MASTER, "")
        IN IF x.fo[i].type = "composite" THEN InnerDefine(d, i, Len(d.fo)) ELSE d
  IN FoldLeft(one, SetHead(s, OfComposite(mstr), NIL), ExecList(s, s.fo[comp].comp))

(* parser_flowop_define(): f.name, of the first flowop defined as f.type.   *)
FlowopDefine(s, f, w, category) ==
  LET type == Find(s, <<f.type>>)[1]
      n == Define(s, <<f.name>>, type, w, category, "")
      d == [n EXCEPT !.fo[Len(n.fo)].iters = f.iters]
  IN IF s.fo[type].type = "composite" /\ category = MASTER THEN InnerDefine(d, type, Len(d.fo)) ELSE d

(* parser_composite_flowop_define().                                        *)
CompositeDefine(s, c) ==
  LET d == Define(s, <<c.name>>, NIL, Nowhere, DEFINITION, "composite")
  IN FoldLeft(LAMBDA x, f : FlowopDefine(x, f, OfComposite(Len(d.fo)), INNER_DEF), d, c.inner)

Empty == [fo |-> <<>>, list |-> NIL, heads |-> [t \in Thread \cup {"master"} |-> NIL]]

(* The library's flowops, the script's composite ones, the thread's; a      *)
(* thread is made from its definition by a copy, the list's head included.  *)
Parsed(script) ==
  LET lib == FoldLeft(AddFromProto, Empty, <<"read", "write">>)
      comps == FoldLeft(CompositeDefine, lib, script.comps)
      all == FoldLeft(LAMBDA x, f : FlowopDefine(x, f, OfThread("master"), MASTER), comps, script.flow)
  IN [all EXCEPT !.heads = [t \in DOMAIN @ |-> @["master"]]]

---------------------------------------------------------------------------
(* Threads.                                                                 *)

(* flowop_create_runtime_flowops(), and for a composite flowop              *)
(* flowop_composite_init(), which does the same with its list.              *)
RECURSIVE CreateFrom(_, _, _)
CreateFrom(s, cur, w) ==
  IF cur = NIL THEN s
  ELSE LET s0 == IF HeadOf(s, w) = cur THEN SetHead(s, w, NIL) ELSE s
           s1 == Define(s0, s.fo[cur].name, cur, w, 1, "")
           id == Len(s1.fo)
           s2 == IF s1.fo[id].type = "composite"
                 THEN CreateFrom(s1, s1.fo[id].comp, OfComposite(id)) ELSE s1
       IN CreateFrom(s2, s.fo[cur].exec, w)

(* The operations of one pass over an execution list, every flowop fo_iters *)
(* times: flowop_composite() makes a pass over its parts. An operation      *)
(* begins a turn of the main loop ("top") or of a composite flowop's        *)
(* ("part"), or it repeats ("again").                                       *)
RECURSIVE Pass(_, _, _)
Pass(s, id, turn) ==
  IF id = NIL THEN <<>>
  ELSE LET f == s.fo[id]
           once(i) == IF f.type = "composite" THEN Pass(s, f.comp, "part")
                      ELSE <<[id |-> id, turn |-> IF i = 1 THEN turn ELSE "again"]>>
           all == FlattenSeq([i \in 1 .. f.iters |-> once(i)])
       IN [all EXCEPT ![1].turn = turn] \o Pass(s, f.exec, turn)

Ops(t) == Pass(st, st.heads[t], "top")

Turn(t) == Ops(t)[th[t].at].turn

Names == {st.fo[i].name : i \in {j \in DOMAIN st.fo : st.fo[j].inst = MASTER /\ st.fo[j].type # "composite"}}
NothingDone == [n \in Names |-> [t \in Thread |-> 0]]

Init ==
  /\ set \in Settings
  /\ st = Parsed(set.script)
  /\ th = [t \in Thread |-> [pc |-> "new", at |-> 1, ops |-> 0, del |-> <<>>, prev |-> NIL, nxt |-> NIL]]
  /\ main = [pc |-> "starting", walk |-> NIL, snaps |-> 0]
  /\ quiet = FALSE /\ abort = "no" /\ total = 0
  /\ done = NothingDone
  /\ seen = [ended |-> FALSE, gone |-> FALSE, error |-> FALSE]

(* flowop_start(): under shm_flowop_lock.                                   *)
Create(t) ==
  /\ th[t].pc = "new"
  /\ st' = CreateFrom(st, st.heads[t], OfThread(t))
  /\ th' = [th EXCEPT ![t].pc = "idle"]
  /\ UNCHANGED <<set, main, quiet, abort, total, done, seen>>

(* The main loop, once proc_create() let the threads go. Inside a composite *)
(* flowop nobody looks at shm_bequiet, and a repetition at nothing.         *)
Begin(t) ==
  /\ \A u \in Thread : th[u].pc # "new"
  /\ th[t].pc = "idle" /\ th[t].ops < MaxOps
  /\ Turn(t) = "top" => ~ quiet
  /\ Turn(t) # "again" => abort = "no"
  /\ th' = [th EXCEPT ![t].pc = "op", ![t].ops = @ + 1]
  /\ UNCHANGED <<set, st, main, quiet, abort, total, done, seen>>

(* flowop_endop().                                                          *)
EndStats(s, lat) ==
  [count |-> s.count + 1, min |-> IF s.min = 0 \/ lat < s.min THEN lat ELSE s.min,
   max |-> IF lat > s.max THEN lat ELSE s.max]

Snapping == main.pc \in {"global", "master", "printed"}

End(t) ==
  /\ th[t].pc = "op"
  /\ \E l \in {Ops(t)} : \E id \in {l[th[t].at].id} :
       /\ st' = [st EXCEPT !.fo[id].stats = EndStats(@, Latency[t])]
       /\ done' = [done EXCEPT ![st.fo[id].name][t] = @ + 1]
       /\ th' = [th EXCEPT ![t].pc = "idle", ![t].at = (@ % Len(l)) + 1]
  /\ seen' = [seen EXCEPT !.ended = @ \/ Snapping]
  /\ UNCHANGED <<set, main, quiet, abort, total>>

(* flowop_destruct_all_flows(): of the composite flowops,                   *)
(* flowop_composite_destruct() deletes the parts, not the parts' parts.     *)
Doomed(t) == FlattenSeq([i \in DOMAIN ExecList(st, st.heads[t]) |->
                           ExecList(st, st.fo[ExecList(st, st.heads[t])[i]].comp)])

Leave(t, why) ==
  /\ abort' = why
  /\ th' = [th EXCEPT ![t].pc = "scan", ![t].del = Doomed(t)]
  /\ UNCHANGED <<set, st, main, quiet, total, done>>

(* The flowop returns FILEBENCH_ERROR.                                      *)
Fail(t) ==
  /\ th[t].pc = "op" /\ set.fails
  /\ Leave(t, "error") /\ seen' = [seen EXCEPT !.error = TRUE]

(* A flowop that limits the run returns FILEBENCH_DONE; or a composite one, *)
(* which has seen shm_f_abort, does.                                        *)
Done(t) ==
  /\ th[t].pc = "idle"
  /\ \/ Turn(t) = "part" /\ abort # "no"
     \/ (Turn(t) = "again" \/ abort = "no") /\ set.quits /\ th[t].ops = MaxOps
  /\ Leave(t, "done") /\ UNCHANGED seen

(* The main loop sees shm_f_abort.                                          *)
Aborted(t) ==
  /\ th[t].pc = "idle" /\ Turn(t) = "top" /\ abort # "no"
  /\ Leave(t, abort) /\ UNCHANGED seen

(* flowop_delete(), without shm_flowop_lock: it takes the flowop off the    *)
(* thread's own list and finds what points to it on the global list ...     *)
Before(s, id) ==
  LET l == SelectSeq(AllFlowops(s), LAMBDA i : s.fo[i].next = id)
  IN IF s.list = id THEN NIL ELSE IF l = <<>> THEN -1 ELSE l[1]

Scan(t) ==
  /\ th[t].pc = "scan" /\ th[t].del # <<>>
  /\ th' = [th EXCEPT ![t].pc = "load", ![t].prev = Before(st, th[t].del[1])]
  /\ UNCHANGED <<set, st, main, quiet, abort, total, done, seen>>

(* ... loads what follows it ...                                            *)
Load(t) ==
  /\ th[t].pc = "load"
  /\ th' = [th EXCEPT ![t].pc = "store", ![t].nxt = st.fo[th[t].del[1]].next]
  /\ UNCHANGED <<set, st, main, quiet, abort, total, done, seen>>

MutUnlink(s, prev, nxt, id) ==
  IF prev = -1 THEN s
  ELSE [(IF prev = NIL THEN [s EXCEPT !.list = nxt] ELSE s) EXCEPT !.fo[id].freed = TRUE]

(* ... points past it and frees it, when it was found.                      *)
Unlink(s, prev, nxt, id) ==
  IF prev = -1 THEN s
  ELSE [(IF prev = NIL THEN [s EXCEPT !.list = nxt] ELSE [s EXCEPT !.fo[prev].next = nxt])
          EXCEPT !.fo[id].freed = TRUE]

Store(t) ==
  /\ th[t].pc = "store"
  /\ st' = Unlink(st, th[t].prev, th[t].nxt, th[t].del[1])
  /\ th' = [th EXCEPT ![t].pc = "scan", ![t].del = Tail(@), ![t].prev = NIL, ![t].nxt = NIL]
  /\ seen' = [seen EXCEPT !.gone = TRUE]
  /\ UNCHANGED <<set, main, quiet, abort, total, done>>

---------------------------------------------------------------------------
(* The main process.                                                        *)

Cleared(s) == [s EXCEPT !.fo = [i \in DOMAIN @ |->
                 IF i \in Range(AllFlowops(s)) THEN [@[i] EXCEPT !.stats = NoStats] ELSE @[i]]]

(* parser_run() and parser_psrun() after proc_create(): stats_clear().      *)
Clear ==
  /\ main.pc = "starting" /\ \A t \in Thread : th[t].pc # "new"
  /\ abort = "no"
  /\ st' = Cleared(st) /\ done' = NothingDone
  /\ main' = [main EXCEPT !.pc = "pause"]
  /\ UNCHANGED <<set, th, quiet, abort, total, seen>>

(* parser_pause() ends; stats_snap() prints nothing after an error,         *)
Invalid ==
  /\ main.pc = "pause" /\ abort = "error"
  /\ main' = [main EXCEPT !.pc = "invalid"]
  /\ UNCHANGED <<set, st, th, quiet, abort, total, done, seen>>

(* or asks for quiet, blanks the masters and starts at the head.            *)
BlankMasters(s) == [s EXCEPT !.fo = [i \in DOMAIN @ |->
                      IF @[i].inst = MASTER THEN [@[i] EXCEPT !.stats = [NoStats EXCEPT !.min = 1000]] ELSE @[i]]]

SnapStart ==
  /\ main.pc = "pause" /\ abort # "error" /\ (abort # "no" \/ ~ set.quits)
  /\ quiet' = TRUE
  /\ st' = BlankMasters(st)
  /\ main' = [pc |-> "global", walk |-> st.list, snaps |-> main.snaps + 1]
  /\ total' = 0
  /\ seen' = [seen EXCEPT !.ended = FALSE]
  /\ UNCHANGED <<set, th, abort, done>>

(* On from a flowop to the first runtime one.                               *)
RECURSIVE Runtime(_, _)
Runtime(s, id) == IF id = NIL \/ s.fo[id].inst > DEFINITION THEN id ELSE Runtime(s, s.fo[id].next)

(* stats_add() of a runtime flowop's statistics to the global ones ...      *)
SnapGlobal ==
  /\ main.pc = "global"
  /\ \E id \in {Runtime(st, main.walk)} :
       /\ id # NIL
       /\ total' = total + st.fo[id].stats.count
       /\ main' = [main EXCEPT !.pc = "master", !.walk = id]
  /\ UNCHANGED <<set, st, th, quiet, abort, done, seen>>

(* ... and to those of the master flowop of its name.                       *)
StatsAdd(a, b) == [count |-> a.count + b.count, min |-> IF b.min < a.min THEN b.min ELSE a.min,
                   max |-> IF b.max > a.max THEN b.max ELSE a.max]

SnapMaster ==
  /\ main.pc = "master"
  /\ \E m \in {FindOne(st, st.fo[main.walk].name, MASTER)} :
       st' = IF m = NIL THEN st
             ELSE [st EXCEPT !.fo[m].stats = StatsAdd(@, st.fo[main.walk].stats)]
  /\ main' = [main EXCEPT !.pc = "global", !.walk = st.fo[main.walk].next]
  /\ UNCHANGED <<set, th, quiet, abort, total, done, seen>>

(* The breakdown by master flowop and the summary are printed; parser_psrun() *)
(* goes on to the next period unless the run is over.                         *)
SnapPrint ==
  /\ main.pc = "global" /\ Runtime(st, main.walk) = NIL
  /\ quiet' = FALSE
  /\ main' = [main EXCEPT !.pc = "printed"]
  /\ UNCHANGED <<set, st, th, abort, total, done, seen>>

NextPeriod ==
  /\ main.pc = "printed" /\ main.snaps < set.periods /\ abort = "no"
  /\ main' = [main EXCEPT !.pc = "pause"]
  /\ IF set.reset THEN st' = Cleared(st) /\ done' = NothingDone ELSE UNCHANGED <<st, done>>
  /\ UNCHANGED <<set, th, quiet, abort, total, seen>>

Next ==
  \/ \E t \in Thread : Create(t)
  \/ \E t \in Thread : Begin(t)
  \/ \E t \in Thread : End(t)
  \/ \E t \in Thread : Fail(t)
  \/ \E t \in Thread : Done(t)
  \/ \E t \in Thread : Aborted(t)
  \/ \E t \in Thread : Scan(t)
  \/ \E t \in Thread : Load(t)
  \/ \E t \in Thread : Store(t)
  \/ Clear \/ Invalid \/ SnapStart \/ SnapGlobal \/ SnapMaster \/ SnapPrint \/ NextPeriod

Spec == Init /\ [][Next]_vars

---------------------------------------------------------------------------
TypeOK ==
  /\ st.list \in 0 .. Len(st.fo)
  /\ \A i \in DOMAIN st.fo : st.fo[i].next \in 0 .. Len(st.fo) /\ st.fo[i].exec \in 0 .. Len(st.fo)
  /\ \A t \in Thread : th[t].ops \in 0 .. MaxOps
  /\ main.snaps \in 0 .. set.periods + 1

NamesOf(l) == [i \in DOMAIN l |-> st.fo[l[i].id].name]

(* The operations a line of the script asks for.                            *)
RECURSIVE Asked(_, _)
Asked(path, f) ==
  LET comps == SelectSeq(set.script.comps, LAMBDA c : c.name = f.type)
      name == Append(path, f.name)
      once == IF comps = <<>> THEN <<name>>
              ELSE FlattenSeq([i \in DOMAIN comps[1].inner |-> Asked(name, comps[1].inner[i])])
  IN FlattenSeq([i \in 1 .. f.iters |-> once])

(* Every thread runs the operations the script asks for, in that order and  *)
(* as often, composite flowops' parts included, on flowops that are its     *)
(* own, and leaves the masters' list as the parser made it.                 *)
RuntimeMirrorsScript ==
  LET ready == {t \in Thread : th[t].pc \in {"idle", "op"}}
      ops == [t \in ready |-> Ops(t)]
      ids == [t \in ready |-> {ops[t][i].id : i \in DOMAIN ops[t]}]
  IN /\ \A t \in ready :
          /\ NamesOf(ops[t]) =
               FlattenSeq([i \in DOMAIN set.script.flow |-> Asked(<<>>, set.script.flow[i])])
          /\ \A i \in ids[t] : st.fo[i].inst = 1
          /\ \A u \in ready \ {t} : ids[t] \cap ids[u] = {}
     /\ \A i \in DOMAIN set.script.flow :
          st.fo[ExecList(st, st.heads["master"])[i]].name = <<set.script.flow[i].name>>

(* A flowop of the script has the type it asks for, whatever the flowops    *)
(* defined since are called.                                                *)
RightType ==
  \A i \in DOMAIN set.script.flow :
    (st.fo[ExecList(st, st.heads["master"])[i]].type = "composite") =
      (set.script.flow[i].type \in {set.script.comps[c].name : c \in DOMAIN set.script.comps})

(* A limiter's search of its thread's list finds the thread's own flowop    *)
(* of that name, inside composite flowops too.                              *)
FindsOwn ==
  \A t \in Thread : th[t].pc \in {"idle", "op"} =>
    \E ops \in {Ops(t)} : \A i \in DOMAIN ops :
      \E found \in {FindFromList(st, <<Last(st.fo[ops[i].id].name)>>, st.heads[t])} :
        /\ found # NIL /\ st.fo[found].inst = 1
        /\ Last(st.fo[found].name) = Last(st.fo[ops[i].id].name)

(* However the deletions of several threads overlap, the global list holds  *)
(* every flowop that is not freed, once, and no freed one: the first flowop *)
(* of a thread, which is not deleted, keeps those of two threads apart.     *)
ListIntact ==
  /\ Range(AllFlowops(st)) = {i \in DOMAIN st.fo : ~ st.fo[i].freed}
  /\ IsInjective(AllFlowops(st))

Sum(f) == FoldFunction(+, 0, f)

(* When no operation ends while the statistics are added up and no flowop   *)
(* has been deleted, the report is exact: a master's count is that of the   *)
(* operations of its name, its longest latency the longest of them, its     *)
(* shortest one too if every thread has run it, and the summary is the sum. *)
SnapshotExact ==
  (main.pc = "printed" /\ ~ seen.ended /\ ~ seen.gone) =>
    /\ \A m \in DOMAIN st.fo : (st.fo[m].inst = MASTER /\ st.fo[m].type # "composite") =>
         LET ran == {t \in Thread : done[st.fo[m].name][t] > 0}
         IN /\ st.fo[m].stats.count = Sum(done[st.fo[m].name])
            /\ ran # {} => st.fo[m].stats.max = Max({Latency[t] : t \in ran})
            /\ ran = Thread => st.fo[m].stats.min = Min({Latency[t] : t \in ran})
    /\ total = Sum([n \in Names |-> Sum(done[n])])

(* "First the routine pauses filebench, then rolls the statistics for each  *)
(* flowop into its associated FLOW_MASTER flowop" (stats.c): the breakdown  *)
(* adds up to the summary, however the operations and the snapshot          *)
(* interleave.                                                              *)
SnapshotFrozen ==
  (main.pc = "printed" /\ ~ seen.gone) =>
    total = Sum([m \in {i \in DOMAIN st.fo : st.fo[i].inst = MASTER} |-> st.fo[m].stats.count])

(* "don't print out if run ended in error" (stats.c): nothing is printed    *)
(* once a flowop has failed before the snapshot.                            *)
ErrorNotPrinted == [][SnapStart => ~ seen.error]_vars
===========================================================================
