--------------------------- MODULE PipelineProofs ---------------------------
(***************************************************************************)
(* Proofs about the pipeline, which runs the front end, Dominators and     *)
(* Mem2Reg one after the other: every function the front end builds meets  *)
(* what Dominators relies on (Guarantee), so each of its three maps is     *)
(* exact when it is complete, until the next computation has used it; the  *)
(* value stacks of Mem2Reg are at all times those of the calls that have   *)
(* not returned, none of its assertions fails, and it leaves no load that  *)
(* can run (PromoteInv).                                                   *)
(*                                                                         *)
(* The first part is about renaming alone, for any function in which loads *)
(* have names of their own and a loaded value is stored in the block of    *)
(* its load (Renamable): what the calls of rename push on the value stacks *)
(* and take off again.  The second says that the functions of the front    *)
(* end are Renamable (RenamableBody) and puts the parts together.          *)
(***************************************************************************)
EXTENDS PhiCopies, FiniteSetTheorems, TLAPS

-----------------------------------------------------------------------------
(***************************************************************************)
(* The value stacks of Mem2Reg.  Pushes and pops of a block are related by *)
(* what the stack starts with and how long it is: rename pushes a value    *)
(* per phi and per store on what it finds (Pushes), and takes as many off  *)
(* again (PhiPops, StorePops), so what is left is what it found.           *)
(***************************************************************************)
IsSeq(s) == \E S : s \in Seq(S)

\* u is what v starts with
Starts(u, v) == /\ IsSeq(u) /\ IsSeq(v) /\ Len(u) <= Len(v)
                /\ \A k \in 1 .. Len(u) : u[k] = v[k]

\* val_stack[a], which is empty without an entry
StackOf(st, a) == IF a \in DOMAIN st THEN st[a] ELSE << >>

\* A sequence starts with itself, and a sequence with one more value with what it had.
LEMMA StartsAppend ==
  ASSUME NEW u, NEW v, Starts(u, v), NEW x
  PROVE  /\ Starts(u, Append(v, x)) /\ Starts(v, v)
         /\ Len(Append(v, x)) = Len(v) + 1 /\ Len(v) \in Nat /\ Len(u) \in Nat
         /\ Append(v, x) # << >>
<1>1. PICK S, T : u \in Seq(S) /\ v \in Seq(T)
  BY DEF Starts, IsSeq
<1>2. v \in Seq(T \cup {x}) /\ x \in T \cup {x}
  BY <1>1
<1>3. PICK w : w = Append(v, x)
  OBVIOUS
<1>4. /\ w \in Seq(T \cup {x}) /\ Len(w) = Len(v) + 1 /\ w # << >>
      /\ \A k \in 1 .. Len(v) : w[k] = v[k]
  BY <1>2, <1>3
<1>5. Len(u) \in Nat /\ Len(v) \in Nat
  BY <1>1
<1>6. Len(u) <= Len(v) /\ \A k \in 1 .. Len(u) : u[k] = v[k] /\ k \in 1 .. Len(v)
  BY <1>5 DEF Starts
<1>7. Starts(u, w)
  BY <1>1, <1>4, <1>5, <1>6 DEF Starts, IsSeq
<1>8. Starts(v, v)
  BY <1>1, <1>5 DEF Starts, IsSeq
<1> QED
  BY <1>3, <1>4, <1>5, <1>7, <1>8

\* The last value can be taken off without disturbing the others.
LEMMA StartsFront ==
  ASSUME NEW u, NEW v, Starts(u, v), u # << >>
  PROVE  /\ Starts(Front(u), v) /\ Len(Front(u)) = Len(u) - 1
         /\ Len(u) \in Nat /\ Len(u) # 0
<1>1. PICK S : u \in Seq(S)
  BY DEF Starts, IsSeq
<1>2. Len(u) \in Nat /\ Len(u) # 0 /\ Len(u) - 1 \in Nat
  BY <1>1
<1>3. PICK w, n : w = SubSeq(u, 1, n) /\ n = Len(u) - 1
  OBVIOUS
<1>4. w \in Seq(S) /\ Len(w) = Len(u) - 1 /\ \A k \in 1 .. Len(u) - 1 : w[k] = u[k]
  <2>1. n \in Nat /\ n <= Len(u)
    BY <1>2, <1>3
  <2>2. w \in Seq(S) /\ Len(w) = n /\ \A k \in 1 .. n : w[k] = u[k]
    BY <1>1, <1>3, <2>1
  <2> QED
    BY <1>3, <2>2
<1>5. PICK T : v \in Seq(T)
  BY DEF Starts, IsSeq
<1>6. Len(v) \in Nat /\ Len(u) <= Len(v) /\ \A k \in 1 .. Len(u) : u[k] = v[k]
  BY <1>5 DEF Starts
<1>7. Starts(w, v)
  BY <1>1, <1>2, <1>4, <1>5, <1>6 DEF Starts, IsSeq
<1> QED
  BY <1>2, <1>3, <1>4, <1>7 DEF Front

\* What starts a start of v, starts v; two starts of one length are the same.
LEMMA StartsSame ==
  ASSUME NEW u, NEW v, Starts(u, v), NEW w, Starts(w, v), Len(u) = Len(w)
  PROVE  u = w
<1>1. PICK S, T : u \in Seq(S) /\ w \in Seq(T)
  BY DEF Starts, IsSeq
<1>2. u \in Seq(S \cup T) /\ w \in Seq(S \cup T)
  BY <1>1
<1>3. \A k \in 1 .. Len(u) : u[k] = w[k]
  BY DEF Starts
<1> QED
  BY <1>2, <1>3

LEMMA StartsTwice ==
  ASSUME NEW u, NEW v, Starts(u, v), NEW w, Starts(v, w)
  PROVE  Starts(u, w)
<1>1. Len(u) \in Nat /\ Len(v) \in Nat /\ Len(w) \in Nat
  BY DEF Starts, IsSeq
<1> QED
  BY <1>1 DEF Starts

(***************************************************************************)
(* How many of the first n instructions of a block store to a.             *)
(***************************************************************************)
IsStore(i, a) == i.op = "store" /\ i.var = a

CountStep(a, n, i) == IF IsStore(i, a) THEN n + 1 ELSE n

CountKnown(hyp, n, count) == count \in Nat

Counts == INSTANCE IterateProofs WITH step <- CountStep, known <- CountKnown

StoresTo(a, code, n) == Counts!Upto(a, 0, code, n)

LEMMA CountIs ==
  ASSUME NEW a, NEW code, IsSeq(code)
  PROVE  /\ StoresTo(a, code, 0) = 0
         /\ \A n \in 1 .. Len(code) :
              StoresTo(a, code, n) = StoresTo(a, code, n - 1) + (IF IsStore(code[n], a) THEN 1 ELSE 0)
<1>1. PICK S : code \in Seq(S)
  BY DEF IsSeq
<1>2. StoresTo(a, code, 0) = 0
  BY <1>1, Counts!RunUpto DEF StoresTo
<1>3. ASSUME NEW n \in 1 .. Len(code)
      PROVE  StoresTo(a, code, n) = CountStep(a, StoresTo(a, code, n - 1), code[n])
  BY <1>1, Counts!RunLonger DEF StoresTo
<1>4. ASSUME NEW n \in 0 .. Len(code) PROVE StoresTo(a, code, n) \in Nat
  <2>1. PICK s : s = SubSeq(code, 1, n)
    OBVIOUS
  <2>2. Len(s) \in Nat
    BY <1>1, <2>1
  <2>3. CountKnown(0, 0, 0)
    BY DEF CountKnown
  <2>4. \A k \in 1 .. Len(s) : \A x : CountKnown(0, k - 1, x) => CountKnown(0, k, CountStep(a, x, s[k]))
    BY DEF CountKnown, CountStep
  <2>5. CountKnown(0, Len(s), Counts!Run(a, 0, s))
    BY <2>2, <2>3, <2>4, Counts!RunRule
  <2> QED
    BY <2>1, <2>5 DEF StoresTo, CountKnown, Counts!Upto
<1>5. ASSUME NEW n \in 1 .. Len(code)
      PROVE  StoresTo(a, code, n) = StoresTo(a, code, n - 1) + (IF IsStore(code[n], a) THEN 1 ELSE 0)
  <2>1. Len(code) \in Nat
    BY <1>1
  <2>2. n - 1 \in 0 .. Len(code)
    BY <2>1
  <2> QED
    BY <1>3, <1>4, <2>2 DEF CountStep
<1> QED
  BY <1>2, <1>5

(***************************************************************************)
(* The values block b pushes on the stack of a; ctx is the replacements    *)
(* and a.                                                                  *)
(***************************************************************************)
PushStep(ctx, v, i) == IF IsStore(i, ctx[2]) THEN Append(v, Current(ctx[1], i.val)) ELSE v

\* the length, and what is on the bottom
PushKnown(hyp, n, v) ==
  /\ Starts(hyp[1], v) /\ Len(v) = Len(hyp[1]) + StoresTo(hyp[2], hyp[3], n)
  /\ StoresTo(hyp[2], hyp[3], n) \in Nat
  /\ \A k \in 0 .. n : /\ StoresTo(hyp[2], hyp[3], k) \in Nat
                       /\ StoresTo(hyp[2], hyp[3], k) <= StoresTo(hyp[2], hyp[3], n)

Pushes == INSTANCE IterateProofs WITH step <- PushStep, known <- PushKnown

LEMMA PushesAre ==
  ASSUME NEW r, NEW a, NEW base, IsSeq(base), NEW code, IsSeq(code),
         NEW v, v = Pushes!Run(<<r, a>>, base, code)
  PROVE  /\ Starts(base, v) /\ Len(v) = Len(base) + StoresTo(a, code, Len(code))
         /\ Len(base) \in Nat /\ Len(code) \in Nat
         /\ \A k \in 0 .. Len(code) : /\ StoresTo(a, code, k) \in Nat
                                      /\ StoresTo(a, code, k) <= StoresTo(a, code, Len(code))
<1>1. PICK ctx, hyp : /\ ctx = <<r, a>> /\ r = ctx[1] /\ a = ctx[2]
                      /\ base = hyp[1] /\ a = hyp[2] /\ code = hyp[3]
  <2>1. r = <<r, a>>[1] /\ a = <<r, a>>[2]
    OBVIOUS
  <2>2. base = <<base, a, code>>[1] /\ a = <<base, a, code>>[2] /\ code = <<base, a, code>>[3]
    OBVIOUS
  <2> QED
    BY <2>1, <2>2
<1>2. Len(code) \in Nat /\ Len(base) \in Nat
  BY DEF IsSeq
<1>3. Starts(base, base)
  BY <1>2 DEF Starts
<1>4. PushKnown(hyp, 0, base)
  BY <1>1, <1>2, <1>3, CountIs DEF PushKnown
<1>5. ASSUME NEW n \in 1 .. Len(code), NEW x, PushKnown(hyp, n - 1, x)
      PROVE  PushKnown(hyp, n, PushStep(ctx, x, code[n]))
  <2>1. PICK c, d, y : /\ c = StoresTo(a, code, n - 1) /\ d = StoresTo(a, code, n)
                       /\ y = PushStep(ctx, x, code[n])
    OBVIOUS
  <2>2. /\ Starts(base, x) /\ Len(x) = Len(base) + c /\ c \in Nat
        /\ \A k \in 0 .. n - 1 : StoresTo(a, code, k) \in Nat /\ StoresTo(a, code, k) <= c
    BY <1>1, <1>5, <2>1 DEF PushKnown
  <2>3. d = c + (IF IsStore(code[n], a) THEN 1 ELSE 0)
    BY <2>1, CountIs
  <2>4. Starts(base, y) /\ Len(y) = Len(base) + d
    <3>1. CASE IsStore(code[n], a)
      <4>1. y = Append(x, Current(r, code[n].val))
        BY <1>1, <2>1, <3>1 DEF PushStep
      <4>2. Starts(base, y) /\ Len(y) = Len(x) + 1
        BY <2>2, <4>1, StartsAppend
      <4> QED
        BY <1>2, <2>2, <2>3, <3>1, <4>2
    <3>2. CASE ~IsStore(code[n], a)
      BY <1>1, <2>1, <2>2, <2>3, <3>2 DEF PushStep
    <3> QED
      BY <3>1, <3>2
  <2>5. d \in Nat /\ c <= d
    BY <2>2, <2>3
  <2>6. ASSUME NEW k \in 0 .. n PROVE StoresTo(a, code, k) \in Nat /\ StoresTo(a, code, k) <= d
    <3>1. CASE k = n
      BY <2>1, <2>5, <3>1
    <3>2. CASE k # n
      <4>1. k \in 0 .. n - 1
        BY <1>2, <3>2
      <4> QED
        BY <2>2, <2>5, <4>1
    <3> QED
      BY <3>1, <3>2
  <2> QED
    BY <1>1, <2>1, <2>4, <2>5, <2>6 DEF PushKnown
<1>6. PushKnown(hyp, Len(code), Pushes!Run(ctx, base, code))
  BY <1>2, <1>4, <1>5, Pushes!RunRule
<1> QED
  BY <1>1, <1>2, <1>6 DEF PushKnown

-----------------------------------------------------------------------------
(***************************************************************************)
(* What rename pushes when it enters a block.                              *)
(***************************************************************************)
\* r2 agrees with r, and has more entries only for loads of the code
Extended(r, r2, code) ==
  /\ DOMAIN r \subseteq DOMAIN r2 /\ \A m \in DOMAIN r : r2[m] = r[m]
  /\ \A m \in DOMAIN r2 \ DOMAIN r : \E k \in DOMAIN code : code[k].op = "load" /\ code[k].id = m

\* Runs with the same operands for the stores push the same.
LEMMA PushesSame ==
  ASSUME NEW r, NEW r2, NEW a, NEW base, NEW code, Len(code) \in Nat,
         \A k \in 1 .. Len(code) :
           code[k].op = "store" => Current(r, code[k].val) = Current(r2, code[k].val)
  PROVE  Pushes!Run(<<r, a>>, base, code) = Pushes!Run(<<r2, a>>, base, code)
<1>1. PICK ctx, env2 : /\ ctx = <<r, a>> /\ r = ctx[1] /\ a = ctx[2]
                       /\ env2 = <<r2, a>> /\ r2 = env2[1] /\ a = env2[2]
  <2>1. <<r, a>>[1] = r /\ <<r, a>>[2] = a /\ <<r2, a>>[1] = r2 /\ <<r2, a>>[2] = a
    OBVIOUS
  <2> QED
    BY <2>1
<1>2. \A k \in 1 .. Len(code) : \A x : PushStep(ctx, x, code[k]) = PushStep(env2, x, code[k])
  BY <1>1 DEF PushStep, IsStore
<1>3. Pushes!Run(ctx, base, code) = Pushes!Run(env2, base, code)
  BY <1>2, Pushes!RunSame
<1> QED
  BY <1>1, <1>3

\* A load whose value is replaced later does not change what a store had before.
LEMMA CurrentKept ==
  ASSUME NEW r, NEW r2, NEW v,
         DOMAIN r \subseteq DOMAIN r2, \A m \in DOMAIN r : r2[m] = r[m],
         v[1] = "load" => v[2] \notin DOMAIN r2 \ DOMAIN r
  PROVE  Current(r, v) = Current(r2, v)
BY DEF Current

\* The phis of a block, in any order, push one value each.
PhiPushStep(b, st, a) == PushOn(st, a, Phi(b, a))

PhiPushKnown(hyp, n, st) ==
  \A a : StackOf(st, a) = IF \E k \in 1 .. n : hyp[2][k] = a
                          THEN Append(StackOf(hyp[1], a), Phi(hyp[3], a))
                          ELSE StackOf(hyp[1], a)

PhiPushes == INSTANCE IterateProofs WITH step <- PhiPushStep, known <- PhiPushKnown

LEMMA PushOnIs ==
  ASSUME NEW st, NEW a, NEW v, NEW x
  PROVE  StackOf(PushOn(st, a, v), x) = IF x = a THEN Append(StackOf(st, a), v) ELSE StackOf(st, x)
<1>1. PICK g : g = PushOn(st, a, v)
  OBVIOUS
<1>2. DOMAIN g = DOMAIN st \cup {a}
  BY <1>1 DEF PushOn
<1>3. <<v>> = Append(<< >>, v)
  OBVIOUS
<1>4. \A y \in DOMAIN st \cup {a} : g[y] = IF y # a THEN st[y]
                                         ELSE IF a \in DOMAIN st THEN Append(st[a], v) ELSE <<v>>
  BY <1>1 DEF PushOn
<1>5. StackOf(g, x) = IF x = a THEN Append(StackOf(st, a), v) ELSE StackOf(st, x)
  BY <1>2, <1>3, <1>4 DEF StackOf
<1> QED
  BY <1>1, <1>5

\* SetToSeq lists a finite set without repetition.
LEMMA ListIs ==
  ASSUME NEW D, IsFiniteSet(D), NEW seq, seq = SetToSeq(D)
  PROVE  /\ Len(seq) \in Nat
         /\ \A k \in 1 .. Len(seq) : seq[k] \in D
         /\ \A k, j \in 1 .. Len(seq) : seq[k] = seq[j] => k = j
         /\ \A a \in D : \E k \in 1 .. Len(seq) : seq[k] = a
<1>1. PICK n : n = Cardinality(D)
  OBVIOUS
<1>2. n \in Nat /\ ExistsBijection(1 .. n, D)
  BY <1>1, FS_CardinalityType
<1>3. PICK g \in [1 .. n -> D] : IsInjective(g)
  BY <1>2 DEF ExistsBijection, Bijection, Injection, IsInjective
<1>4. seq \in [1 .. n -> D] /\ IsInjective(seq)
  BY <1>1, <1>3 DEF SetToSeq
<1>5. Len(seq) = n
  <2>1. seq \in Seq(D)
    BY <1>2, <1>4
  <2> QED
    BY <1>2, <1>4, <2>1
<1>6. \A a \in D : \E k \in 1 .. n : seq[k] = a
  <2>1. seq \in Injection(1 .. n, D)
    BY <1>4 DEF IsInjective, Injection
  <2>2. Cardinality(1 .. n) = n /\ IsFiniteSet(1 .. n)
    BY <1>2, FS_Interval
  <2>3. seq \in Surjection(1 .. n, D)
    BY <1>1, <2>1, <2>2, FS_Injection
  <2> QED
    BY <2>3 DEF Surjection
<1> QED
  BY <1>2, <1>4, <1>5, <1>6 DEF IsInjective

\* value v, if it is a loaded one, was loaded before place k of the code
Follows(code, k, v) ==
  v[1] = "load" => \E j \in DOMAIN code : j < k /\ code[j].op = "load" /\ code[j].id = v[2]

\* the loads of the code have numbers of their own, and stores follow the loads they store
OwnLoads(code) ==
  /\ \A k \in DOMAIN code : code[k].op = "store" => Follows(code, k, code[k].val)
  /\ \A k, j \in DOMAIN code :
       code[k].op = "load" /\ code[j].op = "load" /\ code[k].id = code[j].id => k = j

\* The instructions of a block, with the stacks and replacements they change.
RenameStep(ctx, acc, i) == RenameInstr(acc, i)

IsAcc(acc) == acc = [stack |-> acc.stack, repl |-> acc.repl, fault |-> acc.fault]

\* as Extended, with the loads among the first n instructions
Replaced(r, r2, code, n) ==
  /\ DOMAIN r \subseteq DOMAIN r2 /\ \A m \in DOMAIN r : r2[m] = r[m]
  /\ \A m \in DOMAIN r2 \ DOMAIN r : \E k \in 1 .. n : code[k].op = "load" /\ code[k].id = m

RenameKnown(hyp, n, acc) ==
  /\ IsAcc(acc) /\ Replaced(hyp[1].repl, acc.repl, hyp[2], n)
  /\ \A a : StackOf(acc.stack, a) = Pushes!Upto(<<acc.repl, a>>, StackOf(hyp[1].stack, a), hyp[2], n)

Renames == INSTANCE IterateProofs WITH step <- RenameStep, known <- RenameKnown

\* The replacement of the n-th instruction, a load, is none of a store before it.
LEMMA PushesKept ==
  ASSUME NEW code, IsSeq(code), OwnLoads(code), NEW n \in 1 .. Len(code),
         NEW r, NEW r2, DOMAIN r \subseteq DOMAIN r2, \A m \in DOMAIN r : r2[m] = r[m],
         \A m \in DOMAIN r2 \ DOMAIN r : code[n].op = "load" /\ code[n].id = m,
         NEW a, NEW base
  PROVE  Pushes!Upto(<<r, a>>, base, code, n - 1) = Pushes!Upto(<<r2, a>>, base, code, n - 1)
<1>1. PICK S : code \in Seq(S)
  BY DEF IsSeq
<1>2. PICK s : s = SubSeq(code, 1, n - 1)
  OBVIOUS
<1>3. /\ Len(code) \in Nat /\ DOMAIN code = 1 .. Len(code) /\ n - 1 \in Nat /\ n - 1 <= Len(code)
      /\ n \in Nat
  BY <1>1
<1>4. Len(s) = n - 1 /\ \A k \in 1 .. n - 1 : s[k] = code[k]
  BY <1>1, <1>2, <1>3
<1>5. ASSUME NEW k \in 1 .. n - 1, code[k].op = "store"
      PROVE  Current(r, code[k].val) = Current(r2, code[k].val)
  <2>1. k \in DOMAIN code /\ n \in DOMAIN code /\ k < n
    BY <1>3
  <2>2. PICK v : v = code[k].val
    OBVIOUS
  <2>3. Follows(code, k, v)
    BY <1>5, <2>1, <2>2 DEF OwnLoads
  <2>4. ASSUME v[1] = "load", NEW m, m = v[2], m \in DOMAIN r2, m \notin DOMAIN r PROVE FALSE
    <3>1. PICK j \in DOMAIN code : j < k /\ code[j].op = "load" /\ code[j].id = m
      BY <2>3, <2>4 DEF Follows
    <3>2. code[n].op = "load" /\ code[n].id = m
      BY <2>4
    <3>3. j = n
      BY <2>1, <3>1, <3>2 DEF OwnLoads
    <3> QED
      BY <1>3, <2>1, <3>1, <3>3
  <2>5. v[1] = "load" => v[2] \notin DOMAIN r2 \ DOMAIN r
    BY <2>4
  <2> QED
    BY <2>2, <2>5, CurrentKept
<1>6. \A k \in 1 .. Len(s) : s[k].op = "store" => Current(r, s[k].val) = Current(r2, s[k].val)
  BY <1>3, <1>4, <1>5
<1>7. Pushes!Run(<<r, a>>, base, s) = Pushes!Run(<<r2, a>>, base, s)
  BY <1>3, <1>4, <1>6, PushesSame
<1> QED
  BY <1>2, <1>7 DEF Pushes!Upto

\* What an instruction does to the replacements and to the stacks.
Renamed(acc, i, g) ==
  /\ IsAcc(g)
  /\ DOMAIN acc.repl \subseteq DOMAIN g.repl /\ \A m \in DOMAIN acc.repl : g.repl[m] = acc.repl[m]
  /\ \A m \in DOMAIN g.repl \ DOMAIN acc.repl : i.op = "load" /\ i.id = m
  /\ \A a : StackOf(g.stack, a) = PushStep(<<g.repl, a>>, StackOf(acc.stack, a), i)

\* RenameInstr does it.
LEMMA RenameInstrIs ==
  ASSUME NEW acc, IsAcc(acc), NEW i
  PROVE  Renamed(acc, i, RenameInstr(acc, i))
<1>9. PICK g : g = RenameInstr(acc, i)
  OBVIOUS
<1>0. ASSUME NEW r, NEW a, NEW v
      PROVE  PushStep(<<r, a>>, v, i) = IF IsStore(i, a) THEN Append(v, Current(r, i.val)) ELSE v
  BY DEF PushStep
<1> SUFFICES Renamed(acc, i, g)
  BY <1>9
<1>1. CASE i.op = "load"
  <2>1. g = ReplaceLoad(acc, i)
    BY <1>9, <1>1 DEF RenameInstr
  <2>2. \A a : ~IsStore(i, a)
    BY <1>1 DEF IsStore
  <2>3. CASE g = acc
    BY <1>0, <1>1, <2>2, <2>3 DEF Renamed
  <2>4. CASE g = [acc EXCEPT !.fault = TRUE]
    <3>1. IsAcc(g) /\ g.repl = acc.repl /\ g.stack = acc.stack
      BY <2>4 DEF IsAcc
    <3> QED
      BY <1>0, <1>1, <2>2, <3>1 DEF Renamed
  <2>5. CASE g = [acc EXCEPT !.repl = Added(@, i.id, Last(acc.stack[i.var]))]
    <3>1. PICK x : x = Last(acc.stack[i.var])
      OBVIOUS
    <3>2. IsAcc(g) /\ g.repl = Added(acc.repl, i.id, x) /\ g.stack = acc.stack
      BY <2>5, <3>1 DEF IsAcc
    <3>3. /\ DOMAIN g.repl = DOMAIN acc.repl \cup {i.id}
          /\ \A m \in DOMAIN acc.repl : g.repl[m] = acc.repl[m]
      BY <3>2 DEF Added
    <3> QED
      BY <1>0, <1>1, <2>2, <3>2, <3>3 DEF Renamed
  <2> QED
    BY <2>1, <2>3, <2>4, <2>5 DEF ReplaceLoad
<1>2. CASE i.op = "store"
  <2>1. g = RecordStore(acc, i)
    BY <1>9, <1>2 DEF RenameInstr
  <2>2. PICK st, x, y : st = acc.stack /\ x = i.var /\ y = Current(acc.repl, i.val)
    OBVIOUS
  <2>3. IsAcc(g) /\ g.repl = acc.repl /\ g.stack = PushOn(st, x, y)
    BY <2>1, <2>2 DEF IsAcc, RecordStore
  <2>4. ASSUME NEW a
        PROVE  StackOf(g.stack, a) = PushStep(<<g.repl, a>>, StackOf(acc.stack, a), i)
    <3>1. IsStore(i, a) <=> a = x
      BY <1>2, <2>2 DEF IsStore
    <3>2. StackOf(PushOn(st, x, y), a) = IF a = x THEN Append(StackOf(st, x), y) ELSE StackOf(st, a)
      BY PushOnIs
    <3>3. PICK w : w = StackOf(st, a)
      OBVIOUS
    <3>4. PushStep(<<acc.repl, a>>, w, i) = IF IsStore(i, a) THEN Append(w, y) ELSE w
      BY <1>0, <2>2
    <3>5. StackOf(PushOn(st, x, y), a) = PushStep(<<acc.repl, a>>, w, i)
      BY <3>1, <3>2, <3>3, <3>4
    <3> QED
      BY <2>2, <2>3, <3>3, <3>5
  <2> QED
    BY <1>2, <2>3, <2>4 DEF Renamed
<1>3. CASE i.op \notin {"load", "store"}
  <2>1. g = acc /\ \A a : ~IsStore(i, a)
    BY <1>9, <1>3 DEF RenameInstr, IsStore
  <2> QED
    BY <1>0, <1>9, <2>1 DEF Renamed
<1> QED
  BY <1>9, <1>1, <1>2, <1>3

\* Through the code of a block, every stack grows by the values of its stores.
LEMMA RenamingPushes ==
  ASSUME NEW code, IsSeq(code), OwnLoads(code), NEW start, IsAcc(start),
         NEW acc, acc = Renames!Run(0, start, code)
  PROVE  /\ IsAcc(acc) /\ Extended(start.repl, acc.repl, code)
         /\ \A a : StackOf(acc.stack, a) = Pushes!Run(<<acc.repl, a>>, StackOf(start.stack, a), code)
<1>1. PICK hyp : start = hyp[1] /\ code = hyp[2]
  <2>1. start = <<start, code>>[1] /\ code = <<start, code>>[2]
    OBVIOUS
  <2> QED
    BY <2>1
<1>2. PICK S : code \in Seq(S)
  BY DEF IsSeq
<1>3. Len(code) \in Nat /\ DOMAIN code = 1 .. Len(code)
  BY <1>2
<1>4. RenameKnown(hyp, 0, start)
  <2>1. \A a : StackOf(start.stack, a) = Pushes!Upto(<<start.repl, a>>, StackOf(start.stack, a), code, 0)
    BY <1>2, Pushes!RunUpto
  <2> QED
    BY <1>1, <2>1 DEF RenameKnown, Replaced
<1>5. ASSUME NEW n \in 1 .. Len(code), NEW x, RenameKnown(hyp, n - 1, x)
      PROVE  RenameKnown(hyp, n, RenameStep(0, x, code[n]))
  <2>1. PICK g : g = RenameInstr(x, code[n])
    OBVIOUS
  <2>2. /\ IsAcc(x) /\ Replaced(start.repl, x.repl, code, n - 1)
        /\ \A a : StackOf(x.stack, a) = Pushes!Upto(<<x.repl, a>>, StackOf(start.stack, a), code, n - 1)
    BY <1>1, <1>5 DEF RenameKnown
  <2>3. /\ IsAcc(g)
        /\ DOMAIN x.repl \subseteq DOMAIN g.repl /\ \A m \in DOMAIN x.repl : g.repl[m] = x.repl[m]
        /\ \A m \in DOMAIN g.repl \ DOMAIN x.repl : code[n].op = "load" /\ code[n].id = m
        /\ \A a : StackOf(g.stack, a) = PushStep(<<g.repl, a>>, StackOf(x.stack, a), code[n])
    <3>1. PICK i : i = code[n]
      OBVIOUS
    <3>2. g = RenameInstr(x, i) /\ IsAcc(x)
      BY <2>1, <2>2, <3>1
    <3>3. Renamed(x, i, g)
      BY <3>2, RenameInstrIs
    <3> QED
      BY <3>1, <3>3 DEF Renamed
  <2>4. Replaced(start.repl, g.repl, code, n)
    <3>1. \A k \in 1 .. n - 1 : k \in 1 .. n
      BY <1>3
    <3>2. n \in 1 .. n
      BY <1>3
    <3>3. ASSUME NEW m \in DOMAIN g.repl \ DOMAIN start.repl
          PROVE  \E k \in 1 .. n : code[k].op = "load" /\ code[k].id = m
      <4>1. CASE m \in DOMAIN x.repl
        BY <2>2, <3>1, <4>1 DEF Replaced
      <4>2. CASE m \notin DOMAIN x.repl
        BY <2>3, <3>2, <4>2
      <4> QED
        BY <4>1, <4>2
    <3>4. /\ DOMAIN start.repl \subseteq DOMAIN g.repl
          /\ \A m \in DOMAIN start.repl : g.repl[m] = start.repl[m]
      BY <2>2, <2>3 DEF Replaced
    <3> QED
      BY <3>3, <3>4 DEF Replaced
  <2>5. ASSUME NEW a
        PROVE  StackOf(g.stack, a) = Pushes!Upto(<<g.repl, a>>, StackOf(start.stack, a), code, n)
    <3>1. PICK base : base = StackOf(start.stack, a)
      OBVIOUS
    <3>2. Pushes!Upto(<<x.repl, a>>, base, code, n - 1) = Pushes!Upto(<<g.repl, a>>, base, code, n - 1)
      BY <2>3, PushesKept
    <3>3. Pushes!Upto(<<g.repl, a>>, base, code, n)
          = PushStep(<<g.repl, a>>, Pushes!Upto(<<g.repl, a>>, base, code, n - 1), code[n])
      BY <1>2, Pushes!RunLonger
    <3> QED
      BY <2>2, <2>3, <3>1, <3>2, <3>3
  <2> QED
    BY <1>1, <2>1, <2>3, <2>4, <2>5 DEF RenameKnown, RenameStep
<1>6. RenameKnown(hyp, Len(code), acc)
  BY <1>3, <1>4, <1>5, Renames!RunRule
<1>7. IsAcc(acc) /\ Extended(start.repl, acc.repl, code)
  BY <1>1, <1>3, <1>6 DEF RenameKnown, Replaced, Extended
<1>8. ASSUME NEW a
      PROVE  StackOf(acc.stack, a) = Pushes!Run(<<acc.repl, a>>, StackOf(start.stack, a), code)
  <2>1. StackOf(acc.stack, a) = Pushes!Upto(<<acc.repl, a>>, StackOf(start.stack, a), code, Len(code))
    BY <1>1, <1>6 DEF RenameKnown
  <2> QED
    BY <1>2, <2>1, Pushes!RunUpto
<1> QED
  BY <1>7, <1>8
\* What Renaming runs.
LEMMA RenamingIs ==
  ASSUME NEW b
  PROVE  Renaming(b)
         = Renames!Run(0, [stack |-> PhiPushes!Run(b, valStack, SetToSeq(DOMAIN phis[b])),
                           repl |-> repl, fault |-> fault], ir.code[b])
BY DEF Renaming, Instrs, RunThrough, Renames!Run, Renames!RunThrough, RenameStep,
       PhiPushes!Run, PhiPushes!RunThrough, PhiPushStep

\* the value of a phi for a in block b on top of v, and those of the stores of b on top of it
PhiPush(ph, v, b, a) == IF a \in DOMAIN ph[b] THEN Append(v, Phi(b, a)) ELSE v

BlockPush(r, ph, code, v, b, a) == Pushes!Run(<<r, a>>, PhiPush(ph, v, b, a), code[b])

\* The phis push their values.
LEMMA PhisPush ==
  ASSUME NEW b, IsFiniteSet(DOMAIN phis[b]), NEW st,
         st = PhiPushes!Run(b, valStack, SetToSeq(DOMAIN phis[b])), NEW a
  PROVE  StackOf(st, a) = PhiPush(phis, StackOf(valStack, a), b, a)
<1>1. PICK D, seq : D = DOMAIN phis[b] /\ seq = SetToSeq(D)
  OBVIOUS
<1>2. /\ Len(seq) \in Nat
      /\ \A k \in 1 .. Len(seq) : seq[k] \in D
      /\ \A k, j \in 1 .. Len(seq) : seq[k] = seq[j] => k = j
      /\ \A x \in D : \E k \in 1 .. Len(seq) : seq[k] = x
  BY <1>1, ListIs
<1>3. PICK hyp : valStack = hyp[1] /\ seq = hyp[2] /\ b = hyp[3]
  <2>1. /\ valStack = <<valStack, seq, b>>[1] /\ seq = <<valStack, seq, b>>[2]
        /\ b = <<valStack, seq, b>>[3]
    OBVIOUS
  <2> QED
    BY <2>1
<1>4. PhiPushKnown(hyp, 0, valStack)
  BY <1>3 DEF PhiPushKnown
<1>5. ASSUME NEW n \in 1 .. Len(seq), NEW x, PhiPushKnown(hyp, n - 1, x)
      PROVE  PhiPushKnown(hyp, n, PhiPushStep(b, x, seq[n]))
  <2>1. PICK g, v, p : g = PushOn(x, v, p) /\ v = seq[n] /\ p = Phi(b, v)
    OBVIOUS
  <2>2. ASSUME NEW y
        PROVE  StackOf(g, y) = IF \E k \in 1 .. n : seq[k] = y
                               THEN Append(StackOf(valStack, y), Phi(b, y))
                               ELSE StackOf(valStack, y)
    <3>1. StackOf(g, y) = IF y = v THEN Append(StackOf(x, v), p) ELSE StackOf(x, y)
      <4>1. StackOf(PushOn(x, v, p), y) = IF y = v THEN Append(StackOf(x, v), p) ELSE StackOf(x, y)
        BY PushOnIs
      <4> QED
        BY <2>1, <4>1
    <3>2. \A z : StackOf(x, z) = IF \E k \in 1 .. n - 1 : seq[k] = z
                                 THEN Append(StackOf(valStack, z), Phi(b, z))
                                 ELSE StackOf(valStack, z)
      BY <1>3, <1>5 DEF PhiPushKnown
    <3>3. ~\E k \in 1 .. n - 1 : seq[k] = v
      <4>1. \A k \in 1 .. n - 1 : k \in 1 .. Len(seq) /\ k # n
        BY <1>2
      <4> QED
        BY <1>2, <2>1, <4>1
    <3>4. (\E k \in 1 .. n : seq[k] = y) <=> (y = v \/ \E k \in 1 .. n - 1 : seq[k] = y)
      <4>1. \A k : k \in 1 .. n <=> (k = n \/ k \in 1 .. n - 1)
        BY <1>2
      <4> QED
        BY <2>1, <4>1
    <3>5. CASE y = v
      <4>1. StackOf(g, y) = Append(StackOf(valStack, v), p)
        BY <3>1, <3>2, <3>3, <3>5
      <4> QED
        BY <2>1, <3>4, <3>5, <4>1
    <3>6. CASE y # v
      BY <3>1, <3>2, <3>4, <3>6
    <3> QED
      BY <3>5, <3>6
  <2>3. PhiPushKnown(hyp, n, g)
    BY <1>3, <2>2 DEF PhiPushKnown
  <2> QED
    BY <2>1, <2>3 DEF PhiPushStep
<1>6. PhiPushKnown(hyp, Len(seq), st)
  BY <1>1, <1>2, <1>4, <1>5, PhiPushes!RunRule
<1>7. StackOf(st, a) = IF \E k \in 1 .. Len(seq) : seq[k] = a
                       THEN Append(StackOf(valStack, a), Phi(b, a))
                       ELSE StackOf(valStack, a)
  BY <1>3, <1>6 DEF PhiPushKnown
<1>8. (\E k \in 1 .. Len(seq) : seq[k] = a) <=> a \in DOMAIN phis[b]
  BY <1>1, <1>2
<1> QED
  BY <1>7, <1>8 DEF PhiPush

\* a function as rename needs it: a load has a number that no other load has, and a loaded
\* value is stored in the block of its load
Renamable(f) ==
  /\ Entry \in Blocks(f) /\ f.succ \in [Blocks(f) -> Seq(Blocks(f))]
  /\ \A b \in Blocks(f) : IsSeq(f.code[b]) /\ OwnLoads(f.code[b])
  /\ \A b, c \in Blocks(f) : \A k \in DOMAIN f.code[b], j \in DOMAIN f.code[c] :
       f.code[b][k].op = "load" /\ f.code[c][j].op = "load" /\ f.code[b][k].id = f.code[c][j].id
         => b = c

\* The code of its blocks.
LEMMA CodeIs ==
  ASSUME Renamable(ir), NEW b \in Blocks(ir)
  PROVE  /\ IsSeq(ir.code[b]) /\ OwnLoads(ir.code[b])
         /\ Len(ir.code[b]) \in Nat /\ DOMAIN ir.code[b] = 1 .. Len(ir.code[b])
<1>1. IsSeq(ir.code[b]) /\ OwnLoads(ir.code[b])
  BY DEF Renamable
<1> QED
  BY <1>1 DEF IsSeq

\* Entering a block pushes its phis and the values of its stores on every stack.
LEMMA EnterPushes ==
  ASSUME Renamable(ir), NEW b \in Blocks(ir), IsFiniteSet(DOMAIN phis[b]),
         NEW done, done = Renaming(b)
  PROVE  /\ Extended(repl, done.repl, ir.code[b])
         /\ \A a : StackOf(done.stack, a)
                   = BlockPush(done.repl, phis, ir.code, StackOf(valStack, a), b, a)
<1>1. PICK st, start : /\ st = PhiPushes!Run(b, valStack, SetToSeq(DOMAIN phis[b]))
                       /\ start = [stack |-> st, repl |-> repl, fault |-> fault]
  OBVIOUS
<1>2. IsAcc(start) /\ start.stack = st /\ start.repl = repl
  BY <1>1 DEF IsAcc
<1>3. done = Renames!Run(0, start, ir.code[b])
  BY <1>1, RenamingIs
<1>4. IsSeq(ir.code[b]) /\ OwnLoads(ir.code[b])
  BY CodeIs
<1>5. /\ Extended(repl, done.repl, ir.code[b])
      /\ \A a : StackOf(done.stack, a) = Pushes!Run(<<done.repl, a>>, StackOf(st, a), ir.code[b])
  <2>1. PICK code : code = ir.code[b]
    OBVIOUS
  <2>2. /\ Extended(start.repl, done.repl, code)
        /\ \A a : StackOf(done.stack, a) = Pushes!Run(<<done.repl, a>>, StackOf(start.stack, a), code)
    BY <1>2, <1>3, <1>4, <2>1, RenamingPushes
  <2> QED
    BY <1>2, <2>1, <2>2
<1>6. \A a : StackOf(st, a) = PhiPush(phis, StackOf(valStack, a), b, a)
  BY <1>1, PhisPush
<1> QED
  BY <1>5, <1>6 DEF BlockPush
-----------------------------------------------------------------------------
(***************************************************************************)
(* What the active calls of rename have pushed, from the entry's call on;  *)
(* ctx is the replacements, the phis, the code and the variable.           *)
(***************************************************************************)
CallStep(ctx, v, c) == BlockPush(ctx[1], ctx[2], ctx[3], v, c.bb, ctx[4])

CallKnown(hyp, n, v) == IsSeq(v)

CallRuns == INSTANCE IterateProofs WITH step <- CallStep, known <- CallKnown

Held(r, ph, code, cs, a) == CallRuns!Run(<<r, ph, code, a>>, << >>, cs)

\* What a block pushes does not depend on what rename does to another.
LEMMA BlockPushSame ==
  ASSUME Renamable(ir), NEW b \in Blocks(ir), NEW c \in Blocks(ir), b # c,
         NEW r, NEW r2, Extended(r, r2, ir.code[c]),
         NEW ph, NEW ph2, DOMAIN ph[b] = DOMAIN ph2[b], NEW a, NEW v
  PROVE  BlockPush(r, ph, ir.code, v, b, a) = BlockPush(r2, ph2, ir.code, v, b, a)
<1>1. PICK code, other : code = ir.code[b] /\ other = ir.code[c]
  OBVIOUS
<1>2. IsSeq(code) /\ OwnLoads(code) /\ Len(code) \in Nat /\ DOMAIN code = 1 .. Len(code)
  BY <1>1, CodeIs
<1>3. \A k \in DOMAIN code, j \in DOMAIN other :
        ~(code[k].op = "load" /\ other[j].op = "load" /\ code[k].id = other[j].id)
  BY <1>1 DEF Renamable
<1>4. ASSUME NEW k \in 1 .. Len(code), code[k].op = "store"
      PROVE  Current(r, code[k].val) = Current(r2, code[k].val)
  <2>1. PICK w : w = code[k].val
    OBVIOUS
  <2>2. Follows(code, k, w)
    BY <1>2, <1>4, <2>1 DEF OwnLoads
  <2>3. ASSUME w[1] = "load", NEW m, m = w[2], m \in DOMAIN r2, m \notin DOMAIN r PROVE FALSE
    <3>1. PICK j \in DOMAIN code : code[j].op = "load" /\ code[j].id = m
      BY <2>2, <2>3 DEF Follows
    <3>2. PICK i \in DOMAIN other : other[i].op = "load" /\ other[i].id = m
      BY <1>1, <2>3 DEF Extended
    <3> QED
      BY <1>3, <3>1, <3>2
  <2>4. w[1] = "load" => w[2] \notin DOMAIN r2 \ DOMAIN r
    BY <2>3
  <2>5. DOMAIN r \subseteq DOMAIN r2 /\ \A m \in DOMAIN r : r2[m] = r[m]
    BY DEF Extended
  <2> QED
    BY <2>1, <2>4, <2>5, CurrentKept
<1>5. PhiPush(ph, v, b, a) = PhiPush(ph2, v, b, a)
  BY DEF PhiPush
<1>6. PICK base : base = PhiPush(ph, v, b, a)
  OBVIOUS
<1>7. Pushes!Run(<<r, a>>, base, code) = Pushes!Run(<<r2, a>>, base, code)
  BY <1>2, <1>4, PushesSame
<1> QED
  BY <1>1, <1>5, <1>6, <1>7 DEF BlockPush

\* two lists of calls that push the same, call by call
Alike(ctx, env2, cs, cs2) ==
  /\ Len(cs) \in Nat /\ Len(cs2) = Len(cs)
  /\ \A n \in 1 .. Len(cs) : \A x : CallStep(ctx, x, cs[n]) = CallStep(env2, x, cs2[n])

\* They hold the same.
LEMMA CallRunsSame ==
  ASSUME NEW ctx, NEW env2, NEW cs, NEW cs2, Alike(ctx, env2, cs, cs2)
  PROVE  CallRuns!Run(ctx, << >>, cs) = CallRuns!Run(env2, << >>, cs2)
<1>1. PICK start : start = << >>
  OBVIOUS
<1>2. CallRuns!Run(ctx, start, cs) = CallRuns!Run(env2, start, cs2)
  BY CallRuns!RunSame DEF Alike
<1> QED
  BY <1>1, <1>2

\* entering block c adds replacements, from r to r2, and operands to the phis, from ph to
\* ph2; cs and cs2 are calls of other blocks, the same ones
Entering(c, r, r2, ph, ph2, cs, cs2) ==
  /\ Extended(r, r2, ir.code[c])
  /\ \A b \in Blocks(ir) : DOMAIN ph[b] = DOMAIN ph2[b]
  /\ Len(cs) \in Nat /\ Len(cs2) = Len(cs)
  /\ \A k \in 1 .. Len(cs) : cs[k].bb \in Blocks(ir) \ {c} /\ cs2[k].bb = cs[k].bb

\* This changes nothing in what these calls have pushed.
LEMMA HeldSame ==
  ASSUME Renamable(ir), NEW c \in Blocks(ir), NEW r, NEW r2, NEW ph, NEW ph2, NEW cs, NEW cs2,
         Entering(c, r, r2, ph, ph2, cs, cs2), NEW a
  PROVE  Held(r, ph, ir.code, cs, a) = Held(r2, ph2, ir.code, cs2, a)
<1>0. /\ Extended(r, r2, ir.code[c]) /\ \A b \in Blocks(ir) : DOMAIN ph[b] = DOMAIN ph2[b]
      /\ Len(cs) \in Nat /\ Len(cs2) = Len(cs)
      /\ \A k \in 1 .. Len(cs) : cs[k].bb \in Blocks(ir) \ {c} /\ cs2[k].bb = cs[k].bb
  BY DEF Entering
<1>1. PICK ctx, env2 :
        /\ ctx = <<r, ph, ir.code, a>> /\ env2 = <<r2, ph2, ir.code, a>>
        /\ ctx[1] = r /\ ctx[2] = ph /\ ctx[3] = ir.code /\ ctx[4] = a
        /\ env2[1] = r2 /\ env2[2] = ph2 /\ env2[3] = ir.code /\ env2[4] = a
  <2>1. PICK code : code = ir.code
    OBVIOUS
  <2>2. /\ <<r, ph, code, a>>[1] = r /\ <<r, ph, code, a>>[2] = ph
        /\ <<r, ph, code, a>>[3] = code /\ <<r, ph, code, a>>[4] = a
        /\ <<r2, ph2, code, a>>[1] = r2 /\ <<r2, ph2, code, a>>[2] = ph2
        /\ <<r2, ph2, code, a>>[3] = code /\ <<r2, ph2, code, a>>[4] = a
    OBVIOUS
  <2> QED
    BY <2>1, <2>2
<1>2. ASSUME NEW n \in 1 .. Len(cs), NEW x
      PROVE  CallStep(ctx, x, cs[n]) = CallStep(env2, x, cs2[n])
  <2>1. PICK b : b = cs[n].bb /\ b = cs2[n].bb /\ b \in Blocks(ir) /\ b # c
    BY <1>0
  <2>2. DOMAIN ph[b] = DOMAIN ph2[b]
    BY <1>0, <2>1
  <2>3. BlockPush(r, ph, ir.code, x, b, a) = BlockPush(r2, ph2, ir.code, x, b, a)
    BY <1>0, <2>1, <2>2, BlockPushSame
  <2> QED
    BY <1>1, <2>1, <2>3 DEF CallStep
<1>3. CallRuns!Run(ctx, << >>, cs) = CallRuns!Run(env2, << >>, cs2)
  <2>1. Alike(ctx, env2, cs, cs2)
    BY <1>0, <1>2 DEF Alike
  <2> QED
    BY <2>1, CallRunsSame
<1> QED
  BY <1>1, <1>3 DEF Held

\* No call has pushed anything.
LEMMA HeldNone == \A r, ph, code, a : Held(r, ph, code, << >>, a) = << >>
<1> SUFFICES ASSUME NEW r, NEW ph, NEW code, NEW a PROVE Held(r, ph, code, << >>, a) = << >>
  OBVIOUS
<1>1. PICK ctx : ctx = <<r, ph, code, a>>
  OBVIOUS
<1>2. PICK s, start : s = << >> /\ start = << >>
  OBVIOUS
<1>3. s \in Seq({0}) /\ Len(s) = 0
  BY <1>2
<1>4. CallRuns!Upto(ctx, start, s, 0) = start /\ CallRuns!Upto(ctx, start, s, 0) = CallRuns!Run(ctx, start, s)
  BY <1>3, CallRuns!RunUpto
<1> QED
  BY <1>1, <1>2, <1>4 DEF Held

\* A further call pushes on what the others have.
LEMMA HeldAppend ==
  ASSUME NEW S, NEW cs \in Seq(S), NEW c \in S, NEW r, NEW ph, NEW code, NEW a
  PROVE  Held(r, ph, code, Append(cs, c), a) = BlockPush(r, ph, code, Held(r, ph, code, cs, a), c.bb, a)
<1>1. PICK ctx : /\ ctx = <<r, ph, code, a>>
                 /\ ctx[1] = r /\ ctx[2] = ph /\ ctx[3] = code /\ ctx[4] = a
  <2>1. /\ <<r, ph, code, a>>[1] = r /\ <<r, ph, code, a>>[2] = ph
        /\ <<r, ph, code, a>>[3] = code /\ <<r, ph, code, a>>[4] = a
    OBVIOUS
  <2> QED
    BY <2>1
<1>2. CallRuns!Run(ctx, << >>, Append(cs, c)) = CallStep(ctx, CallRuns!Run(ctx, << >>, cs), c)
  BY CallRuns!RunAppend
<1> QED
  BY <1>1, <1>2 DEF Held, CallStep

\* What is pushed is a sequence, on top of what was there.
LEMMA BlockPushIs ==
  ASSUME Renamable(ir), NEW b \in Blocks(ir), NEW r, NEW ph, NEW a, NEW v, IsSeq(v),
         NEW w, w = BlockPush(r, ph, ir.code, v, b, a),
         NEW base, base = PhiPush(ph, v, b, a), NEW code, code = ir.code[b]
  PROVE  /\ Starts(v, base) /\ Len(base) = Len(v) + (IF a \in DOMAIN ph[b] THEN 1 ELSE 0)
         /\ Starts(base, w) /\ Len(w) = Len(base) + StoresTo(a, code, Len(code))
         /\ Len(v) \in Nat /\ IsSeq(w)
         /\ \A k \in 0 .. Len(code) : /\ StoresTo(a, code, k) \in Nat
                                      /\ StoresTo(a, code, k) <= StoresTo(a, code, Len(code))
<1>1. Len(v) \in Nat /\ Starts(v, v)
  BY DEF IsSeq, Starts
<1>2. Starts(v, base) /\ Len(base) = Len(v) + (IF a \in DOMAIN ph[b] THEN 1 ELSE 0)
  <2>1. PICK p : p = Phi(b, a)
    OBVIOUS
  <2>2. CASE a \in DOMAIN ph[b]
    <3>1. base = Append(v, p)
      BY <2>1, <2>2 DEF PhiPush
    <3>2. Starts(v, Append(v, p)) /\ Len(Append(v, p)) = Len(v) + 1
      BY <1>1, StartsAppend
    <3> QED
      BY <2>2, <3>1, <3>2
  <2>3. CASE a \notin DOMAIN ph[b]
    BY <1>1, <2>3 DEF PhiPush
  <2> QED
    BY <2>2, <2>3
<1>3. IsSeq(code) /\ IsSeq(base)
  BY <1>2, CodeIs DEF Starts
<1>4. w = Pushes!Run(<<r, a>>, base, code)
  BY DEF BlockPush
<1>5. /\ Starts(base, w) /\ Len(w) = Len(base) + StoresTo(a, code, Len(code))
      /\ \A k \in 0 .. Len(code) : /\ StoresTo(a, code, k) \in Nat
                                   /\ StoresTo(a, code, k) <= StoresTo(a, code, Len(code))
  <2>1. PICK r0, a0, b0, c0 : r0 = r /\ a0 = a /\ b0 = base /\ c0 = code
    OBVIOUS
  <2>2. IsSeq(b0) /\ IsSeq(c0) /\ w = Pushes!Run(<<r0, a0>>, b0, c0)
    BY <1>3, <1>4, <2>1
  <2>3. /\ Starts(b0, w) /\ Len(w) = Len(b0) + StoresTo(a0, c0, Len(c0))
        /\ \A k \in 0 .. Len(c0) : /\ StoresTo(a0, c0, k) \in Nat
                                     /\ StoresTo(a0, c0, k) <= StoresTo(a0, c0, Len(c0))
    BY <2>2, PushesAre
  <2> QED
    BY <2>1, <2>3
<1>6. IsSeq(w)
  BY <1>5 DEF Starts
<1> QED
  BY <1>1, <1>2, <1>5, <1>6, Zenon

LEMMA HeldIsSeq ==
  ASSUME Renamable(ir), NEW r, NEW ph, NEW cs, Len(cs) \in Nat,
         \A k \in 1 .. Len(cs) : cs[k].bb \in Blocks(ir), NEW a
  PROVE  IsSeq(Held(r, ph, ir.code, cs, a))
<1>1. PICK ctx : /\ ctx = <<r, ph, ir.code, a>>
                 /\ ctx[1] = r /\ ctx[2] = ph /\ ctx[3] = ir.code /\ ctx[4] = a
  <2>1. PICK code : code = ir.code
    OBVIOUS
  <2>2. /\ <<r, ph, code, a>>[1] = r /\ <<r, ph, code, a>>[2] = ph
        /\ <<r, ph, code, a>>[3] = code /\ <<r, ph, code, a>>[4] = a
    OBVIOUS
  <2> QED
    BY <2>1, <2>2
<1>2. CallKnown(0, 0, << >>)
  <2>1. << >> \in Seq({0})
    OBVIOUS
  <2> QED
    BY <2>1 DEF CallKnown, IsSeq
<1>3. ASSUME NEW n \in 1 .. Len(cs), NEW x, CallKnown(0, n - 1, x)
      PROVE  CallKnown(0, n, CallStep(ctx, x, cs[n]))
  <2>1. PICK b : b = cs[n].bb /\ b \in Blocks(ir)
    OBVIOUS
  <2>2. IsSeq(x)
    BY <1>3 DEF CallKnown
  <2>3. PICK w, base, code : /\ w = BlockPush(r, ph, ir.code, x, b, a)
                             /\ base = PhiPush(ph, x, b, a) /\ code = ir.code[b]
    OBVIOUS
  <2>4. IsSeq(w)
    BY <2>1, <2>2, <2>3, BlockPushIs
  <2> QED
    BY <1>1, <2>1, <2>3, <2>4 DEF CallKnown, CallStep
<1>4. CallKnown(0, Len(cs), CallRuns!Run(ctx, << >>, cs))
  BY <1>2, <1>3, CallRuns!RunRule
<1> QED
  BY <1>1, <1>4 DEF Held, CallKnown
-----------------------------------------------------------------------------
(***************************************************************************)
(* What rename pops when it leaves a block: as much as it has pushed.      *)
(***************************************************************************)
\* acc with x taken off the stack of a, and nothing else changed
Popped(acc, a, g) ==
  /\ g = [stack |-> g.stack, fault |-> acc.fault]
  /\ \A x : StackOf(g.stack, x) = IF x = a THEN Front(StackOf(acc.stack, x)) ELSE StackOf(acc.stack, x)

\* No assertion fails as long as there is a value.
LEMMA PopFromIs ==
  ASSUME NEW acc, NEW fl, acc = [stack |-> acc.stack, fault |-> fl],
         NEW a, StackOf(acc.stack, a) # << >>
  PROVE  a \in DOMAIN acc.stack /\ Popped(acc, a, PopFrom(acc, a))
<1>1. PICK g : g = PopFrom(acc, a)
  OBVIOUS
<1>2. a \in DOMAIN acc.stack /\ acc.stack[a] # << >>
  BY DEF StackOf
<1>3. g = [acc EXCEPT !.stack[a] = Front(@)]
  BY <1>1, <1>2 DEF PopFrom
<1>4. PICK st : st = acc.stack
  OBVIOUS
<1>5. PICK st2 : st2 = [st EXCEPT ![a] = Front(@)]
  OBVIOUS
<1>6. g = [stack |-> st2, fault |-> fl]
  BY <1>3, <1>4, <1>5
<1>7. ASSUME NEW x PROVE StackOf(st2, x) = IF x = a THEN Front(StackOf(st, x)) ELSE StackOf(st, x)
  <2>1. DOMAIN st2 = DOMAIN st /\ st2[a] = Front(st[a])
    BY <1>2, <1>4, <1>5
  <2>2. x # a /\ x \in DOMAIN st => st2[x] = st[x]
    BY <1>5
  <2> QED
    BY <1>2, <1>4, <2>1, <2>2 DEF StackOf
<1>8. g.stack = st2 /\ g = [stack |-> g.stack, fault |-> acc.fault]
  <2>1. g.stack = st2 /\ acc.fault = fl
    BY <1>6
  <2> QED
    BY <1>6, <2>1
<1> QED
  BY <1>1, <1>2, <1>4, <1>7, <1>8 DEF Popped

\* The phis of a block, in any order, pop one value each.
PhiPopStep(ctx, acc, a) == PopPhi(acc, a)

PhiPopKnown(hyp, n, acc) ==
  /\ acc = [stack |-> acc.stack, fault |-> hyp[1].fault]
  /\ \A a : StackOf(acc.stack, a) = IF \E k \in 1 .. n : hyp[2][k] = a
                                    THEN Front(StackOf(hyp[1].stack, a))
                                    ELSE StackOf(hyp[1].stack, a)

PhiPops == INSTANCE IterateProofs WITH step <- PhiPopStep, known <- PhiPopKnown

LEMMA PhisPop ==
  ASSUME NEW D, IsFiniteSet(D), NEW start, start = [stack |-> start.stack, fault |-> start.fault],
         \A a \in D : StackOf(start.stack, a) # << >>,
         NEW g, g = PhiPops!Run(0, start, SetToSeq(D))
  PROVE  /\ g = [stack |-> g.stack, fault |-> start.fault]
         /\ \A a : StackOf(g.stack, a) = IF a \in D THEN Front(StackOf(start.stack, a))
                                         ELSE StackOf(start.stack, a)
<1>1. PICK seq : seq = SetToSeq(D)
  OBVIOUS
<1>2. /\ Len(seq) \in Nat
      /\ \A k \in 1 .. Len(seq) : seq[k] \in D
      /\ \A k, j \in 1 .. Len(seq) : seq[k] = seq[j] => k = j
      /\ \A x \in D : \E k \in 1 .. Len(seq) : seq[k] = x
  BY <1>1, ListIs
<1>3. PICK hyp : start = hyp[1] /\ seq = hyp[2]
  <2>1. start = <<start, seq>>[1] /\ seq = <<start, seq>>[2]
    OBVIOUS
  <2> QED
    BY <2>1
<1>4. PhiPopKnown(hyp, 0, start)
  BY <1>3 DEF PhiPopKnown
<1>5. ASSUME NEW n \in 1 .. Len(seq), NEW x, PhiPopKnown(hyp, n - 1, x)
      PROVE  PhiPopKnown(hyp, n, PhiPopStep(0, x, seq[n]))
  <2>1. PICK a, fl : a = seq[n] /\ fl = start.fault
    OBVIOUS
  <2>2. /\ x = [stack |-> x.stack, fault |-> fl]
        /\ \A y : StackOf(x.stack, y) = IF \E k \in 1 .. n - 1 : seq[k] = y
                                        THEN Front(StackOf(start.stack, y))
                                        ELSE StackOf(start.stack, y)
    BY <1>3, <1>5, <2>1 DEF PhiPopKnown
  <2>3. ~\E k \in 1 .. n - 1 : seq[k] = a
    <3>1. \A k \in 1 .. n - 1 : k \in 1 .. Len(seq) /\ k # n
      BY <1>2
    <3> QED
      BY <1>2, <2>1, <3>1
  <2>4. a \in D /\ StackOf(x.stack, a) # << >>
    BY <1>2, <2>1, <2>2, <2>3
  <2>5. PICK h : h = PopFrom(x, a)
    OBVIOUS
  <2>6. a \in DOMAIN x.stack /\ Popped(x, a, h)
    BY <2>2, <2>4, <2>5, PopFromIs
  <2>7. PhiPopStep(0, x, seq[n]) = h
    BY <2>1, <2>5, <2>6 DEF PhiPopStep, PopPhi
  <2>8. x.fault = fl
    BY <2>2
  <2>9. ASSUME NEW y
        PROVE  StackOf(h.stack, y) = IF \E k \in 1 .. n : seq[k] = y
                                     THEN Front(StackOf(start.stack, y))
                                     ELSE StackOf(start.stack, y)
    <3>1. StackOf(h.stack, y) = IF y = a THEN Front(StackOf(x.stack, y)) ELSE StackOf(x.stack, y)
      BY <2>6 DEF Popped
    <3>2. (\E k \in 1 .. n : seq[k] = y) <=> (y = a \/ \E k \in 1 .. n - 1 : seq[k] = y)
      <4>1. \A k : k \in 1 .. n <=> (k = n \/ k \in 1 .. n - 1)
        BY <1>2
      <4> QED
        BY <2>1, <4>1
    <3>3. CASE y = a
      BY <2>2, <2>3, <3>1, <3>2, <3>3
    <3>4. CASE y # a
      BY <2>2, <3>1, <3>2, <3>4
    <3> QED
      BY <3>3, <3>4
  <2>10. h = [stack |-> h.stack, fault |-> fl]
    BY <2>6, <2>8 DEF Popped
  <2>11. PhiPopKnown(hyp, n, h)
    BY <1>3, <2>1, <2>9, <2>10 DEF PhiPopKnown
  <2> QED
    BY <2>7, <2>11
<1>6. PhiPopKnown(hyp, Len(seq), g)
  BY <1>1, <1>2, <1>4, <1>5, PhiPops!RunRule
<1>7. \A a : (\E k \in 1 .. Len(seq) : seq[k] = a) <=> a \in D
  BY <1>2
<1> QED
  BY <1>3, <1>6, <1>7 DEF PhiPopKnown

\* The stores of a block pop a value each.
StorePopStep(ctx, acc, i) == PopStore(acc, i)

StorePopKnown(hyp, n, acc) ==
  /\ acc = [stack |-> acc.stack, fault |-> hyp[1].fault]
  /\ \A a : /\ Starts(StackOf(acc.stack, a), StackOf(hyp[1].stack, a))
            /\ Len(StackOf(acc.stack, a)) = Len(StackOf(hyp[1].stack, a)) - StoresTo(a, hyp[2], n)

StorePops == INSTANCE IterateProofs WITH step <- StorePopStep, known <- StorePopKnown

LEMMA StoresPop ==
  ASSUME NEW code, IsSeq(code), Len(code) \in Nat,
         NEW start, start = [stack |-> start.stack, fault |-> start.fault],
         \A a : /\ IsSeq(StackOf(start.stack, a)) /\ Len(StackOf(start.stack, a)) \in Nat
                /\ \A k \in 0 .. Len(code) : /\ StoresTo(a, code, k) \in Nat
                                             /\ StoresTo(a, code, k) <= Len(StackOf(start.stack, a)),
         NEW g, g = StorePops!Run(0, start, code)
  PROVE  /\ g = [stack |-> g.stack, fault |-> start.fault]
         /\ \A a : /\ Starts(StackOf(g.stack, a), StackOf(start.stack, a))
                   /\ Len(StackOf(g.stack, a)) = Len(StackOf(start.stack, a)) - StoresTo(a, code, Len(code))
<1>1. PICK hyp : start = hyp[1] /\ code = hyp[2]
  <2>1. start = <<start, code>>[1] /\ code = <<start, code>>[2]
    OBVIOUS
  <2> QED
    BY <2>1
<1>2. StorePopKnown(hyp, 0, start)
  <2>1. ASSUME NEW a
        PROVE  /\ Starts(StackOf(start.stack, a), StackOf(start.stack, a))
               /\ Len(StackOf(start.stack, a)) = Len(StackOf(start.stack, a)) - StoresTo(a, code, 0)
    <3>1. PICK w : w = StackOf(start.stack, a)
      OBVIOUS
    <3>2. IsSeq(w) /\ Len(w) \in Nat
      BY <3>1
    <3>3. StoresTo(a, code, 0) = 0
      BY CountIs
    <3> QED
      BY <3>1, <3>2, <3>3 DEF Starts
  <2> QED
    BY <1>1, <2>1 DEF StorePopKnown
<1>3. ASSUME NEW n \in 1 .. Len(code), NEW x, StorePopKnown(hyp, n - 1, x)
      PROVE  StorePopKnown(hyp, n, StorePopStep(0, x, code[n]))
  <2>1. PICK i, fl : i = code[n] /\ fl = start.fault
    OBVIOUS
  <2>2. /\ x = [stack |-> x.stack, fault |-> fl]
        /\ \A a : /\ Starts(StackOf(x.stack, a), StackOf(start.stack, a))
                  /\ Len(StackOf(x.stack, a)) = Len(StackOf(start.stack, a)) - StoresTo(a, code, n - 1)
    BY <1>1, <1>3, <2>1 DEF StorePopKnown
  <2>3. \A a : StoresTo(a, code, n) = StoresTo(a, code, n - 1) + (IF IsStore(i, a) THEN 1 ELSE 0)
    BY <2>1, CountIs
  <2>4. n - 1 \in 0 .. Len(code) /\ n \in 0 .. Len(code)
    OBVIOUS
  <2>5. \A a : StoresTo(a, code, n - 1) \in Nat /\ StoresTo(a, code, n) \in Nat
               /\ StoresTo(a, code, n) <= Len(StackOf(start.stack, a))
    BY <2>4
  <2>6. CASE i.op # "store"
    <3>1. \A a : ~IsStore(i, a)
      BY <2>6 DEF IsStore
    <3>2. StorePopStep(0, x, code[n]) = x
      BY <2>1, <2>6 DEF StorePopStep, PopStore
    <3>3. \A a : StoresTo(a, code, n) = StoresTo(a, code, n - 1)
      BY <2>3, <2>5, <3>1
    <3>4. StorePopKnown(hyp, n, x)
      BY <1>1, <2>1, <2>2, <3>3 DEF StorePopKnown
    <3> QED
      BY <3>2, <3>4
  <2>7. CASE i.op = "store"
    <3>1. PICK v : v = i.var
      OBVIOUS
    <3>2. \A a : IsStore(i, a) <=> a = v
      BY <2>7, <3>1 DEF IsStore
    <3>3. StackOf(x.stack, v) # << >>
      <4>1. PICK w, c, m, l : /\ w = StackOf(x.stack, v) /\ c = StoresTo(v, code, n - 1)
                              /\ m = StoresTo(v, code, n) /\ l = Len(StackOf(start.stack, v))
        OBVIOUS
      <4>2. m = c + 1 /\ c \in Nat /\ m <= l /\ Len(w) = l - c /\ l \in Nat
        <5>1. m = c + (IF IsStore(i, v) THEN 1 ELSE 0) /\ IsStore(i, v)
          BY <2>3, <3>2, <4>1
        <5>2. c \in Nat /\ m <= l /\ Len(w) = l - c /\ l \in Nat
          BY <2>2, <2>5, <4>1
        <5> QED
          BY <5>1, <5>2
      <4>3. Len(w) # 0
        BY <4>2
      <4> QED
        BY <4>1, <4>3
    <3>4. PICK h : h = PopFrom(x, v)
      OBVIOUS
    <3>5. v \in DOMAIN x.stack /\ Popped(x, v, h)
      BY <2>2, <3>3, <3>4, PopFromIs
    <3>6. StorePopStep(0, x, code[n]) = h
      BY <2>1, <2>7, <3>1, <3>4, <3>5 DEF StorePopStep, PopStore
    <3>7. x.fault = fl /\ h = [stack |-> h.stack, fault |-> fl]
      BY <2>2, <3>5 DEF Popped
    <3>8. ASSUME NEW a
          PROVE  /\ Starts(StackOf(h.stack, a), StackOf(start.stack, a))
                 /\ Len(StackOf(h.stack, a)) = Len(StackOf(start.stack, a)) - StoresTo(a, code, n)
      <4>1. PICK w, u, c, m, s : /\ w = StackOf(x.stack, a) /\ c = StoresTo(a, code, n - 1)
                                 /\ m = StoresTo(a, code, n) /\ s = StackOf(start.stack, a)
                                 /\ u = StackOf(h.stack, a)
        OBVIOUS
      <4>2. /\ Starts(w, s) /\ Len(w) = Len(s) - c /\ c \in Nat /\ m \in Nat /\ Len(s) \in Nat
            /\ m = c + (IF IsStore(i, a) THEN 1 ELSE 0)
        BY <2>2, <2>3, <2>5, <4>1
      <4>3. u = IF a = v THEN Front(w) ELSE w
        BY <3>5, <4>1 DEF Popped
      <4>4. CASE a = v
        <5>1. w # << >> /\ u = Front(w) /\ m = c + 1
          BY <3>2, <3>3, <4>1, <4>2, <4>3, <4>4
        <5>2. Starts(u, s) /\ Len(u) = Len(w) - 1
          BY <4>2, <5>1, StartsFront
        <5> QED
          BY <4>1, <4>2, <5>1, <5>2
      <4>5. CASE a # v
        <5>1. u = w /\ m = c
          BY <3>2, <4>2, <4>3, <4>5
        <5> QED
          BY <4>1, <4>2, <5>1
      <4> QED
        BY <4>4, <4>5
    <3>9. StorePopKnown(hyp, n, h)
      BY <1>1, <2>1, <3>7, <3>8 DEF StorePopKnown
    <3> QED
      BY <3>6, <3>9
  <2> QED
    BY <2>6, <2>7
<1>4. StorePopKnown(hyp, Len(code), g)
  BY <1>2, <1>3, StorePops!RunRule
<1> QED
  BY <1>1, <1>4 DEF StorePopKnown
\* What Popping runs.
LEMMA PoppingIs ==
  ASSUME NEW b
  PROVE  Popping(b)
         = StorePops!Run(0, PhiPops!Run(0, [stack |-> valStack, fault |-> fault],
                                        SetToSeq(DOMAIN phis[b])), ir.code[b])
BY DEF Popping, Instrs, RunThrough, StorePops!Run, StorePops!RunThrough, StorePopStep,
       PhiPops!Run, PhiPops!RunThrough, PhiPopStep

\* What StacksFollowCalls expects of a block is what BlockPush says.
LEMMA PushedIs ==
  ASSUME NEW v, NEW b, NEW a
  PROVE  Pushed(v, b, a) = BlockPush(repl, phis, ir.code, v, b, a)
<1> DEFINE seq == ir.code[b]
           base == IF a \in DOMAIN phis[b] THEN Append(v, Phi(b, a)) ELSE v
           A(w, i) == IF i.op = "store" /\ i.var = a THEN Append(w, Current(repl, i.val)) ELSE w
           B(w, i) == PushStep(<<repl, a>>, w, i)
           F(x) == [n \in 0 .. Len(seq) |-> IF n = 0 THEN base
                                            ELSE CHOOSE r \in {A(w, seq[n]) : w \in {x[n - 1]}} : TRUE]
           G(x) == [n \in 0 .. Len(seq) |-> IF n = 0 THEN base
                                            ELSE CHOOSE r \in {B(w, seq[n]) : w \in {x[n - 1]}} : TRUE]
<1>1. \A w, i : A(w, i) = B(w, i)
  BY DEF PushStep, IsStore
<1>2. (CHOOSE x : x = F(x)) = (CHOOSE x : x = G(x))
  <2> HIDE DEF A, B, base
  <2>1. \A i, x : {A(w, i) : w \in {x}} = {B(w, i) : w \in {x}}
    BY <1>1
  <2>2. \A x : F(x) = G(x)
    BY <2>1
  <2> HIDE DEF F, G
  <2> QED
    BY <2>2, Zenon
<1>3. Pushed(v, b, a) = (CHOOSE x : x = F(x))[Len(seq)]
  BY Zenon DEF Pushed, RunThrough, Instrs
<1>4. BlockPush(repl, phis, ir.code, v, b, a) = (CHOOSE x : x = G(x))[Len(seq)]
  BY Zenon DEF BlockPush, PhiPush, Pushes!Run, Pushes!RunThrough
<1> HIDE DEF F, G, seq
<1> QED
  BY <1>2, <1>3, <1>4, Zenon

\* What it expects of a stack is what Held says.
LEMMA HeldIs ==
  ASSUME NEW a
  PROVE  LET call(values, c) == Pushed(values, c.bb, a)
         IN  RunThrough(call, << >>, calls) = Held(repl, phis, ir.code, calls, a)
<1> DEFINE A(w, c) == Pushed(w, c.bb, a)
           B(w, c) == CallStep(<<repl, phis, ir.code, a>>, w, c)
           F(x) == [n \in 0 .. Len(calls) |-> IF n = 0 THEN << >>
                                              ELSE CHOOSE r \in {A(w, calls[n]) : w \in {x[n - 1]}} : TRUE]
           G(x) == [n \in 0 .. Len(calls) |-> IF n = 0 THEN << >>
                                              ELSE CHOOSE r \in {B(w, calls[n]) : w \in {x[n - 1]}} : TRUE]
<1>1. ASSUME NEW w, NEW c PROVE A(w, c) = B(w, c)
  <2>1. PICK ctx : /\ ctx = <<repl, phis, ir.code, a>>
                   /\ ctx[1] = repl /\ ctx[2] = phis /\ ctx[3] = ir.code /\ ctx[4] = a
    <3>1. PICK code : code = ir.code
      OBVIOUS
    <3>2. /\ <<repl, phis, code, a>>[1] = repl /\ <<repl, phis, code, a>>[2] = phis
          /\ <<repl, phis, code, a>>[3] = code /\ <<repl, phis, code, a>>[4] = a
      OBVIOUS
    <3> QED
      BY <3>1, <3>2
  <2>2. CallStep(ctx, w, c) = BlockPush(repl, phis, ir.code, w, c.bb, a)
    BY <2>1 DEF CallStep
  <2> QED
    BY <2>1, <2>2, PushedIs
<1>2. (CHOOSE x : x = F(x)) = (CHOOSE x : x = G(x))
  <2> HIDE DEF A, B
  <2>1. \A c, x : {A(w, c) : w \in {x}} = {B(w, c) : w \in {x}}
    BY <1>1
  <2>2. \A x : F(x) = G(x)
    BY <2>1
  <2> HIDE DEF F, G
  <2> QED
    BY <2>2, Zenon
<1>3. RunThrough(A, << >>, calls) = (CHOOSE x : x = F(x))[Len(calls)]
  BY Zenon DEF RunThrough
<1>4. Held(repl, phis, ir.code, calls, a) = (CHOOSE x : x = G(x))[Len(calls)]
  BY Zenon DEF Held, CallRuns!Run, CallRuns!RunThrough
<1> HIDE DEF F, G
<1> QED
  BY <1>2, <1>3, <1>4, Zenon
-----------------------------------------------------------------------------
(***************************************************************************)
(* The invariant of Mem2Reg's walk, which StacksFollowCalls is a part of:  *)
(* it needs that a block is entered once (renamed), that loads have one    *)
(* block each (Renamable) and that entering a block adds operands to phis, *)
(* and no phis.                                                            *)
(***************************************************************************)
Call == [bb : Blocks(ir), next : Nat]

Walking ==
  /\ calls \in Seq(Call) /\ renamed \subseteq Blocks(ir)
  /\ \A k \in 1 .. Len(calls) : calls[k].bb \in renamed

Stacks == \A a : StackOf(valStack, a) = Held(repl, phis, ir.code, calls, a)

RenInv ==
  /\ mpc # "idle" => /\ DOMAIN phis = Blocks(ir)
                     /\ \A b \in Blocks(ir) : IsFiniteSet(DOMAIN phis[b])
  /\ mpc \in {"idle", "phi"} => calls = << >> /\ renamed = {} /\ valStack = NoPhi
  /\ Walking /\ Stacks

\* Before rename has called itself, nothing is on a stack.
LEMMA NothingYet ==
  ASSUME calls = << >>, renamed = {}, valStack = NoPhi
  PROVE  Walking /\ Stacks
<1>1. \A a : StackOf(valStack, a) = << >>
  BY DEF StackOf, NoPhi
<1>2. Walking
  BY DEF Walking
<1> QED
  BY <1>1, <1>2, HeldNone DEF Stacks

\* The last call, with the others below it.
LEMMA LastCall ==
  ASSUME NEW S, NEW cs \in Seq(S), cs # << >>
  PROVE  /\ Front(cs) \in Seq(S) /\ Last(cs) \in S /\ cs = Append(Front(cs), Last(cs))
         /\ Len(Front(cs)) = Len(cs) - 1 /\ Len(cs) \in Nat /\ Len(cs) # 0
         /\ \A k \in 1 .. Len(Front(cs)) : Front(cs)[k] = cs[k]
<1>1. PICK n, w, x : n = Len(cs) /\ w = SubSeq(cs, 1, n - 1) /\ x = cs[n]
  OBVIOUS
<1>2. n \in Nat /\ n # 0 /\ n - 1 \in Nat /\ n - 1 <= n /\ n \in 1 .. n
  BY <1>1
<1>3. w \in Seq(S) /\ Len(w) = n - 1 /\ \A k \in 1 .. n - 1 : w[k] = cs[k]
  BY <1>1, <1>2
<1>4. x \in S
  BY <1>1, <1>2
<1>5. cs = Append(w, x)
  <2>1. PICK u : u = Append(w, x)
    OBVIOUS
  <2>2. u \in Seq(S) /\ Len(u) = n /\ u[n] = x /\ \A k \in 1 .. n - 1 : u[k] = cs[k]
    BY <1>2, <1>3, <1>4, <2>1
  <2>3. \A k \in 1 .. n : u[k] = cs[k]
    BY <1>1, <1>2, <2>2
  <2> QED
    BY <1>1, <2>1, <2>2, <2>3
<1> QED
  BY <1>1, <1>2, <1>3, <1>4, <1>5 DEF Front, Last

\* A call enters a block for the first time: the calls below it, whose next successor may
\* have moved on, have pushed what they had.
LEMMA EnterKeeps ==
  ASSUME Renamable(ir), Walking, Stacks, NEW b \in Blocks(ir), b \notin renamed,
         \A d \in Blocks(ir) : IsFiniteSet(DOMAIN phis[d]), DOMAIN phis = Blocks(ir),
         Enter(b), UNCHANGED ir,
         NEW cs, cs \in Seq(Call), Len(cs) = Len(calls),
         \A k \in 1 .. Len(cs) : cs[k].bb = calls[k].bb,
         calls' = Append(cs, [bb |-> b, next |-> 1])
  PROVE  /\ Walking' /\ Stacks' /\ DOMAIN phis' = Blocks(ir)
         /\ \A d \in Blocks(ir) : DOMAIN phis'[d] = DOMAIN phis[d]
<1>1. PICK done : done = Renaming(b)
  OBVIOUS
<1>2. /\ Extended(repl, done.repl, ir.code[b])
      /\ \A a : StackOf(done.stack, a) = BlockPush(done.repl, phis, ir.code, StackOf(valStack, a), b, a)
  BY <1>1, EnterPushes
<1>3. /\ valStack' = done.stack /\ repl' = done.repl /\ renamed' = renamed \cup {b}
      /\ phis' = [s \in Blocks(ir) |->
                    IF Contains(ir.succ[b], s)
                    THEN [a \in DOMAIN phis[s] |-> phis[s][a] \o Incoming(done.stack, b, a)]
                    ELSE phis[s]]
  BY <1>1 DEF Enter
<1>4. PICK ph, cs2, c : ph = phis' /\ cs2 = calls' /\ c = [bb |-> b, next |-> 1]
  OBVIOUS
<1>5. DOMAIN ph = Blocks(ir) /\ \A d \in Blocks(ir) : DOMAIN ph[d] = DOMAIN phis[d]
  <2>1. DOMAIN ph = Blocks(ir)
    BY <1>3, <1>4
  <2>2. ASSUME NEW d \in Blocks(ir) PROVE DOMAIN ph[d] = DOMAIN phis[d]
    <3>1. \/ ph[d] = phis[d]
          \/ ph[d] = [a \in DOMAIN phis[d] |-> phis[d][a] \o Incoming(done.stack, b, a)]
      BY <1>3, <1>4
    <3> QED
      BY <3>1
  <2> QED
    BY <2>1, <2>2
<1>6. /\ cs2 = Append(cs, c) /\ c \in Call /\ c.bb = b /\ Len(cs) \in Nat
      /\ \A k \in 1 .. Len(cs) : cs[k].bb \in renamed
  <2>1. c \in Call /\ c.bb = b
    BY <1>4 DEF Call
  <2>2. \A k \in 1 .. Len(cs) : cs[k].bb \in renamed
    BY DEF Walking
  <2> QED
    BY <1>4, <2>1, <2>2
<1>7. Walking'
  <2>1. Blocks(ir)' = Blocks(ir) /\ Call' = Call
    BY DEF Blocks, Call
  <2>2. /\ cs2 \in Seq(Call) /\ Len(cs2) = Len(cs) + 1 /\ cs2[Len(cs) + 1] = c
        /\ \A k \in 1 .. Len(cs) : cs2[k] = cs[k]
    BY <1>6
  <2>3. renamed' \subseteq Blocks(ir)
    BY <1>3 DEF Walking
  <2>4. ASSUME NEW k \in 1 .. Len(cs2) PROVE cs2[k].bb \in renamed'
    <3>1. CASE k \in 1 .. Len(cs)
      BY <1>3, <1>6, <2>2, <3>1
    <3>2. CASE k \notin 1 .. Len(cs)
      <4>1. k = Len(cs) + 1
        BY <1>6, <2>2, <3>2
      <4> QED
        BY <1>3, <1>6, <2>2, <4>1
    <3> QED
      BY <3>1, <3>2
  <2> QED
    BY <1>4, <2>1, <2>2, <2>3, <2>4 DEF Walking
<1>8. ASSUME NEW a PROVE StackOf(done.stack, a) = Held(done.repl, ph, ir.code, cs2, a)
  <2>1. PICK r, code, v : r = done.repl /\ code = ir.code /\ v = StackOf(valStack, a)
    OBVIOUS
  <2>2. v = Held(repl, phis, ir.code, calls, a)
    BY <2>1 DEF Stacks
  <2>3. Held(repl, phis, ir.code, calls, a) = Held(r, ph, ir.code, cs, a)
    <3>1. Extended(repl, r, ir.code[b]) /\ Len(calls) \in Nat
      BY <1>2, <1>6, <2>1
    <3>2. \A k \in 1 .. Len(calls) : calls[k].bb \in Blocks(ir) \ {b} /\ cs[k].bb = calls[k].bb
      BY <1>6 DEF Walking
    <3>3. PICK q, p, u : q = repl /\ p = phis /\ u = calls
      OBVIOUS
    <3>4. Entering(b, q, r, p, ph, u, cs)
      BY <1>5, <3>1, <3>2, <3>3 DEF Entering
    <3>5. Held(q, p, ir.code, u, a) = Held(r, ph, ir.code, cs, a)
      BY <3>4, HeldSame
    <3> QED
      BY <3>3, <3>5
  <2>4. Held(r, ph, code, Append(cs, c), a) = BlockPush(r, ph, code, Held(r, ph, code, cs, a), c.bb, a)
    BY <1>6, HeldAppend
  <2>5. BlockPush(r, phis, code, v, b, a) = BlockPush(r, ph, code, v, b, a)
    <3>1. PhiPush(phis, v, b, a) = PhiPush(ph, v, b, a)
      BY <1>5 DEF PhiPush
    <3> QED
      BY <3>1 DEF BlockPush
  <2> QED
    BY <1>2, <1>6, <2>1, <2>2, <2>3, <2>4, <2>5
<1>9. Stacks'
  BY <1>3, <1>4, <1>8 DEF Stacks, StackOf
<1> QED
  BY <1>4, <1>5, <1>7, <1>9

\* A call that returns takes off what it had pushed, and no pop finds nothing to take.
LEMMA LeavePops ==
  ASSUME Renamable(ir), Walking, Stacks, calls # << >>,
         \A d \in Blocks(ir) : IsFiniteSet(DOMAIN phis[d]),
         NEW b, b = Last(calls).bb, NEW popped, popped = Popping(b)
  PROVE  /\ \A a : StackOf(popped.stack, a) = Held(repl, phis, ir.code, Front(calls), a)
         /\ popped.fault = fault /\ b \in Blocks(ir)
<1>1. PICK cs, c : cs = Front(calls) /\ c = Last(calls)
  OBVIOUS
<1>2. /\ cs \in Seq(Call) /\ c \in Call /\ calls = Append(cs, c) /\ Len(cs) \in Nat
      /\ \A k \in 1 .. Len(cs) : cs[k].bb \in Blocks(ir)
      /\ b \in Blocks(ir) /\ b = c.bb
  <2>1. cs \in Seq(Call) /\ c \in Call /\ calls = Append(cs, c)
    BY <1>1, LastCall DEF Walking
  <2>2. \A d \in Call : d.bb \in Blocks(ir)
    BY DEF Call
  <2> QED
    BY <1>1, <2>1, <2>2
<1>3. PICK code, start : code = ir.code[b] /\ start = [stack |-> valStack, fault |-> fault]
  OBVIOUS
<1>4. IsSeq(code) /\ Len(code) \in Nat
  BY <1>2, <1>3, CodeIs
<1>5. PICK g : g = PhiPops!Run(0, start, SetToSeq(DOMAIN phis[b]))
  OBVIOUS
<1>6. popped = StorePops!Run(0, g, code)
  BY <1>3, <1>5, PoppingIs
<1> DEFINE H(a) == Held(repl, phis, ir.code, cs, a)
           W(a) == StackOf(valStack, a)
           Base(a) == PhiPush(phis, H(a), b, a)
<1>7. ASSUME NEW a
      PROVE  /\ Starts(H(a), Base(a)) /\ Len(Base(a)) = Len(H(a)) + (IF a \in DOMAIN phis[b] THEN 1 ELSE 0)
             /\ Starts(Base(a), W(a)) /\ Len(W(a)) = Len(Base(a)) + StoresTo(a, code, Len(code))
             /\ Len(H(a)) \in Nat /\ IsSeq(W(a))
             /\ \A k \in 0 .. Len(code) : /\ StoresTo(a, code, k) \in Nat
                                          /\ StoresTo(a, code, k) <= StoresTo(a, code, Len(code))
  <2>1. PICK h, r, ph : h = H(a) /\ r = repl /\ ph = phis
    OBVIOUS
  <2>2. IsSeq(h)
    <3>1. IsSeq(Held(r, ph, ir.code, cs, a))
      BY <1>2, HeldIsSeq
    <3> QED
      BY <2>1, <3>1
  <2>3. Held(r, ph, ir.code, Append(cs, c), a) = BlockPush(r, ph, ir.code, Held(r, ph, ir.code, cs, a), c.bb, a)
    <3>1. PICK f : f = ir.code
      OBVIOUS
    <3>2. Held(r, ph, f, Append(cs, c), a) = BlockPush(r, ph, f, Held(r, ph, f, cs, a), c.bb, a)
      BY <1>2, HeldAppend
    <3> QED
      BY <3>1, <3>2
  <2>4. W(a) = BlockPush(r, ph, ir.code, h, b, a)
    BY <1>2, <2>1, <2>3 DEF Stacks
  <2>5. PICK w, base : w = W(a) /\ base = PhiPush(ph, h, b, a)
    OBVIOUS
  <2>6. base = Base(a) /\ w = BlockPush(r, ph, ir.code, h, b, a)
    BY <2>1, <2>4, <2>5
  <2> HIDE DEF H, W, Base
  <2>7. /\ Starts(h, base) /\ Len(base) = Len(h) + (IF a \in DOMAIN ph[b] THEN 1 ELSE 0)
        /\ Starts(base, w) /\ Len(w) = Len(base) + StoresTo(a, code, Len(code))
        /\ Len(h) \in Nat /\ IsSeq(w)
        /\ \A k \in 0 .. Len(code) : /\ StoresTo(a, code, k) \in Nat
                                     /\ StoresTo(a, code, k) <= StoresTo(a, code, Len(code))
    BY <1>2, <1>3, <2>2, <2>5, <2>6, BlockPushIs
  <2> QED
    BY <2>1, <2>5, <2>6, <2>7
<1>8. \A a : StackOf(start.stack, a) = W(a)
  BY <1>3
<1> HIDE DEF H, W, Base
<1>9. ASSUME NEW a
      PROVE  /\ Len(Base(a)) \in Nat /\ Len(W(a)) \in Nat
             /\ a \in DOMAIN phis[b] => W(a) # << >> /\ Len(W(a)) # 0
  <2>1. PICK h, w, base, c1 : h = H(a) /\ w = W(a) /\ base = Base(a) /\ c1 = StoresTo(a, code, Len(code))
    OBVIOUS
  <2>2. Len(code) \in 0 .. Len(code)
    BY <1>4
  <2>3. c1 \in Nat /\ Len(h) \in Nat /\ Len(w) = Len(base) + c1
        /\ Len(base) = Len(h) + (IF a \in DOMAIN phis[b] THEN 1 ELSE 0)
    BY <1>7, <2>1, <2>2
  <2>4. /\ Len(base) \in Nat /\ Len(w) \in Nat
        /\ a \in DOMAIN phis[b] => Len(w) # 0
    BY <2>3
  <2> QED
    BY <2>1, <2>4
<1>10. /\ g = [stack |-> g.stack, fault |-> fault]
       /\ \A a : StackOf(g.stack, a) = IF a \in DOMAIN phis[b] THEN Front(W(a)) ELSE W(a)
  <2>1. start = [stack |-> start.stack, fault |-> start.fault] /\ start.fault = fault
    BY <1>3
  <2>2. PICK D : D = DOMAIN phis[b]
    OBVIOUS
  <2>3. IsFiniteSet(D) /\ \A a \in D : StackOf(start.stack, a) # << >>
    BY <1>2, <1>8, <1>9, <2>2
  <2>4. /\ g = [stack |-> g.stack, fault |-> start.fault]
        /\ \A a : StackOf(g.stack, a) = IF a \in D THEN Front(StackOf(start.stack, a))
                                        ELSE StackOf(start.stack, a)
    BY <1>5, <2>1, <2>2, <2>3, PhisPop
  <2> QED
    BY <1>8, <2>1, <2>2, <2>4
<1>11. ASSUME NEW a
       PROVE  /\ Starts(StackOf(g.stack, a), W(a)) /\ Len(StackOf(g.stack, a)) \in Nat
              /\ Len(StackOf(g.stack, a)) = Len(H(a)) + StoresTo(a, code, Len(code))
  <2>1. PICK h, w, base, u, m : /\ h = H(a) /\ w = W(a) /\ base = Base(a) /\ u = StackOf(g.stack, a)
                                /\ m = StoresTo(a, code, Len(code))
    OBVIOUS
  <2>2. m \in Nat
    <3>1. Len(code) \in 0 .. Len(code)
      BY <1>4
    <3> QED
      BY <1>7, <2>1, <3>1
  <2>3. /\ Len(h) \in Nat /\ Len(w) = Len(base) + m /\ IsSeq(w) /\ Len(w) \in Nat
        /\ Len(base) = Len(h) + (IF a \in DOMAIN phis[b] THEN 1 ELSE 0)
    BY <1>7, <1>9, <2>1
  <2>4. Starts(w, w)
    BY <2>3 DEF Starts
  <2>5. CASE a \in DOMAIN phis[b]
    <3>1. u = Front(w) /\ w # << >>
      BY <1>9, <1>10, <2>1, <2>5
    <3>2. Starts(u, w) /\ Len(u) = Len(w) - 1
      BY <2>4, <3>1, StartsFront
    <3> QED
      BY <2>1, <2>2, <2>3, <2>5, <3>2
  <2>6. CASE a \notin DOMAIN phis[b]
    <3>1. u = w
      BY <1>10, <2>1, <2>6
    <3> QED
      BY <2>1, <2>2, <2>3, <2>4, <2>6, <3>1
  <2> QED
    BY <2>5, <2>6
<1>12. /\ popped = [stack |-> popped.stack, fault |-> fault]
       /\ \A a : /\ Starts(StackOf(popped.stack, a), StackOf(g.stack, a))
                 /\ Len(StackOf(popped.stack, a)) = Len(StackOf(g.stack, a)) - StoresTo(a, code, Len(code))
  <2>1. PICK fl : fl = fault
    OBVIOUS
  <2>2. g.fault = fl /\ g = [stack |-> g.stack, fault |-> g.fault]
    <3>1. PICK st : g = [stack |-> st, fault |-> fl]
      BY <1>10, <2>1
    <3> QED
      BY <3>1
  <2>3. ASSUME NEW a
        PROVE  /\ IsSeq(StackOf(g.stack, a)) /\ Len(StackOf(g.stack, a)) \in Nat
               /\ \A k \in 0 .. Len(code) : /\ StoresTo(a, code, k) \in Nat
                                            /\ StoresTo(a, code, k) <= Len(StackOf(g.stack, a))
    <3>1. PICK u, m, h : u = StackOf(g.stack, a) /\ m = StoresTo(a, code, Len(code)) /\ h = Len(H(a))
      OBVIOUS
    <3>2. /\ IsSeq(u) /\ Len(u) = h + m /\ h \in Nat /\ Len(u) \in Nat
          /\ \A k \in 0 .. Len(code) : StoresTo(a, code, k) \in Nat /\ StoresTo(a, code, k) <= m
      BY <1>7, <1>11, <3>1 DEF Starts
    <3>3. m \in Nat
      BY <1>4, <3>1, <3>2
    <3>4. \A k \in 0 .. Len(code) : StoresTo(a, code, k) <= h + m
      BY <3>2, <3>3
    <3> QED
      BY <3>1, <3>2, <3>4
  <2>4. /\ popped = [stack |-> popped.stack, fault |-> g.fault]
        /\ \A a : /\ Starts(StackOf(popped.stack, a), StackOf(g.stack, a))
                  /\ Len(StackOf(popped.stack, a)) = Len(StackOf(g.stack, a)) - StoresTo(a, code, Len(code))
    BY <1>4, <1>6, <2>2, <2>3, StoresPop
  <2> QED
    BY <2>1, <2>2, <2>4
<1>13. ASSUME NEW a PROVE StackOf(popped.stack, a) = H(a)
  <2>1. PICK h, w, base, u, m, x : /\ h = H(a) /\ w = W(a) /\ base = Base(a) /\ u = StackOf(g.stack, a)
                                   /\ m = StoresTo(a, code, Len(code)) /\ x = StackOf(popped.stack, a)
    OBVIOUS
  <2>2. Starts(x, u) /\ Starts(u, w) /\ Starts(h, base) /\ Starts(base, w)
    BY <1>7, <1>11, <1>12, <2>1
  <2>3. Starts(x, w) /\ Starts(h, w)
    BY <2>2, StartsTwice
  <2>4. m \in Nat
    <3>1. Len(code) \in 0 .. Len(code)
      BY <1>4
    <3> QED
      BY <1>7, <2>1, <3>1
  <2>5. Len(x) = Len(u) - m /\ Len(u) = Len(h) + m /\ Len(h) \in Nat
    BY <1>7, <1>11, <1>12, <2>1
  <2>6. Len(x) = Len(h)
    BY <2>4, <2>5
  <2> QED
    BY <2>1, <2>3, <2>6, StartsSame
<1>14. popped.fault = fault
  <2>1. PICK st, fl : popped = [stack |-> st, fault |-> fl] /\ fl = fault
    BY <1>12
  <2> QED
    BY <2>1
<1> QED
  BY <1>1, <1>2, <1>13, <1>14 DEF H
\* It holds before the first visit.
LEMMA RenInit == Idle => RenInv
<1> SUFFICES ASSUME Idle PROVE RenInv
  OBVIOUS
<1>1. mpc = "idle" /\ calls = << >> /\ renamed = {} /\ valStack = NoPhi
  BY DEF Idle
<1> QED
  BY <1>1, NothingYet DEF RenInv

\* A step that leaves the walk as it is.
LEMMA RenSame ==
  ASSUME RenInv, UNCHANGED <<ir, mpc, phis, valStack, renamed, calls, repl>>
  PROVE  RenInv'
<1>1. (mpc # "idle" => /\ DOMAIN phis = Blocks(ir)
                       /\ \A b \in Blocks(ir) : IsFiniteSet(DOMAIN phis[b]))'
  BY DEF RenInv, Blocks
<1>2. (mpc \in {"idle", "phi"} => calls = << >> /\ renamed = {} /\ valStack = NoPhi)'
  BY DEF RenInv, NoPhi
<1>3. Walking'
  BY DEF RenInv, Walking, Call, Blocks
<1>4. Stacks'
  BY DEF RenInv, Stacks, StackOf
<1> QED
  BY <1>1, <1>2, <1>3, <1>4 DEF RenInv

\* A step before rename has called itself.
LEMMA RenEarly ==
  ASSUME calls' = << >>, renamed' = {}, valStack' = NoPhi,
         mpc' # "idle" => /\ DOMAIN phis' = Blocks(ir')
                          /\ \A b \in Blocks(ir') : IsFiniteSet(DOMAIN phis'[b])
  PROVE  RenInv'
<1>1. (calls = << >> /\ renamed = {} /\ valStack = NoPhi => Walking /\ Stacks)'
  BY NothingYet, PTL
<1>2. valStack' = NoPhi'
  BY DEF NoPhi
<1>3. Walking' /\ Stacks'
  BY <1>1, <1>2
<1> QED
  BY <1>2, <1>3 DEF RenInv, Blocks

\* The steps of generate_phi.
LEMMA GeneratePhiKeeps ==
  ASSUME RenInv, Begin \/ NextCandidate \/ (\E b \in pending : PlacePhis(b)) \/ PhisDone
  PROVE  RenInv'
<1>1. CASE Begin
  <2>1. calls' = << >> /\ renamed' = {} /\ valStack' = NoPhi /\ ir' = ir
    BY <1>1 DEF Begin, RenInv
  <2>2. phis' = [b \in Blocks(ir) |-> NoPhi]
    BY <1>1 DEF Begin
  <2>3. IsFiniteSet({}) /\ DOMAIN NoPhi = {}
    BY FS_EmptySet DEF NoPhi
  <2>4. DOMAIN phis' = Blocks(ir') /\ \A b \in Blocks(ir') : IsFiniteSet(DOMAIN phis'[b])
    BY <2>1, <2>2, <2>3
  <2> QED
    BY <2>1, <2>4, RenEarly
<1>2. CASE NextCandidate
  BY <1>2, RenSame DEF NextCandidate
<1>3. CASE \E b \in pending : PlacePhis(b)
  <2>1. PICK b \in pending : PlacePhis(b)
    BY <1>3
  <2>2. /\ calls' = << >> /\ renamed' = {} /\ valStack' = NoPhi /\ ir' = ir
        /\ \A d \in Blocks(ir) : IsFiniteSet(DOMAIN phis[d])
    BY <2>1 DEF PlacePhis, RenInv
  <2>3. PICK new : phis' = [d \in Blocks(ir) |-> IF d \in new THEN Added(phis[d], cand, << >>)
                                                 ELSE phis[d]]
    BY <2>1 DEF PlacePhis
  <2>4. ASSUME NEW d \in Blocks(ir) PROVE IsFiniteSet(DOMAIN phis'[d])
    <3>1. DOMAIN Added(phis[d], cand, << >>) = DOMAIN phis[d] \cup {cand}
      BY DEF Added
    <3>2. DOMAIN phis'[d] = DOMAIN phis[d] \/ DOMAIN phis'[d] = DOMAIN phis[d] \cup {cand}
      BY <2>3, <3>1
    <3>3. IsFiniteSet(DOMAIN phis[d] \cup {cand})
      BY <2>2, FS_AddElement
    <3> QED
      BY <2>2, <3>2, <3>3
  <2>5. DOMAIN phis' = Blocks(ir)
    BY <2>3
  <2> QED
    BY <2>2, <2>4, <2>5, RenEarly
<1>4. CASE PhisDone
  <2>1. calls' = << >> /\ renamed' = {} /\ valStack' = NoPhi /\ ir' = ir /\ phis' = phis
    BY <1>4 DEF PhisDone, RenInv
  <2>2. DOMAIN phis = Blocks(ir) /\ \A b \in Blocks(ir) : IsFiniteSet(DOMAIN phis[b])
    BY <1>4 DEF PhisDone, RenInv
  <2>3. DOMAIN phis' = Blocks(ir') /\ \A b \in Blocks(ir') : IsFiniteSet(DOMAIN phis'[b])
    BY <2>1, <2>2
  <2> QED
    BY <2>1, <2>3, RenEarly
<1> QED
  BY <1>1, <1>2, <1>3, <1>4

\* What EnterKeeps says of a call, for RenInv.
LEMMA EnterRenKeeps ==
  ASSUME Renamable(ir), RenInv, mpc = "rename", UNCHANGED <<ir, mpc>>,
         NEW b \in Blocks(ir), b \notin renamed, Enter(b),
         NEW cs, cs \in Seq(Call), Len(cs) = Len(calls),
         \A k \in 1 .. Len(cs) : cs[k].bb = calls[k].bb,
         calls' = Append(cs, [bb |-> b, next |-> 1])
  PROVE  RenInv'
<1>1. /\ DOMAIN phis = Blocks(ir) /\ \A d \in Blocks(ir) : IsFiniteSet(DOMAIN phis[d])
      /\ Walking /\ Stacks
  BY DEF RenInv
<1>2. /\ Walking' /\ Stacks' /\ DOMAIN phis' = Blocks(ir)
      /\ \A d \in Blocks(ir) : DOMAIN phis'[d] = DOMAIN phis[d]
  BY <1>1, EnterKeeps
<1>3. mpc' = "rename"
  OBVIOUS
<1>4. DOMAIN phis' = Blocks(ir') /\ \A d \in Blocks(ir') : IsFiniteSet(DOMAIN phis'[d])
  BY <1>1, <1>2
<1> QED
  BY <1>2, <1>3, <1>4 DEF RenInv, Blocks

\* The first call of rename.
LEMMA RenameEntryKeeps ==
  ASSUME Renamable(ir), RenInv, RenameEntry
  PROVE  RenInv'
<1>1. /\ mpc = "rename" /\ calls = << >> /\ renamed = {} /\ Enter(Entry)
      /\ calls' = <<[bb |-> Entry, next |-> 1]>> /\ ir' = ir /\ mpc' = mpc
  BY DEF RenameEntry
<1>2. PICK cs, c : cs = << >> /\ c = [bb |-> Entry, next |-> 1]
  OBVIOUS
<1>3. cs \in Seq(Call) /\ Len(cs) = Len(calls) /\ \A k \in 1 .. Len(cs) : cs[k].bb = calls[k].bb
  BY <1>1, <1>2
<1>4. calls' = Append(cs, c)
  BY <1>1, <1>2
<1>5. Entry \in Blocks(ir) /\ Entry \notin renamed
  BY <1>1 DEF Renamable
<1> QED
  BY <1>1, <1>2, <1>3, <1>4, <1>5, EnterRenKeeps

\* The call for the next successor that was not entered yet.
LEMMA DescendKeeps ==
  ASSUME Renamable(ir), RenInv, Descend
  PROVE  RenInv'
<1>1. mpc = "rename" /\ calls # << >> /\ ir' = ir /\ mpc' = mpc
  BY DEF Descend
<1>2. PICK last, n : last = Last(calls) /\ n = Len(calls)
  OBVIOUS
<1>3. PICK k \in Unvisited(last) :
        /\ Enter(ir.succ[last.bb][k])
        /\ calls' = Append([calls EXCEPT ![n].next = k + 1], [bb |-> ir.succ[last.bb][k], next |-> 1])
  BY <1>2 DEF Descend
<1>4. calls \in Seq(Call) /\ last \in Call /\ n \in Nat /\ n # 0 /\ n \in 1 .. n /\ last = calls[n]
  <2>1. calls \in Seq(Call)
    BY DEF RenInv, Walking
  <2> QED
    BY <1>1, <1>2, <2>1, LastCall DEF Last
<1>5. PICK b : b = ir.succ[last.bb][k]
  OBVIOUS
<1>6. b \in Blocks(ir) /\ b \notin renamed /\ k \in Nat
  <2>1. last.bb \in Blocks(ir)
    BY <1>4 DEF Call
  <2>2. k \in DOMAIN ir.succ[last.bb] /\ b \notin renamed
    BY <1>5 DEF Unvisited
  <2>3. ir.succ[last.bb] \in Seq(Blocks(ir))
    BY <2>1 DEF Renamable
  <2> QED
    BY <1>5, <2>2, <2>3
<1>7. PICK cs : cs = [calls EXCEPT ![n].next = k + 1]
  OBVIOUS
<1>8. cs \in Seq(Call) /\ Len(cs) = n /\ \A j \in 1 .. Len(cs) : cs[j].bb = calls[j].bb
  <2>1. PICK x : x = [last EXCEPT !.next = k + 1]
    OBVIOUS
  <2>2. x \in Call /\ x.bb = last.bb
    BY <1>4, <1>6, <2>1 DEF Call
  <2>3. cs = [calls EXCEPT ![n] = x]
    BY <1>4, <1>7, <2>1
  <2>4. cs \in Seq(Call) /\ Len(cs) = n
    BY <1>2, <1>4, <2>2, <2>3
  <2>5. \A j \in 1 .. n : cs[j] = IF j = n THEN x ELSE calls[j]
    BY <1>2, <1>4, <2>3
  <2> QED
    BY <1>4, <2>2, <2>4, <2>5
<1>9. Enter(b) /\ calls' = Append(cs, [bb |-> b, next |-> 1])
  BY <1>3, <1>5, <1>7
<1> QED
  BY <1>1, <1>2, <1>6, <1>8, <1>9, EnterRenKeeps

\* The return of a call.
LEMMA LeaveKeeps ==
  ASSUME Renamable(ir), RenInv, Leave
  PROVE  RenInv' /\ fault' = fault
<1>1. /\ mpc = "rename" /\ calls # << >> /\ calls' = Front(calls) /\ mpc' \in {"rename", "done"}
      /\ UNCHANGED <<ir, phis, renamed, repl>>
  BY DEF Leave
<1>2. PICK b, popped : b = Last(calls).bb /\ popped = Popping(b)
  OBVIOUS
<1>3. valStack' = popped.stack /\ fault' = popped.fault
  BY <1>2 DEF Leave
<1>4. /\ DOMAIN phis = Blocks(ir) /\ \A d \in Blocks(ir) : IsFiniteSet(DOMAIN phis[d])
      /\ Walking /\ Stacks
  BY <1>1 DEF RenInv
<1>5. PICK cs : cs = Front(calls)
  OBVIOUS
<1>6. /\ \A a : StackOf(popped.stack, a) = Held(repl, phis, ir.code, cs, a)
      /\ popped.fault = fault
  BY <1>1, <1>2, <1>4, <1>5, LeavePops
<1>7. cs \in Seq(Call) /\ \A k \in 1 .. Len(cs) : cs[k].bb \in renamed
  <2>1. /\ cs \in Seq(Call) /\ Len(cs) = Len(calls) - 1 /\ Len(calls) \in Nat
        /\ \A k \in 1 .. Len(cs) : cs[k] = calls[k]
    BY <1>1, <1>4, <1>5, LastCall DEF Walking
  <2>2. \A k \in 1 .. Len(cs) : k \in 1 .. Len(calls)
    BY <2>1
  <2> QED
    BY <1>4, <2>1, <2>2 DEF Walking
<1>8. Walking'
  BY <1>1, <1>4, <1>5, <1>7 DEF Walking, Call, Blocks
<1>9. Stacks'
  BY <1>1, <1>3, <1>5, <1>6 DEF Stacks, StackOf
<1>10. DOMAIN phis' = Blocks(ir') /\ \A d \in Blocks(ir') : IsFiniteSet(DOMAIN phis'[d])
  BY <1>1, <1>4
<1>11. RenInv'
  BY <1>1, <1>8, <1>9, <1>10 DEF RenInv, Blocks
<1> QED
  BY <1>3, <1>6, <1>11

\* Every step of Mem2Reg keeps the invariant.
LEMMA PromoteKeeps ==
  ASSUME Renamable(ir), RenInv, Promote
  PROVE  RenInv'
BY GeneratePhiKeeps, RenameEntryKeeps, DescendKeeps, LeaveKeeps DEF Promote

\* What it says of the stacks while rename runs and when it is done.
LEMMA StacksFollow ==
  ASSUME RenInv
  PROVE  StacksFollowCalls
<1> SUFFICES ASSUME RenInv, NEW a \in DOMAIN valStack
             PROVE  LET call(values, c) == Pushed(values, c.bb, a)
                    IN  valStack[a] = RunThrough(call, << >>, calls)
  BY DEF StacksFollowCalls
<1>1. valStack[a] = Held(repl, phis, ir.code, calls, a)
  BY DEF RenInv, Stacks, StackOf
<1> QED
  BY <1>1, HeldIs

-----------------------------------------------------------------------------
(***************************************************************************)
(* No load finds an empty stack, when each is Fed: something is on its     *)
(* stack when the block is entered, or is stored before it in the block.   *)
(* Then rename replaces every load, and by values that no load has.        *)
(***************************************************************************)
\* no value on a stack, and none that replaced a load, is that of a load
Clean(values) == IsSeq(values) /\ \A k \in 1 .. Len(values) : values[k][1] # "load"

CleanStacks(st) == \A a : Clean(StackOf(st, a))

CleanRepl(r) == \A m \in DOMAIN r : r[m][1] # "load"

Fed(code, st) ==
  \A k \in DOMAIN code : code[k].op = "load" =>
    \/ StackOf(st, code[k].var) # << >>
    \/ \E j \in DOMAIN code : j < k /\ IsStore(code[j], code[k].var)

\* an instruction took acc to g, and no assertion failed
Went(acc, i, g) ==
  /\ IsAcc(g) /\ g.fault = acc.fault /\ CleanStacks(g.stack) /\ CleanRepl(g.repl)
  /\ DOMAIN acc.repl \subseteq DOMAIN g.repl /\ (i.op = "load" => i.id \in DOMAIN g.repl)
  /\ \A a : StackOf(acc.stack, a) # << >> \/ IsStore(i, a) => StackOf(g.stack, a) # << >>

\* A value more.
LEMMA CleanAppend ==
  ASSUME NEW s, Clean(s), NEW v, v[1] # "load", NEW w, w = Append(s, v)
  PROVE  Clean(w) /\ w # << >>
<1>1. PICK S : s \in Seq(S)
  BY DEF Clean, IsSeq
<1>2. s \in Seq(S \cup {v})
  BY <1>1
<1>3. w \in Seq(S \cup {v}) /\ Len(w) = Len(s) + 1 /\ Len(s) \in Nat /\ w[Len(s) + 1] = v
  BY <1>2
<1>4. \A k \in 1 .. Len(s) : w[k] = s[k]
  BY <1>2
<1>5. ASSUME NEW k \in 1 .. Len(w) PROVE w[k][1] # "load"
  <2>1. k \in 1 .. Len(s) \/ k = Len(s) + 1
    BY <1>3
  <2> QED
    BY <1>3, <1>4, <2>1 DEF Clean
<1>6. w # << >>
  BY <1>3
<1> QED
  BY <1>3, <1>5, <1>6 DEF Clean, IsSeq

\* A value more on a stack.
LEMMA CleanPush ==
  ASSUME NEW st, CleanStacks(st), NEW a, NEW v, v[1] # "load"
  PROVE  /\ CleanStacks(PushOn(st, a, v))
         /\ StackOf(PushOn(st, a, v), a) # << >>
         /\ \A x : StackOf(st, x) # << >> => StackOf(PushOn(st, a, v), x) # << >>
<1>1. PICK g, s, w : g = PushOn(st, a, v) /\ s = StackOf(st, a) /\ w = Append(s, v)
  OBVIOUS
<1>2. \A x : StackOf(g, x) = IF x = a THEN w ELSE StackOf(st, x)
  BY <1>1, PushOnIs
<1>3. Clean(w) /\ w # << >>
  BY <1>1, CleanAppend DEF CleanStacks
<1> QED
  BY <1>1, <1>2, <1>3 DEF CleanStacks

\* One instruction.
LEMMA InstrGoes ==
  ASSUME NEW acc, IsAcc(acc), CleanStacks(acc.stack), CleanRepl(acc.repl), NEW i,
         i.op = "load" => StackOf(acc.stack, i.var) # << >>,
         i.op = "store" /\ i.val[1] = "load" => i.val[2] \in DOMAIN acc.repl,
         NEW g, g = RenameInstr(acc, i)
  PROVE  Went(acc, i, g)
<1>1. CASE i.op = "load"
  <2>1. g = ReplaceLoad(acc, i)
    BY <1>1 DEF RenameInstr
  <2>2. PICK a, s, x : a = i.var /\ s = StackOf(acc.stack, a) /\ x = Last(s)
    OBVIOUS
  <2>3. a \in DOMAIN acc.stack /\ s = acc.stack[a] /\ s # << >>
    BY <1>1, <2>2 DEF StackOf
  <2>4. g = [acc EXCEPT !.repl = Added(@, i.id, x)]
    BY <2>1, <2>2, <2>3 DEF ReplaceLoad
  <2>5. IsAcc(g) /\ g.repl = Added(acc.repl, i.id, x) /\ g.stack = acc.stack /\ g.fault = acc.fault
    BY <2>4 DEF IsAcc
  <2>6. x[1] # "load"
    <3>1. Clean(s)
      BY <2>2 DEF CleanStacks
    <3>2. PICK S : s \in Seq(S)
      BY <3>1 DEF Clean, IsSeq
    <3>3. Len(s) \in 1 .. Len(s) /\ x = s[Len(s)]
      BY <2>2, <2>3, <3>2 DEF Last
    <3> QED
      BY <3>1, <3>3 DEF Clean
  <2>7. /\ DOMAIN g.repl = DOMAIN acc.repl \cup {i.id}
        /\ \A m \in DOMAIN g.repl : g.repl[m] = IF m \in DOMAIN acc.repl THEN acc.repl[m] ELSE x
    BY <2>5 DEF Added
  <2>8. CleanRepl(g.repl)
    BY <2>6, <2>7 DEF CleanRepl
  <2>9. \A b : ~IsStore(i, b)
    BY <1>1 DEF IsStore
  <2> QED
    BY <2>5, <2>7, <2>8, <2>9 DEF Went
<1>2. CASE i.op = "store"
  <2>1. PICK st, a, v : st = acc.stack /\ a = i.var /\ v = Current(acc.repl, i.val)
    OBVIOUS
  <2>2. g = [acc EXCEPT !.stack = PushOn(@, a, v)]
    BY <1>2, <2>1 DEF RenameInstr, RecordStore
  <2>3. IsAcc(g) /\ g.repl = acc.repl /\ g.stack = PushOn(st, a, v) /\ g.fault = acc.fault
    BY <2>1, <2>2 DEF IsAcc
  <2>4. v[1] # "load"
    BY <1>2, <2>1 DEF Current, CleanRepl
  <2>5. /\ CleanStacks(g.stack) /\ StackOf(g.stack, a) # << >>
        /\ \A x : StackOf(st, x) # << >> => StackOf(g.stack, x) # << >>
    BY <2>1, <2>3, <2>4, CleanPush
  <2>6. \A x : IsStore(i, x) => x = a
    BY <2>1 DEF IsStore
  <2> QED
    BY <1>2, <2>1, <2>3, <2>5, <2>6 DEF Went
<1>3. CASE i.op # "load" /\ i.op # "store"
  <2>1. g = acc
    BY <1>3 DEF RenameInstr
  <2> QED
    BY <1>3, <2>1 DEF Went, IsStore
<1> QED
  BY <1>1, <1>2, <1>3

\* The instructions of a block: hyp is what the block starts with, and its code.
FedKnown(hyp, n, acc) ==
  /\ IsAcc(acc) /\ acc.fault = hyp[1].fault /\ CleanStacks(acc.stack) /\ CleanRepl(acc.repl)
  /\ DOMAIN hyp[1].repl \subseteq DOMAIN acc.repl
  /\ \A k \in 1 .. n : hyp[2][k].op = "load" => hyp[2][k].id \in DOMAIN acc.repl
  /\ \A a : StackOf(hyp[1].stack, a) # << >> \/ (\E k \in 1 .. n : IsStore(hyp[2][k], a))
              => StackOf(acc.stack, a) # << >>

FedRuns == INSTANCE IterateProofs WITH step <- RenameStep, known <- FedKnown

LEMMA FedRenaming ==
  ASSUME NEW code, IsSeq(code), OwnLoads(code), NEW start, IsAcc(start), Fed(code, start.stack),
         CleanStacks(start.stack), CleanRepl(start.repl),
         NEW acc, acc = Renames!Run(0, start, code)
  PROVE  /\ acc.fault = start.fault /\ CleanStacks(acc.stack) /\ CleanRepl(acc.repl)
         /\ DOMAIN start.repl \subseteq DOMAIN acc.repl
         /\ \A k \in DOMAIN code : code[k].op = "load" => code[k].id \in DOMAIN acc.repl
<1>1. PICK hyp : start = hyp[1] /\ code = hyp[2]
  <2>1. start = <<start, code>>[1] /\ code = <<start, code>>[2]
    OBVIOUS
  <2> QED
    BY <2>1
<1>2. acc = FedRuns!Run(0, start, code)
  BY DEF Renames!Run, FedRuns!Run, Renames!RunThrough, FedRuns!RunThrough
<1>3. Len(code) \in Nat /\ DOMAIN code = 1 .. Len(code)
  BY DEF IsSeq
<1>4. FedKnown(hyp, 0, start)
  <2>1. 1 .. 0 = {}
    OBVIOUS
  <2> QED
    BY <1>1, <2>1 DEF FedKnown
<1>5. ASSUME NEW n \in 1 .. Len(code), NEW x, FedKnown(hyp, n - 1, x)
      PROVE  FedKnown(hyp, n, RenameStep(0, x, code[n]))
  <2>1. PICK i, g : i = code[n] /\ g = RenameInstr(x, i)
    OBVIOUS
  <2>2. /\ IsAcc(x) /\ x.fault = start.fault /\ CleanStacks(x.stack) /\ CleanRepl(x.repl)
        /\ DOMAIN start.repl \subseteq DOMAIN x.repl
        /\ \A k \in 1 .. n - 1 : code[k].op = "load" => code[k].id \in DOMAIN x.repl
        /\ \A a : StackOf(start.stack, a) # << >> \/ (\E k \in 1 .. n - 1 : IsStore(code[k], a))
                    => StackOf(x.stack, a) # << >>
    BY <1>1, <1>5 DEF FedKnown
  <2>3. \A j \in DOMAIN code : j < n => j \in 1 .. n - 1
    BY <1>3
  <2>4. i.op = "load" => StackOf(x.stack, i.var) # << >>
    <3>1. n \in DOMAIN code
      BY <1>3
    <3>2. i.op = "load" => \/ StackOf(start.stack, i.var) # << >>
                           \/ \E j \in DOMAIN code : j < n /\ IsStore(code[j], i.var)
      BY <2>1, <3>1 DEF Fed
    <3> QED
      BY <2>2, <2>3, <3>2
  <2>5. i.op = "store" /\ i.val[1] = "load" => i.val[2] \in DOMAIN x.repl
    <3>1. i.op = "store" => Follows(code, n, i.val)
      BY <1>3, <2>1 DEF OwnLoads
    <3>2. i.op = "store" /\ i.val[1] = "load" =>
            \E j \in DOMAIN code : j < n /\ code[j].op = "load" /\ code[j].id = i.val[2]
      BY <3>1 DEF Follows
    <3> QED
      BY <2>2, <2>3, <3>2
  <2>6. Went(x, i, g)
    BY <2>1, <2>2, <2>4, <2>5, InstrGoes
  <2>7. \A k \in 1 .. n : k \in 1 .. n - 1 \/ k = n
    OBVIOUS
  <2>8. /\ IsAcc(g) /\ g.fault = start.fault /\ CleanStacks(g.stack) /\ CleanRepl(g.repl)
        /\ DOMAIN start.repl \subseteq DOMAIN g.repl
        /\ DOMAIN x.repl \subseteq DOMAIN g.repl /\ (i.op = "load" => i.id \in DOMAIN g.repl)
    BY <2>2, <2>6 DEF Went
  <2>9. \A k \in 1 .. n : code[k].op = "load" => code[k].id \in DOMAIN g.repl
    BY <2>1, <2>2, <2>7, <2>8
  <2>10. ASSUME NEW a,
                StackOf(start.stack, a) # << >> \/ (\E k \in 1 .. n : IsStore(code[k], a))
         PROVE  StackOf(g.stack, a) # << >>
    <3>1. StackOf(x.stack, a) # << >> \/ IsStore(i, a)
      BY <2>1, <2>2, <2>7, <2>10
    <3> QED
      BY <2>6, <3>1 DEF Went
  <2>11. FedKnown(hyp, n, g)
    BY <1>1, <2>8, <2>9, <2>10 DEF FedKnown
  <2> QED
    BY <2>1, <2>11 DEF RenameStep
<1>6. FedKnown(hyp, Len(code), acc)
  BY <1>2, <1>3, <1>4, <1>5, FedRuns!RunRule
<1> QED
  BY <1>1, <1>3, <1>6 DEF FedKnown

\* The phis of a block are no loaded values either.
LEMMA PhisClean ==
  ASSUME NEW b, IsFiniteSet(DOMAIN phis[b]), CleanStacks(valStack), NEW st,
         st = PhiPushes!Run(b, valStack, SetToSeq(DOMAIN phis[b]))
  PROVE  /\ CleanStacks(st)
         /\ \A a : StackOf(valStack, a) # << >> => StackOf(st, a) # << >>
<1>1. \A a : StackOf(st, a) = PhiPush(phis, StackOf(valStack, a), b, a)
  BY PhisPush
<1>2. ASSUME NEW a
      PROVE  Clean(StackOf(st, a)) /\ (StackOf(valStack, a) # << >> => StackOf(st, a) # << >>)
  <2>1. PICK s, w, v : s = StackOf(valStack, a) /\ w = StackOf(st, a) /\ v = Phi(b, a)
    OBVIOUS
  <2>2. v[1] # "load"
    BY <2>1 DEF Phi
  <2>3. w = s \/ w = Append(s, v)
    BY <1>1, <2>1 DEF PhiPush
  <2>4. Clean(s)
    BY <2>1 DEF CleanStacks
  <2> QED
    BY <2>1, <2>2, <2>3, <2>4, CleanAppend
<1> QED
  BY <1>2 DEF CleanStacks

\* Entering a block whose loads are fed.
LEMMA EnterFeeds ==
  ASSUME Renamable(ir), NEW b \in Blocks(ir), IsFiniteSet(DOMAIN phis[b]),
         Fed(ir.code[b], valStack), CleanStacks(valStack), CleanRepl(repl),
         NEW done, done = Renaming(b)
  PROVE  /\ done.fault = fault /\ CleanStacks(done.stack) /\ CleanRepl(done.repl)
         /\ DOMAIN repl \subseteq DOMAIN done.repl
         /\ \A k \in DOMAIN ir.code[b] :
              ir.code[b][k].op = "load" => ir.code[b][k].id \in DOMAIN done.repl
<1>1. PICK st : st = PhiPushes!Run(b, valStack, SetToSeq(DOMAIN phis[b]))
  OBVIOUS
<1>2. CleanStacks(st) /\ \A a : StackOf(valStack, a) # << >> => StackOf(st, a) # << >>
  BY <1>1, PhisClean
<1>3. PICK code, start : code = ir.code[b] /\ start = [stack |-> st, repl |-> repl, fault |-> fault]
  OBVIOUS
<1>4. done = Renames!Run(0, start, code)
  BY <1>1, <1>3, RenamingIs
<1>5. /\ IsAcc(start) /\ start.stack = st /\ start.repl = repl /\ start.fault = fault
  BY <1>3 DEF IsAcc
<1>6. IsSeq(code) /\ OwnLoads(code)
  BY <1>3, CodeIs
<1>7. Fed(code, start.stack)
  BY <1>2, <1>3, <1>5 DEF Fed
<1>8. CleanStacks(start.stack) /\ CleanRepl(start.repl)
  BY <1>2, <1>5
<1>9. /\ done.fault = start.fault /\ CleanStacks(done.stack) /\ CleanRepl(done.repl)
      /\ DOMAIN start.repl \subseteq DOMAIN done.repl
      /\ \A k \in DOMAIN code : code[k].op = "load" => code[k].id \in DOMAIN done.repl
  BY <1>4, <1>5, <1>6, <1>7, <1>8, FedRenaming
<1> QED
  BY <1>3, <1>5, <1>9

-----------------------------------------------------------------------------
(***************************************************************************)
(* The way of the calls.  The blocks of the active calls are a path from   *)
(* the entry, so what every path to a block has stored is on the stacks    *)
(* when the block is entered: when the function is Supplied, every load is *)
(* Fed.                                                                    *)
(***************************************************************************)
\* each call was made by the one before, for a successor of its block
OnPath(f, cs) ==
  /\ cs # << >> => cs[1].bb = Entry
  /\ \A k \in 1 .. Len(cs) - 1 : cs[k + 1].bb \in ToSet(f.succ[cs[k].bb])

\* the successors a call has passed by are renamed
Looked(f, cs, done) ==
  \A k \in 1 .. Len(cs) : \A j \in DOMAIN f.succ[cs[k].bb] :
    j < cs[k].next => f.succ[cs[k].bb][j] \in done

HasStore(code, b, a) == \E j \in DOMAIN code[b] : IsStore(code[b][j], a)

\* What the blocks of the calls store is on the stacks.
HoldsKnown(hyp, n, v) ==
  IsSeq(v) /\ \A k \in 1 .. n : HasStore(hyp[3], hyp[1][k].bb, hyp[2]) => v # << >>

HoldRuns == INSTANCE IterateProofs WITH step <- CallStep, known <- HoldsKnown

LEMMA StoreCounts ==
  ASSUME Renamable(ir), NEW b \in Blocks(ir), NEW a, HasStore(ir.code, b, a)
  PROVE  StoresTo(a, ir.code[b], Len(ir.code[b])) > 0
<1>1. PICK code : code = ir.code[b]
  OBVIOUS
<1>2. IsSeq(code) /\ Len(code) \in Nat /\ DOMAIN code = 1 .. Len(code)
  BY <1>1, CodeIs
<1>3. PICK j \in 1 .. Len(code) : IsStore(code[j], a)
  BY <1>1, <1>2 DEF HasStore
<1>4. StoresTo(a, code, j) = StoresTo(a, code, j - 1) + 1
  BY <1>2, <1>3, CountIs
<1>5. \A k \in 0 .. Len(code) : /\ StoresTo(a, code, k) \in Nat
                               /\ StoresTo(a, code, k) <= StoresTo(a, code, Len(code))
  <2>1. IsSeq(<< >>)
    <3>1. << >> \in Seq({})
      OBVIOUS
    <3> QED
      BY <3>1 DEF IsSeq
  <2>2. PICK r, base, v : base = << >> /\ v = Pushes!Run(<<r, a>>, base, code)
    OBVIOUS
  <2> QED
    BY <1>2, <2>1, <2>2, PushesAre
<1>6. j \in 0 .. Len(code) /\ j - 1 \in 0 .. Len(code) /\ Len(code) \in 0 .. Len(code)
  BY <1>2, <1>3
<1>7. PICK n, m, l : /\ n = StoresTo(a, code, j) /\ m = StoresTo(a, code, j - 1)
                     /\ l = StoresTo(a, code, Len(code))
  OBVIOUS
<1>8. n = m + 1 /\ n \in Nat /\ m \in Nat /\ l \in Nat /\ n <= l
  BY <1>4, <1>5, <1>6, <1>7
<1>9. l > 0
  BY <1>8
<1> QED
  BY <1>1, <1>7, <1>9

LEMMA HeldStored ==
  ASSUME Renamable(ir), NEW r, NEW ph, NEW cs, Len(cs) \in Nat,
         \A k \in 1 .. Len(cs) : cs[k].bb \in Blocks(ir),
         NEW a, NEW k \in 1 .. Len(cs), HasStore(ir.code, cs[k].bb, a)
  PROVE  Held(r, ph, ir.code, cs, a) # << >>
<1>1. PICK hyp : cs = hyp[1] /\ a = hyp[2] /\ ir.code = hyp[3]
  <2>1. /\ cs = <<cs, a, ir.code>>[1] /\ a = <<cs, a, ir.code>>[2]
        /\ ir.code = <<cs, a, ir.code>>[3]
    OBVIOUS
  <2> QED
    BY <2>1
<1>2. PICK ctx : ctx = <<r, ph, ir.code, a>>
  OBVIOUS
<1>3. ctx[1] = r /\ ctx[2] = ph /\ ctx[3] = ir.code /\ ctx[4] = a
  BY <1>2
<1>4. Held(r, ph, ir.code, cs, a) = HoldRuns!Run(ctx, << >>, cs)
  BY <1>2 DEF Held, CallRuns!Run, HoldRuns!Run, CallRuns!RunThrough, HoldRuns!RunThrough
<1>5. HoldsKnown(hyp, 0, << >>)
  <2>1. << >> \in Seq({}) /\ 1 .. 0 = {}
    OBVIOUS
  <2> QED
    BY <2>1 DEF HoldsKnown, IsSeq
<1>6. ASSUME NEW n \in 1 .. Len(cs), NEW v, HoldsKnown(hyp, n - 1, v)
      PROVE  HoldsKnown(hyp, n, CallStep(ctx, v, cs[n]))
  <2>1. PICK b, w, base, code :
          /\ b = cs[n].bb /\ w = BlockPush(r, ph, ir.code, v, b, a)
          /\ base = PhiPush(ph, v, b, a) /\ code = ir.code[b]
    OBVIOUS
  <2>2. CallStep(ctx, v, cs[n]) = w
    BY <1>3, <2>1 DEF CallStep
  <2>3. IsSeq(v) /\ \A m \in 1 .. n - 1 : HasStore(ir.code, cs[m].bb, a) => v # << >>
    BY <1>1, <1>6 DEF HoldsKnown
  <2>4. b \in Blocks(ir)
    BY <2>1
  <2>5. /\ Starts(v, base) /\ Len(base) = Len(v) + (IF a \in DOMAIN ph[b] THEN 1 ELSE 0)
        /\ Starts(base, w) /\ Len(w) = Len(base) + StoresTo(a, code, Len(code))
        /\ Len(v) \in Nat /\ IsSeq(w)
    BY <2>1, <2>3, <2>4, BlockPushIs
  <2>6. Len(code) \in Nat /\ StoresTo(a, code, Len(code)) \in Nat
    <3>1. Len(code) \in Nat
      BY <2>1, <2>4, CodeIs
    <3>2. \A m \in 0 .. Len(code) : StoresTo(a, code, m) \in Nat
      BY <2>1, <2>3, <2>4, BlockPushIs
    <3> QED
      BY <3>1, <3>2
  <2>7. PICK l, p, q : l = StoresTo(a, code, Len(code)) /\ p = Len(base) /\ q = Len(v)
    OBVIOUS
  <2>8. l \in Nat /\ q \in Nat /\ p \in Nat /\ p >= q /\ Len(w) = p + l
    BY <2>5, <2>6, <2>7
  <2>9. v # << >> => w # << >>
    <3>1. v # << >> => q # 0
      BY <2>3, <2>7 DEF IsSeq
    <3>2. w = << >> => p + l = 0
      BY <2>8
    <3> QED
      BY <2>8, <3>1, <3>2
  <2>10. HasStore(ir.code, b, a) => w # << >>
    <3>1. HasStore(ir.code, b, a) => l > 0
      BY <2>1, <2>4, <2>7, StoreCounts
    <3>2. w = << >> => p + l = 0
      BY <2>8
    <3> QED
      BY <2>8, <3>1, <3>2
  <2>11. ASSUME NEW m \in 1 .. n, HasStore(ir.code, cs[m].bb, a) PROVE w # << >>
    <3>1. m \in 1 .. n - 1 \/ m = n
      OBVIOUS
    <3> QED
      BY <2>1, <2>3, <2>9, <2>10, <2>11, <3>1
  <2>12. HoldsKnown(hyp, n, w)
    BY <1>1, <2>5, <2>11 DEF HoldsKnown
  <2> QED
    BY <2>2, <2>12
<1>7. HoldsKnown(hyp, Len(cs), HoldRuns!Run(ctx, << >>, cs))
  BY <1>5, <1>6, HoldRuns!RunRule
<1> QED
  BY <1>1, <1>4, <1>7 DEF HoldsKnown

\* A names blocks, none the entry, with variables stored on every path to them, and
\* every load has such a variable, or one stored before it in its block
Supplied(f, A) ==
  /\ \A a, b : <<a, b>> \in A => b # Entry
  /\ \A p, b \in Blocks(f) : b \in ToSet(f.succ[p]) =>
       \A a : <<a, b>> \in A => <<a, p>> \in A \/ HasStore(f.code, p, a)
  /\ \A b \in Blocks(f) : \A k \in DOMAIN f.code[b] : f.code[b][k].op = "load" =>
       \/ <<f.code[b][k].var, b>> \in A
       \/ \E j \in DOMAIN f.code[b] : j < k /\ IsStore(f.code[b][j], f.code[b][k].var)

\* Whatever has been stored on every path to a block, a block of the calls has stored.
LEMMA PathStores ==
  ASSUME NEW f, NEW A, Supplied(f, A),
         NEW cs, Len(cs) \in Nat, OnPath(f, cs), \A k \in 1 .. Len(cs) : cs[k].bb \in Blocks(f),
         NEW s \in Blocks(f), cs # << >>, Len(cs) # 0, s \in ToSet(f.succ[cs[Len(cs)].bb]),
         NEW a, <<a, s>> \in A
  PROVE  \E k \in 1 .. Len(cs) : HasStore(f.code, cs[k].bb, a)
<1> SUFFICES ASSUME \A k \in 1 .. Len(cs) : ~HasStore(f.code, cs[k].bb, a)
             PROVE  FALSE
  OBVIOUS
<1>1. ASSUME NEW k \in 1 .. Len(cs), NEW t \in Blocks(f), t \in ToSet(f.succ[cs[k].bb]),
             <<a, t>> \in A
      PROVE  <<a, cs[k].bb>> \in A
  <2>1. PICK p : p = cs[k].bb
    OBVIOUS
  <2>2. p \in Blocks(f) /\ t \in ToSet(f.succ[p]) /\ ~HasStore(f.code, p, a)
    BY <1>1, <2>1
  <2> QED
    BY <1>1, <2>1, <2>2 DEF Supplied
<1> DEFINE D == {m \in 1 .. Len(cs) : \A j \in m .. Len(cs) : <<a, cs[j].bb>> \in A}
<1>2. Len(cs) \in D
  <2>1. <<a, cs[Len(cs)].bb>> \in A
    BY <1>1
  <2> QED
    BY <2>1
<1>3. PICK m \in D : \A j \in D : m <= j
  <2>1. D \in SUBSET Nat /\ D # {}
    BY <1>2
  <2> HIDE DEF D
  <2> QED
    BY <2>1, Counts!LeastNat
<1>4. m \in 1 .. Len(cs) /\ \A j \in m .. Len(cs) : <<a, cs[j].bb>> \in A
  OBVIOUS
<1>5. m # 1
  <2>1. \A c : <<a, c>> \in A => c # Entry
    BY DEF Supplied
  <2>2. cs[1].bb = Entry
    BY DEF OnPath
  <2>3. m = 1 => <<a, cs[1].bb>> \in A
    BY <1>4
  <2> QED
    BY <2>1, <2>2, <2>3
<1>6. m - 1 \in 1 .. Len(cs) - 1 /\ m - 1 \in 1 .. Len(cs) /\ (m - 1) + 1 = m
  BY <1>4, <1>5
<1>7. cs[m].bb \in ToSet(f.succ[cs[m - 1].bb])
  BY <1>6 DEF OnPath
<1>8. <<a, cs[m - 1].bb>> \in A
  <2>1. PICK t : t = cs[m].bb
    OBVIOUS
  <2>2. t \in Blocks(f) /\ <<a, t>> \in A
    <3>1. m \in m .. Len(cs)
      BY <1>4
    <3> QED
      BY <1>4, <2>1, <3>1
  <2>3. t \in ToSet(f.succ[cs[m - 1].bb])
    BY <1>7, <2>1
  <2> QED
    BY <1>1, <1>6, <2>2, <2>3
<1>9. \A j \in m - 1 .. Len(cs) : j = m - 1 \/ j \in m .. Len(cs)
  BY <1>4
<1>10. m - 1 \in D
  BY <1>4, <1>6, <1>8, <1>9
<1>11. ~(m <= m - 1)
  BY <1>4
<1> QED
  BY <1>3, <1>10, <1>11

(***************************************************************************)
(* The invariant of Mem2Reg's promotion, with which rename's assertions    *)
(* hold, and at the end everything that can run is promoted.               *)
(***************************************************************************)
\* rename is done with a block: it was entered for every successor, and its stores are erased
Returned(b) ==
  /\ ToSet(ir.succ[b]) \subseteq renamed
  /\ \A k \in DOMAIN ir.code[b] : ir.code[b][k].op = "store" => ir.code[b][k].id \in erased

Active(b) == \E k \in 1 .. Len(calls) : calls[k].bb = b

LoadsGone ==
  \A b \in renamed : \A k \in DOMAIN ir.code[b] :
    ir.code[b][k].op = "load" => ir.code[b][k].id \in DOMAIN repl

WalkInv ==
  /\ OnPath(ir, calls) /\ Looked(ir, calls, renamed) /\ LoadsGone
  /\ \A b \in renamed : Active(b) \/ Returned(b)
  /\ renamed # {} => Entry \in renamed
  /\ mpc = "done" => calls = << >> /\ renamed # {}

PromoteInv == ~fault /\ CleanStacks(valStack) /\ CleanRepl(repl) /\ WalkInv

\* The loads of a block are fed, when the last call goes on to it, and those of the entry.
LEMMA CalledFed ==
  ASSUME Renamable(ir), RenInv, OnPath(ir, calls), NEW A, Supplied(ir, A),
         NEW s \in Blocks(ir),
         IF calls = << >> THEN s = Entry ELSE s \in ToSet(ir.succ[Last(calls).bb])
  PROVE  Fed(ir.code[s], valStack)
<1>1. /\ calls \in Seq(Call) /\ Len(calls) \in Nat
      /\ \A k \in 1 .. Len(calls) : calls[k].bb \in Blocks(ir)
  BY DEF RenInv, Walking
<1>2. ASSUME NEW a, <<a, s>> \in A PROVE StackOf(valStack, a) # << >>
  <2>1. calls # << >>
    BY <1>2 DEF Supplied
  <2>2. Len(calls) # 0 /\ Last(calls) = calls[Len(calls)]
    BY <1>1, <2>1 DEF Last
  <2>3. PICK k \in 1 .. Len(calls) : HasStore(ir.code, calls[k].bb, a)
    <3>1. PICK cs : cs = calls
      OBVIOUS
    <3>2. OnPath(ir, cs) /\ cs # << >> /\ Len(cs) # 0 /\ s \in ToSet(ir.succ[cs[Len(cs)].bb])
      BY <2>1, <2>2, <3>1
    <3>3. \E k \in 1 .. Len(cs) : HasStore(ir.code, cs[k].bb, a)
      BY <1>1, <1>2, <3>1, <3>2, PathStores
    <3> QED
      BY <3>1, <3>3
  <2>4. Held(repl, phis, ir.code, calls, a) # << >>
    BY <1>1, <2>3, HeldStored
  <2> QED
    BY <2>4 DEF RenInv, Stacks
<1>3. ASSUME NEW k \in DOMAIN ir.code[s], ir.code[s][k].op = "load"
      PROVE  \/ StackOf(valStack, ir.code[s][k].var) # << >>
             \/ \E j \in DOMAIN ir.code[s] : j < k /\ IsStore(ir.code[s][j], ir.code[s][k].var)
  <2>1. PICK a : a = ir.code[s][k].var
    OBVIOUS
  <2>2. CASE <<a, s>> \in A
    BY <1>2, <2>1, <2>2
  <2> QED
    BY <1>3, <2>1, <2>2 DEF Supplied
<1> QED
  BY <1>3 DEF Fed

\* A step that leaves the walk as it is, and is not the last.
LEMMA PromoteSame ==
  ASSUME PromoteInv, UNCHANGED <<ir, valStack, renamed, calls, repl, erased, fault>>,
         mpc' # "done" \/ mpc' = mpc
  PROVE  PromoteInv'
<1>1. ~fault' /\ CleanStacks(valStack)' /\ CleanRepl(repl)'
  BY DEF PromoteInv, CleanStacks, Clean, StackOf, IsSeq, CleanRepl
<1>2. OnPath(ir, calls)' /\ Looked(ir, calls, renamed)'
  BY DEF PromoteInv, WalkInv, OnPath, Looked, Entry, ToSet
<1>3. LoadsGone'
  BY DEF PromoteInv, WalkInv, LoadsGone
<1>4. (\A b \in renamed : Active(b) \/ Returned(b))'
  BY DEF PromoteInv, WalkInv, Active, Returned, ToSet
<1>5. (renamed # {} => Entry \in renamed)' /\ (mpc = "done" => calls = << >> /\ renamed # {})'
  BY DEF PromoteInv, WalkInv, Entry
<1> QED
  BY <1>1, <1>2, <1>3, <1>4, <1>5 DEF PromoteInv, WalkInv

\* A call of rename, cs being the calls below it.
LEMMA EnterPromotes ==
  ASSUME Renamable(ir), RenInv, PromoteInv, mpc = "rename", UNCHANGED <<ir, mpc, erased>>,
         NEW b \in Blocks(ir), b \notin renamed, Enter(b), Fed(ir.code[b], valStack),
         NEW cs, cs \in Seq(Call), Len(cs) = Len(calls),
         \A k \in 1 .. Len(cs) : cs[k].bb = calls[k].bb,
         Looked(ir, cs, renamed \cup {b}),
         IF calls = << >> THEN b = Entry ELSE b \in ToSet(ir.succ[Last(calls).bb]),
         calls' = Append(cs, [bb |-> b, next |-> 1])
  PROVE  PromoteInv'
<1>1. PICK done : done = Renaming(b)
  OBVIOUS
<1>2. /\ valStack' = done.stack /\ repl' = done.repl /\ fault' = done.fault
      /\ renamed' = renamed \cup {b}
  BY <1>1 DEF Enter
<1>3. /\ done.fault = fault /\ CleanStacks(done.stack) /\ CleanRepl(done.repl)
      /\ DOMAIN repl \subseteq DOMAIN done.repl
      /\ \A k \in DOMAIN ir.code[b] :
           ir.code[b][k].op = "load" => ir.code[b][k].id \in DOMAIN done.repl
  <2>1. IsFiniteSet(DOMAIN phis[b])
    BY DEF RenInv
  <2> QED
    BY <1>1, <2>1, EnterFeeds DEF PromoteInv
<1>4. ~fault' /\ CleanStacks(valStack)' /\ CleanRepl(repl)'
  <2>1. (CleanStacks(valStack))' <=> CleanStacks(valStack')
    BY DEF CleanStacks, Clean, StackOf, IsSeq
  <2>2. (CleanRepl(repl))' <=> CleanRepl(repl')
    BY DEF CleanRepl
  <2> QED
    BY <1>2, <1>3, <2>1, <2>2 DEF PromoteInv
<1>5. PICK cs2, c, n : cs2 = calls' /\ c = [bb |-> b, next |-> 1] /\ n = Len(cs)
  OBVIOUS
<1>6. /\ n \in Nat /\ Len(cs2) = n + 1 /\ cs2[n + 1] = c /\ c.bb = b /\ c.next = 1
      /\ \A k \in 1 .. n : cs2[k] = cs[k]
  <2>1. c \in Call
    BY <1>5 DEF Call
  <2>2. cs2 = Append(cs, c) /\ n \in Nat
    BY <1>5
  <2> QED
    BY <1>5, <2>1, <2>2
<1>7. \A k \in 1 .. n + 1 : k \in 1 .. n \/ k = n + 1
  BY <1>6
<1>8. OnPath(ir, cs2)
  <2>1. cs2[1].bb = Entry
    <3>1. CASE n = 0
      <4>1. calls = << >>
        <5>1. calls \in Seq(Call)
          BY DEF RenInv, Walking
        <5>2. Len(calls) = 0
          BY <1>5, <3>1
        <5> QED
          BY <5>1, <5>2
      <4> QED
        BY <1>6, <3>1, <4>1
    <3>2. CASE n # 0
      <4>1. 1 \in 1 .. n /\ calls # << >>
        BY <1>5, <1>6, <3>2
      <4> QED
        BY <1>5, <1>6, <4>1 DEF PromoteInv, WalkInv, OnPath
    <3> QED
      BY <3>1, <3>2
  <2>2. ASSUME NEW k \in 1 .. Len(cs2) - 1
        PROVE  cs2[k + 1].bb \in ToSet(ir.succ[cs2[k].bb])
    <3>1. k \in 1 .. n /\ n # 0 /\ calls # << >> /\ cs2[k].bb = calls[k].bb
      BY <1>5, <1>6
    <3>2. CASE k = n
      <4>1. Last(calls) = calls[n]
        BY <1>5 DEF Last
      <4> QED
        BY <1>6, <3>1, <3>2, <4>1
    <3>3. CASE k # n
      <4>1. k + 1 \in 1 .. n /\ k \in 1 .. Len(calls) - 1
        BY <1>5, <1>6, <3>1, <3>3
      <4>2. cs2[k + 1].bb = calls[k + 1].bb
        BY <1>5, <1>6, <4>1
      <4> QED
        BY <3>1, <4>1, <4>2 DEF PromoteInv, WalkInv, OnPath
    <3> QED
      BY <3>2, <3>3
  <2> QED
    BY <2>1, <2>2 DEF OnPath
<1>9. Looked(ir, cs2, renamed \cup {b})
  <2> SUFFICES ASSUME NEW k \in 1 .. Len(cs2), NEW j \in DOMAIN ir.succ[cs2[k].bb], j < cs2[k].next
               PROVE  ir.succ[cs2[k].bb][j] \in renamed \cup {b}
    BY DEF Looked
  <2>1. CASE k \in 1 .. n
    BY <1>5, <1>6, <2>1 DEF Looked
  <2>2. CASE k = n + 1
    <3>1. j \in DOMAIN ir.succ[b] /\ j < 1
      BY <1>6, <2>2
    <3>2. ir.succ[b] \in Seq(Blocks(ir))
      BY DEF Renamable
    <3>3. j \in Nat /\ j >= 1
      BY <3>1, <3>2
    <3> QED
      BY <3>1, <3>3
  <2> QED
    BY <1>6, <1>7, <2>1, <2>2
<1>10. OnPath(ir, calls)' /\ Looked(ir, calls, renamed)'
  <2>1. (OnPath(ir, calls))' <=> OnPath(ir, cs2)
    BY <1>5 DEF OnPath, Entry, ToSet
  <2>2. (Looked(ir, calls, renamed))' <=> Looked(ir, cs2, renamed \cup {b})
    BY <1>2, <1>5 DEF Looked
  <2> QED
    BY <1>8, <1>9, <2>1, <2>2
<1>11. LoadsGone'
  <2>1. \A d \in renamed \cup {b} : \A k \in DOMAIN ir.code[d] :
          ir.code[d][k].op = "load" => ir.code[d][k].id \in DOMAIN done.repl
    BY <1>3 DEF PromoteInv, WalkInv, LoadsGone
  <2> QED
    BY <1>2, <2>1 DEF LoadsGone
<1>12. ASSUME NEW d \in renamed \cup {b} PROVE (Active(d) \/ Returned(d))'
  <2>1. CASE d = b
    <3>1. n + 1 \in 1 .. Len(cs2) /\ cs2[n + 1].bb = d
      BY <1>6, <2>1
    <3> QED
      BY <1>5, <3>1 DEF Active
  <2>2. CASE Active(d)
    <3>1. PICK k \in 1 .. n : cs2[k].bb = d
      BY <1>5, <1>6, <2>2 DEF Active
    <3>2. k \in 1 .. Len(cs2)
      BY <1>6
    <3> QED
      BY <1>5, <3>1, <3>2 DEF Active
  <2>3. CASE Returned(d)
    BY <1>2, <2>3 DEF Returned, ToSet
  <2> QED
    BY <2>1, <2>2, <2>3 DEF PromoteInv, WalkInv
<1>13. Entry \in renamed'
  <2>1. CASE calls = << >>
    BY <1>2, <2>1
  <2>2. CASE calls # << >>
    <3>1. 1 \in 1 .. Len(calls)
      BY <2>2 DEF RenInv, Walking
    <3>2. calls[1].bb \in renamed
      BY <3>1 DEF RenInv, Walking
    <3> QED
      BY <1>2, <3>2 DEF PromoteInv, WalkInv
  <2> QED
    BY <2>1, <2>2
<1>14. mpc' # "done"
  OBVIOUS
<1>15. (\A d \in renamed : Active(d) \/ Returned(d))'
  BY <1>2, <1>12
<1> QED
  BY <1>4, <1>10, <1>11, <1>13, <1>14, <1>15 DEF PromoteInv, WalkInv, Entry

\* The first call.
LEMMA EntryPromotes ==
  ASSUME Renamable(ir), RenInv, PromoteInv, NEW A, Supplied(ir, A), RenameEntry
  PROVE  PromoteInv'
<1>1. /\ calls = << >> /\ renamed = {} /\ mpc = "rename" /\ Enter(Entry)
      /\ calls' = <<[bb |-> Entry, next |-> 1]>> /\ UNCHANGED <<ir, mpc, erased>>
  BY DEF RenameEntry
<1>2. Entry \in Blocks(ir)
  BY DEF Renamable
<1>3. Fed(ir.code[Entry], valStack)
  BY <1>1, <1>2, CalledFed DEF PromoteInv, WalkInv
<1>4. PICK cs : cs = << >>
  OBVIOUS
<1>5. /\ cs \in Seq(Call) /\ Len(cs) = Len(calls) /\ Len(cs) = 0
      /\ calls' = Append(cs, [bb |-> Entry, next |-> 1])
  BY <1>1, <1>4
<1>6. Looked(ir, cs, renamed \cup {Entry}) /\ \A k \in 1 .. Len(cs) : cs[k].bb = calls[k].bb
  BY <1>5 DEF Looked
<1> QED
  BY <1>1, <1>2, <1>3, <1>5, <1>6, EnterPromotes

\* The call for the next successor.
LEMMA DescendPromotes ==
  ASSUME Renamable(ir), RenInv, PromoteInv, NEW A, Supplied(ir, A), Descend
  PROVE  PromoteInv'
<1>1. PICK c : c = Last(calls)
  OBVIOUS
<1>2. PICK k \in Unvisited(c) :
        /\ \A j \in Unvisited(c) : k <= j
        /\ Enter(ir.succ[c.bb][k])
        /\ calls' = Append([calls EXCEPT ![Len(calls)].next = k + 1],
                           [bb |-> ir.succ[c.bb][k], next |-> 1])
  BY <1>1 DEF Descend
<1>3. mpc = "rename" /\ calls # << >> /\ UNCHANGED <<ir, mpc, erased>>
  BY DEF Descend
<1>4. calls \in Seq(Call) /\ Len(calls) \in Nat /\ Len(calls) # 0 /\ c = calls[Len(calls)]
  BY <1>1, <1>3 DEF RenInv, Walking, Last
<1>5. c \in Call /\ c.bb \in Blocks(ir) /\ c.next \in Nat
  <2>1. c \in Call
    BY <1>4
  <2> QED
    BY <2>1 DEF Call
<1>6. PICK succ, s : succ = ir.succ[c.bb] /\ s = succ[k]
  OBVIOUS
<1>7. succ \in Seq(Blocks(ir)) /\ k \in DOMAIN succ /\ k \in Nat /\ k >= c.next /\ s \notin renamed
  BY <1>2, <1>5, <1>6 DEF Unvisited, Renamable
<1>8. s \in Blocks(ir) /\ s \in ToSet(succ)
  BY <1>6, <1>7 DEF ToSet
<1>9. Fed(ir.code[s], valStack)
  BY <1>1, <1>3, <1>6, <1>8, CalledFed DEF PromoteInv, WalkInv
<1>10. PICK cs : cs = [calls EXCEPT ![Len(calls)].next = k + 1]
  OBVIOUS
<1>11. /\ cs \in Seq(Call) /\ Len(cs) = Len(calls)
       /\ \A m \in 1 .. Len(cs) : cs[m].bb = calls[m].bb
       /\ \A m \in 1 .. Len(cs) : m # Len(calls) => cs[m] = calls[m]
       /\ cs[Len(calls)].next = k + 1
  <2>1. PICK u, n, d : u = calls /\ n = Len(u) /\ d = [c EXCEPT !.next = k + 1]
    OBVIOUS
  <2>2. d \in Call /\ d.bb = c.bb /\ d.next = k + 1
    BY <1>5, <1>7, <2>1 DEF Call
  <2>3. u \in Seq(Call) /\ n \in Nat /\ n \in 1 .. n /\ c = u[n]
    BY <1>4, <2>1
  <2>4. cs = [u EXCEPT ![n] = d]
    BY <1>10, <2>1, <2>3
  <2>5. cs \in Seq(Call) /\ Len(cs) = n
    BY <2>1, <2>2, <2>3, <2>4
  <2>6. DOMAIN u = 1 .. n
    BY <2>1, <2>3
  <2>7. cs[n] = d /\ \A m \in 1 .. n : m # n => cs[m] = u[m]
    BY <2>3, <2>4, <2>6
  <2> QED
    BY <2>1, <2>2, <2>3, <2>5, <2>7
<1>12. Looked(ir, cs, renamed \cup {s})
  <2> SUFFICES ASSUME NEW m \in 1 .. Len(cs), NEW j \in DOMAIN ir.succ[cs[m].bb], j < cs[m].next
               PROVE  ir.succ[cs[m].bb][j] \in renamed \cup {s}
    BY DEF Looked
  <2>1. CASE m # Len(calls)
    <3>1. cs[m] = calls[m] /\ m \in 1 .. Len(calls)
      BY <1>11, <2>1
    <3> QED
      BY <3>1 DEF PromoteInv, WalkInv, Looked
  <2>2. CASE m = Len(calls)
    <3>1. cs[m].bb = c.bb /\ cs[m].next = k + 1
      BY <1>4, <1>11, <2>2
    <3>2. j \in DOMAIN succ /\ j \in Nat /\ j <= k
      BY <1>6, <1>7, <3>1
    <3>3. CASE j = k
      BY <1>6, <3>1, <3>3
    <3>4. CASE j < k /\ j >= c.next
      <4>1. j \notin Unvisited(c)
        BY <1>2, <1>7, <3>2, <3>4
      <4> QED
        BY <1>6, <3>1, <3>2, <3>4, <4>1 DEF Unvisited
    <3>5. CASE j < c.next
      <4>1. succ[j] \in renamed
        BY <1>4, <1>6, <3>2, <3>5 DEF PromoteInv, WalkInv, Looked
      <4> QED
        BY <1>6, <3>1, <4>1
    <3> QED
      BY <1>5, <1>7, <3>2, <3>3, <3>4, <3>5
  <2> QED
    BY <2>1, <2>2
<1>13. Enter(s) /\ calls' = Append(cs, [bb |-> s, next |-> 1])
  BY <1>2, <1>6, <1>10
<1>14. IF calls = << >> THEN s = Entry ELSE s \in ToSet(ir.succ[Last(calls).bb])
  BY <1>1, <1>3, <1>6, <1>8
<1> QED
  BY <1>3, <1>7, <1>8, <1>9, <1>11, <1>12, <1>13, <1>14, EnterPromotes

\* The return of a call.
LEMMA LeavePromotes ==
  ASSUME Renamable(ir), RenInv, PromoteInv, Leave
  PROVE  PromoteInv'
<1>1. PICK c, b, cs, popped : /\ c = Last(calls) /\ b = c.bb /\ cs = Front(calls)
                              /\ popped = Popping(b)
  OBVIOUS
<1>2. /\ mpc = "rename" /\ calls # << >> /\ Unvisited(c) = {}
      /\ valStack' = popped.stack /\ calls' = cs
      /\ erased' = erased \cup {Instrs(b)[k].id : k \in StoresIn(b)}
      /\ mpc' = IF Len(calls) = 1 THEN "done" ELSE mpc
      /\ UNCHANGED <<ir, renamed, repl>>
  BY <1>1 DEF Leave
<1>3. fault' = fault
  BY LeaveKeeps
<1>4. /\ cs \in Seq(Call) /\ c \in Call /\ calls = Append(cs, c)
      /\ Len(cs) = Len(calls) - 1 /\ Len(calls) \in Nat /\ Len(calls) # 0
      /\ \A k \in 1 .. Len(cs) : cs[k] = calls[k]
  <2>1. calls \in Seq(Call)
    BY DEF RenInv, Walking
  <2> QED
    BY <1>1, <1>2, <2>1, LastCall
<1>5. c = calls[Len(calls)] /\ b \in renamed /\ b \in Blocks(ir) /\ c.next \in Nat
  BY <1>1, <1>4 DEF RenInv, Walking, Last, Call
<1>6. CleanStacks(popped.stack)
  <2> SUFFICES ASSUME NEW a PROVE Clean(StackOf(popped.stack, a))
    BY DEF CleanStacks
  <2>1. PICK u, w : u = StackOf(popped.stack, a) /\ w = StackOf(valStack, a)
    OBVIOUS
  <2>2. u = Held(repl, phis, ir.code, cs, a)
    <3>1. \A d \in Blocks(ir) : IsFiniteSet(DOMAIN phis[d])
      BY <1>2 DEF RenInv
    <3> QED
      BY <1>1, <1>2, <2>1, <3>1, LeavePops DEF RenInv
  <2>3. w = BlockPush(repl, phis, ir.code, u, b, a)
    <3>1. w = Held(repl, phis, ir.code, Append(cs, c), a)
      BY <1>4, <2>1 DEF RenInv, Stacks
    <3>2. PICK r, ph, code, cc : r = repl /\ ph = phis /\ code = ir.code /\ cc = Append(cs, c)
      OBVIOUS
    <3>3. Held(r, ph, code, Append(cs, c), a) = BlockPush(r, ph, code, Held(r, ph, code, cs, a), c.bb, a)
      BY <1>4, HeldAppend
    <3> QED
      BY <1>1, <2>2, <3>1, <3>2, <3>3
  <2>4. IsSeq(u)
    <3>1. Len(cs) \in Nat /\ \A k \in 1 .. Len(cs) : cs[k].bb \in Blocks(ir)
      BY <1>4 DEF RenInv, Walking, Call
    <3> QED
      BY <2>2, <3>1, HeldIsSeq
  <2>5. PICK base : base = PhiPush(phis, u, b, a)
    OBVIOUS
  <2>6. Starts(u, base) /\ Starts(base, w)
    BY <1>5, <2>3, <2>4, <2>5, BlockPushIs
  <2>7. Starts(u, w)
    BY <2>6, StartsTwice
  <2>8. Clean(w)
    BY <2>1 DEF PromoteInv, CleanStacks
  <2>9. Len(u) <= Len(w) /\ \A k \in 1 .. Len(u) : u[k] = w[k] /\ k \in 1 .. Len(w)
    BY <2>4, <2>7, <2>8 DEF Starts, Clean, IsSeq
  <2> QED
    BY <2>1, <2>4, <2>8, <2>9 DEF Clean
<1>7. ~fault' /\ CleanStacks(valStack)' /\ CleanRepl(repl)'
  <2>1. (CleanStacks(valStack))' <=> CleanStacks(valStack')
    BY DEF CleanStacks, Clean, StackOf, IsSeq
  <2>2. (CleanRepl(repl))' <=> CleanRepl(repl')
    BY DEF CleanRepl
  <2> QED
    BY <1>2, <1>3, <1>6, <2>1, <2>2 DEF PromoteInv
<1>8. OnPath(ir, calls)' /\ Looked(ir, calls, renamed)'
  <2>1. OnPath(ir, cs)
    <3>1. cs # << >> => 1 \in 1 .. Len(cs)
      BY <1>4
    <3>2. \A k \in 1 .. Len(cs) - 1 : k \in 1 .. Len(cs) /\ k + 1 \in 1 .. Len(cs)
                                      /\ k \in 1 .. Len(calls) - 1
      BY <1>4
    <3> QED
      BY <1>2, <1>4, <3>1, <3>2 DEF PromoteInv, WalkInv, OnPath
  <2>2. Looked(ir, cs, renamed)
    <3>1. \A k \in 1 .. Len(cs) : k \in 1 .. Len(calls)
      BY <1>4
    <3> QED
      BY <1>4, <3>1 DEF PromoteInv, WalkInv, Looked
  <2>3. (OnPath(ir, calls))' <=> OnPath(ir, cs)
    BY <1>2 DEF OnPath, Entry, ToSet
  <2>4. (Looked(ir, calls, renamed))' <=> Looked(ir, cs, renamed)
    BY <1>2 DEF Looked
  <2> QED
    BY <2>1, <2>2, <2>3, <2>4
<1>9. LoadsGone'
  BY <1>2 DEF PromoteInv, WalkInv, LoadsGone
<1>10. ToSet(ir.succ[b]) \subseteq renamed
  <2> SUFFICES ASSUME NEW j \in DOMAIN ir.succ[b] PROVE ir.succ[b][j] \in renamed
    BY DEF ToSet
  <2>1. j \in Nat
    BY <1>5 DEF Renamable
  <2>2. CASE j >= c.next
    <3>1. j \notin Unvisited(c)
      BY <1>2
    <3> QED
      BY <1>1, <2>2, <3>1 DEF Unvisited
  <2>3. CASE j < c.next
    <3>1. Len(calls) \in 1 .. Len(calls)
      BY <1>4
    <3> QED
      BY <1>1, <1>5, <2>3, <3>1 DEF PromoteInv, WalkInv, Looked
  <2> QED
    BY <1>5, <2>1, <2>2, <2>3
<1>11. (Returned(b))'
  <2>1. \A k \in DOMAIN ir.code[b] : ir.code[b][k].op = "store" => ir.code[b][k].id \in erased'
    BY <1>2 DEF Instrs, StoresIn
  <2> QED
    BY <1>2, <1>10, <2>1 DEF Returned, ToSet
<1>12. ASSUME NEW d \in renamed PROVE (Active(d) \/ Returned(d))'
  <2>1. CASE d = b
    BY <1>11, <2>1
  <2>2. CASE Active(d) /\ d # b
    <3>1. PICK k \in 1 .. Len(calls) : calls[k].bb = d
      BY <2>2 DEF Active
    <3>2. k # Len(calls)
      BY <1>1, <1>5, <2>2, <3>1
    <3>3. k \in 1 .. Len(cs)
      BY <1>4, <3>1, <3>2
    <3> QED
      BY <1>2, <1>4, <3>1, <3>3 DEF Active
  <2>3. CASE Returned(d)
    BY <1>2, <2>3 DEF Returned, ToSet
  <2> QED
    BY <2>1, <2>2, <2>3 DEF PromoteInv, WalkInv
<1>13. (\A d \in renamed : Active(d) \/ Returned(d))'
  BY <1>2, <1>12
<1>14. (renamed # {} => Entry \in renamed)' /\ (mpc = "done" => calls = << >> /\ renamed # {})'
  <2>1. mpc' = "done" => Len(cs) = 0
    BY <1>2, <1>4
  <2>2. Len(cs) = 0 => cs = << >>
    BY <1>4
  <2> QED
    BY <1>2, <1>5, <2>1, <2>2 DEF PromoteInv, WalkInv, Entry
<1> QED
  BY <1>7, <1>8, <1>9, <1>13, <1>14 DEF PromoteInv, WalkInv

\* Every step of Mem2Reg.
LEMMA PromotePromotes ==
  ASSUME Renamable(ir), RenInv, PromoteInv, NEW A, Supplied(ir, A), Promote
  PROVE  PromoteInv'
<1>1. CASE Begin
  BY <1>1, PromoteSame DEF Begin
<1>2. CASE NextCandidate
  BY <1>2, PromoteSame DEF NextCandidate
<1>3. ASSUME NEW b \in pending, PlacePhis(b) PROVE PromoteInv'
  BY <1>3, PromoteSame DEF PlacePhis
<1>4. CASE PhisDone
  BY <1>4, PromoteSame DEF PhisDone
<1>5. CASE RenameEntry
  BY <1>5, EntryPromotes
<1>6. CASE Descend
  BY <1>6, DescendPromotes
<1>7. CASE Leave
  BY <1>7, LeavePromotes
<1> QED
  BY <1>1, <1>2, <1>3, <1>4, <1>5, <1>6, <1>7 DEF Promote

\* Before rename has called itself, there is nothing to say.
Untouched ==
  /\ ~fault /\ calls = << >> /\ renamed = {} /\ valStack = NoPhi
  /\ repl = [n \in {} |-> Undef] /\ mpc # "done"

LEMMA PromoteEarly == Untouched => PromoteInv
<1> SUFFICES ASSUME Untouched PROVE PromoteInv
  OBVIOUS
<1> USE DEF Untouched
<1>1. CleanStacks(valStack)
  <2>1. \A a : StackOf(valStack, a) = << >>
    BY DEF StackOf, NoPhi
  <2>2. Clean(<< >>)
    <3>1. << >> \in Seq({}) /\ Len(<< >>) = 0 /\ 1 .. 0 = {}
      OBVIOUS
    <3> QED
      BY <3>1 DEF Clean, IsSeq
  <2> QED
    BY <2>1, <2>2 DEF CleanStacks
<1>2. CleanRepl(repl)
  BY DEF CleanRepl
<1>3. OnPath(ir, calls) /\ Looked(ir, calls, renamed)
  BY DEF OnPath, Looked
<1> QED
  BY <1>1, <1>2, <1>3 DEF PromoteInv, WalkInv, LoadsGone

\* At the end rename is done with every block that can run.
LEMMA AllPromoted ==
  ASSUME Renamable(ir), IsFiniteSet(Blocks(ir)), PromoteInv, renamed \subseteq Blocks(ir)
  PROVE  FullyPromoted
<1> SUFFICES ASSUME mpc = "done" PROVE FullyPromoted
  BY DEF FullyPromoted
<1>1. calls = << >> /\ renamed # {} /\ Entry \in renamed
  BY DEF PromoteInv, WalkInv
<1>2. \A b \in renamed : Returned(b)
  BY <1>1 DEF PromoteInv, WalkInv, Active
<1>3. PICK B, grow : B = Blocks(ir) /\ grow = Grow(ir, {})
  OBVIOUS
<1>4. \A b \in B : ToSet(ir.succ[b]) \subseteq B
  <2>1. \A b \in B : ir.succ[b] \in Seq(B)
    BY <1>3 DEF Renamable
  <2> QED
    BY <2>1 DEF ToSet
<1>5. Reachable(ir) = Counts!Hull(B, grow, {Entry})
  <2>1. Counts!StrictSubsets(B) = StrictSubsetOrdering(B)
    BY DEF Counts!StrictSubsets, StrictSubsetOrdering
  <2>2. Counts!IsWellFoundedOn(Counts!StrictSubsets(B), SUBSET B)
    <3>1. IsWellFoundedOn(Counts!StrictSubsets(B), SUBSET B)
      BY <1>3, <2>1, FS_StrictSubsetOrderingWellFounded, FS_FiniteSubsetsOfFinite
    <3> QED
      BY <3>1 DEF IsWellFoundedOn, Counts!IsWellFoundedOn
  <2>3. Counts!Growing(B, grow)
    BY <1>3, <1>4 DEF Grow, Counts!Growing
  <2>4. Counts!Limit(grow) = Limit(grow)
    BY DEF Counts!Limit, Limit
  <2>5. PICK X : X = {Entry}
    OBVIOUS
  <2>6. X \in SUBSET B /\ X \ {} = X
    BY <1>3, <2>5 DEF Renamable
  <2>7. Limit(grow)[X] = Counts!Hull(B, grow, X)
    BY <2>2, <2>3, <2>4, <2>6, Counts!LimitIsHull
  <2> QED
    BY <1>3, <2>5, <2>6, <2>7 DEF Reachable, ReachFrom
<1>6. renamed \in SUBSET B /\ grow[renamed] = renamed /\ {Entry} \subseteq renamed
  <2>1. \A b \in renamed : ToSet(ir.succ[b]) \subseteq renamed
    BY <1>2 DEF Returned
  <2> QED
    BY <1>1, <1>3, <2>1 DEF Grow
<1>7. Reachable(ir) \subseteq renamed
  BY <1>5, <1>6 DEF Counts!Hull
<1>8. ASSUME NEW b \in Reachable(ir), NEW k \in DOMAIN Instrs(b)
      PROVE  /\ Instrs(b)[k].op = "load" =>
                  Instrs(b)[k].id \in DOMAIN repl /\ repl[Instrs(b)[k].id][1] # "load"
             /\ Instrs(b)[k].op = "store" => Instrs(b)[k].id \in erased
  <2>1. b \in renamed /\ k \in DOMAIN ir.code[b] /\ Instrs(b)[k] = ir.code[b][k]
    BY <1>7 DEF Instrs
  <2>2. ir.code[b][k].op = "load" => ir.code[b][k].id \in DOMAIN repl
    BY <2>1 DEF PromoteInv, WalkInv, LoadsGone
  <2>3. \A m \in DOMAIN repl : repl[m][1] # "load"
    BY DEF PromoteInv, CleanRepl
  <2>4. ir.code[b][k].op = "store" => ir.code[b][k].id \in erased
    BY <1>2, <2>1 DEF Returned
  <2> QED
    BY <2>1, <2>2, <2>3, <2>4
<1> QED
  BY <1>8 DEF FullyPromoted

-----------------------------------------------------------------------------
Build == INSTANCE LoweringProofs

-----------------------------------------------------------------------------
(***************************************************************************)
(* FrontEnd is Lowering and Build is LoweringProofs, which extends it: one *)
(* lemma per operator that both instances define says that they are the    *)
(* same, from the calls of IRBuilder up to the actions.                    *)
(***************************************************************************)

\* The builder calls.
LEMMA SameCalls ==
  /\ \A f, i : FrontEnd!Emit(f, i) = Build!Emit(f, i)
  /\ \A f, a : FrontEnd!EmitLoad(f, a) = Build!EmitLoad(f, a)
  /\ \A f, a, v : FrontEnd!EmitStore(f, a, v) = Build!EmitStore(f, a, v)
  /\ \A f, b, i : FrontEnd!AddInstrBegin(f, b, i) = Build!AddInstrBegin(f, b, i)
  /\ \A f, b, t : FrontEnd!AddEdge(f, b, t) = Build!AddEdge(f, b, t)
  /\ \A from : FrontEnd!CondPhi(from) = Build!CondPhi(from)
  /\ \A f, b : FrontEnd!SetInsert(f, b) = Build!SetInsert(f, b)
  /\ \A f : FrontEnd!NewBlock(f) = Build!NewBlock(f)
  /\ \A f : FrontEnd!LastBlock(f) = Build!LastBlock(f)
  /\ \A f, b : FrontEnd!Terminated(f, b) = Build!Terminated(f, b)
  /\ \A s : FrontEnd!Last(s) = Build!Last(s)
  /\ \A n : FrontEnd!Const(n) = Build!Const(n) /\ FrontEnd!Loaded(n) = Build!Loaded(n)
  /\ FrontEnd!Branch = Build!Branch /\ FrontEnd!Ret = Build!Ret
BY Zenon
DEF FrontEnd!Const, Build!Const, FrontEnd!Loaded, Build!Loaded, FrontEnd!Load, Build!Load,
    FrontEnd!Store, Build!Store, FrontEnd!CondPhi, Build!CondPhi, FrontEnd!Branch,
    Build!Branch, FrontEnd!Ret, Build!Ret, FrontEnd!NewBlock, Build!NewBlock,
    FrontEnd!LastBlock, Build!LastBlock, FrontEnd!Terminated, Build!Terminated,
    FrontEnd!SetInsert, Build!SetInsert, FrontEnd!Last, Build!Last, FrontEnd!Emit,
    Build!Emit, FrontEnd!EmitLoad, Build!EmitLoad, FrontEnd!EmitStore, Build!EmitStore,
    FrontEnd!AddInstrBegin, Build!AddInstrBegin, FrontEnd!AddEdge, Build!AddEdge

\* The branches.
LEMMA SameBranches ==
  /\ \A f, t : FrontEnd!Br(f, t) = Build!Br(f, t)
  /\ \A f, t, e : FrontEnd!CondBr(f, t, e) = Build!CondBr(f, t, e)
  /\ \A f, from, c : FrontEnd!Join(f, from, c) = Build!Join(f, from, c)
  /\ \A f : FrontEnd!StartBlock(f) = Build!StartBlock(f)
<1>1. /\ \A f, t : FrontEnd!Br(f, t) = Build!Br(f, t)
      /\ \A f, t, e : FrontEnd!CondBr(f, t, e) = Build!CondBr(f, t, e)
  BY SameCalls DEF FrontEnd!Br, Build!Br, FrontEnd!CondBr, Build!CondBr
<1>2. \A f : FrontEnd!StartBlock(f) = Build!StartBlock(f)
  BY SameCalls DEF FrontEnd!StartBlock, Build!StartBlock
<1>3. \A f, from, c : FrontEnd!Join(f, from, c) = Build!Join(f, from, c)
  BY SameCalls, <1>1 DEF FrontEnd!Join, Build!Join
<1> QED
  BY <1>1, <1>2, <1>3

\* The scopes and the operands of expressions.
LEMMA SameScopes ==
  /\ FrontEnd!NoBindings = Build!NoBindings
  /\ \A s : FrontEnd!Enter(s) = Build!Enter(s) /\ FrontEnd!Exit(s) = Build!Exit(s)
  /\ \A s, n, a : FrontEnd!Push(s, n, a) = Build!Push(s, n, a)
  /\ \A s, n : FrontEnd!Find(s, n) = Build!Find(s, n)
  /\ \A s : FrontEnd!Visible(s) = Build!Visible(s) /\ FrontEnd!Exprs(s) = Build!Exprs(s)
  /\ \A f, e : FrontEnd!ValueOf(f, e) = Build!ValueOf(f, e)
  /\ \A f, s, e : FrontEnd!Eval(f, s, e) = Build!Eval(f, s, e)
<1>1. /\ FrontEnd!NoBindings = Build!NoBindings
      /\ \A s : FrontEnd!Enter(s) = Build!Enter(s) /\ FrontEnd!Exit(s) = Build!Exit(s)
      /\ \A s, n, a : FrontEnd!Push(s, n, a) = Build!Push(s, n, a)
      /\ \A s, n : FrontEnd!Find(s, n) = Build!Find(s, n)
      /\ \A s : FrontEnd!Visible(s) = Build!Visible(s) /\ FrontEnd!Exprs(s) = Build!Exprs(s)
      /\ \A f, e : FrontEnd!ValueOf(f, e) = Build!ValueOf(f, e)
  BY Zenon
  DEF FrontEnd!NoBindings, Build!NoBindings, FrontEnd!Enter, Build!Enter, FrontEnd!Exit,
      Build!Exit, FrontEnd!Front, Build!Front, FrontEnd!Push, Build!Push, FrontEnd!Find,
      Build!Find, FrontEnd!Max, Build!Max, FrontEnd!Visible, Build!Visible, FrontEnd!Exprs,
      Build!Exprs, FrontEnd!ValueOf, Build!ValueOf, FrontEnd!Const, Build!Const,
      FrontEnd!Loaded, Build!Loaded
<1>2. \A f, s, e : FrontEnd!Eval(f, s, e) = Build!Eval(f, s, e)
  BY <1>1, SameCalls DEF FrontEnd!Eval, Build!Eval
<1> QED
  BY <1>1, <1>2

\* The operands of a && chain: the same function is chosen, as the same values satisfy
\* its definition.
LEMMA SameAndOperands ==
  ASSUME NEW f, NEW s, NEW e, NEW n
  PROVE  FrontEnd!AndOperands(f, s, e, n) = Build!AndOperands(f, s, e, n)
<1> DEFINE seq == [i \in 1 .. n - 1 |-> i]
           A(g, k) == FrontEnd!Eval(FrontEnd!StartBlock(g), s, e)
           B(g, k) == Build!Eval(Build!StartBlock(g), s, e)
           F(a) == [k \in 0 .. Len(seq) |-> IF k = 0 THEN FrontEnd!Eval(f, s, e)
                                            ELSE CHOOSE r \in {A(g, k) : g \in {a[k - 1]}} : TRUE]
           G(a) == [k \in 0 .. Len(seq) |-> IF k = 0 THEN Build!Eval(f, s, e)
                                            ELSE CHOOSE r \in {B(g, k) : g \in {a[k - 1]}} : TRUE]
<1>1. \A k, g : A(g, k) = B(g, k)
  BY SameBranches, SameScopes
<1>2. (CHOOSE a : a = F(a)) = (CHOOSE a : a = G(a))
  <2> HIDE DEF A, B
  <2>1. \A k, x : {A(g, k) : g \in {x}} = {B(g, k) : g \in {x}}
    BY <1>1
  <2>2. \A a : F(a) = G(a)
    BY <2>1, SameBranches, SameScopes, Zenon
  <2> HIDE DEF F, G
  <2> QED
    BY <2>2, Zenon
<1>3. FrontEnd!AndOperands(f, s, e, n) = (CHOOSE a : a = F(a))[Len(seq)]
  BY Zenon DEF FrontEnd!AndOperands, FrontEnd!RunThrough
<1>4. Build!AndOperands(f, s, e, n) = (CHOOSE a : a = G(a))[Len(seq)]
  BY Zenon DEF Build!AndOperands, Build!RunThrough
<1> HIDE DEF F, G, seq
<1> QED
  BY <1>2, <1>3, <1>4, SameBranches, SameScopes, Zenon

\* The branches of a && chain.
LEMMA SameJoinAnd ==
  ASSUME NEW f, NEW v, NEW c
  PROVE  FrontEnd!JoinAnd(f, v, c) = Build!JoinAnd(f, v, c)
<1> DEFINE seq == [i \in 1 .. Len(v) - 1 |-> i]
           A(g, k) == FrontEnd!CondBr(FrontEnd!SetInsert(g, v[seq[k]]), v[seq[k] + 1], c)
           B(g, k) == Build!CondBr(Build!SetInsert(g, v[seq[k]]), v[seq[k] + 1], c)
           F(a) == [k \in 0 .. Len(seq) |-> IF k = 0 THEN FrontEnd!NewBlock(f)
                                            ELSE CHOOSE r \in {A(g, k) : g \in {a[k - 1]}} : TRUE]
           G(a) == [k \in 0 .. Len(seq) |-> IF k = 0 THEN Build!NewBlock(f)
                                            ELSE CHOOSE r \in {B(g, k) : g \in {a[k - 1]}} : TRUE]
<1>1. \A k, g : A(g, k) = B(g, k)
  BY SameCalls, SameBranches
<1>2. (CHOOSE a : a = F(a)) = (CHOOSE a : a = G(a))
  <2> HIDE DEF A, B
  <2>1. \A k, x : {A(g, k) : g \in {x}} = {B(g, k) : g \in {x}}
    BY <1>1
  <2>2. \A a : F(a) = G(a)
    BY <2>1, SameCalls, SameBranches, Zenon
  <2> HIDE DEF F, G
  <2> QED
    BY <2>2, Zenon
<1>3. FrontEnd!JoinAnd(f, v, c) = FrontEnd!Join((CHOOSE a : a = F(a))[Len(seq)], v, c)
  BY Zenon DEF FrontEnd!JoinAnd, FrontEnd!RunThrough
<1>4. Build!JoinAnd(f, v, c) = Build!Join((CHOOSE a : a = G(a))[Len(seq)], v, c)
  BY Zenon DEF Build!JoinAnd, Build!RunThrough
<1> HIDE DEF F, G, seq
<1> QED
  BY <1>2, <1>3, <1>4, SameCalls, SameBranches, Zenon

\* A && chain.
LEMMA SameLowerAnd ==
  \A f, s, e, n : FrontEnd!LowerAnd(f, s, e, n) = Build!LowerAnd(f, s, e, n)
BY SameCalls, SameScopes, SameAndOperands, SameJoinAnd, Zenon DEF FrontEnd!LowerAnd, Build!LowerAnd

\* What is kept of an operand of ||.
LEMMA SameEvaluated ==
  \A g, x, h : FrontEnd!Evaluated(g, x, h) = Build!Evaluated(g, x, h)
BY Zenon DEF FrontEnd!Evaluated, Build!Evaluated

\* The operands of a || chain.
LEMMA SameOrOperands ==
  ASSUME NEW f, NEW s, NEW e, NEW shape
  PROVE  FrontEnd!OrOperands(f, s, e, shape) = Build!OrOperands(f, s, e, shape)
<1> DEFINE seq == [i \in DOMAIN shape |-> i]
           A(g, k) == FrontEnd!Evaluated(g, IF seq[k] = 1 THEN f.cur ELSE FrontEnd!LastBlock(g.body) + 1,
                                         FrontEnd!LowerAnd(IF seq[k] = 1 THEN f ELSE FrontEnd!StartBlock(g.body),
                                                        s, e, shape[seq[k]]))
           B(g, k) == Build!Evaluated(g, IF seq[k] = 1 THEN f.cur ELSE Build!LastBlock(g.body) + 1,
                                         Build!LowerAnd(IF seq[k] = 1 THEN f ELSE Build!StartBlock(g.body),
                                                        s, e, shape[seq[k]]))
           F(a) == [k \in 0 .. Len(seq) |-> IF k = 0 THEN [body |-> f, start |-> << >>, end |-> << >>]
                                            ELSE CHOOSE r \in {A(g, k) : g \in {a[k - 1]}} : TRUE]
           G(a) == [k \in 0 .. Len(seq) |-> IF k = 0 THEN [body |-> f, start |-> << >>, end |-> << >>]
                                            ELSE CHOOSE r \in {B(g, k) : g \in {a[k - 1]}} : TRUE]
<1>1. \A k, g : A(g, k) = B(g, k)
  BY SameCalls, SameBranches, SameEvaluated, SameLowerAnd
<1>2. (CHOOSE a : a = F(a)) = (CHOOSE a : a = G(a))
  <2> HIDE DEF A, B
  <2>1. \A k, x : {A(g, k) : g \in {x}} = {B(g, k) : g \in {x}}
    BY <1>1
  <2>2. \A a : F(a) = G(a)
    BY <2>1, SameCalls, SameBranches, SameEvaluated, SameLowerAnd, Zenon
  <2> HIDE DEF F, G
  <2> QED
    BY <2>2, Zenon
<1>3. FrontEnd!OrOperands(f, s, e, shape) = (CHOOSE a : a = F(a))[Len(seq)]
  BY Zenon DEF FrontEnd!OrOperands, FrontEnd!RunThrough
<1>4. Build!OrOperands(f, s, e, shape) = (CHOOSE a : a = G(a))[Len(seq)]
  BY Zenon DEF Build!OrOperands, Build!RunThrough
<1> HIDE DEF F, G, seq
<1> QED
  BY <1>2, <1>3, <1>4, SameCalls, SameBranches, SameEvaluated, SameLowerAnd, Zenon

\* The branches of a || chain.
LEMMA SameJoinOr ==
  ASSUME NEW all, NEW c
  PROVE  FrontEnd!JoinOr(all, c) = Build!JoinOr(all, c)
<1> DEFINE seq == [i \in 1 .. Len(all.end) - 1 |-> i]
           A(g, k) == FrontEnd!CondBr(FrontEnd!SetInsert(g, all.end[seq[k]]), c, all.start[seq[k] + 1])
           B(g, k) == Build!CondBr(Build!SetInsert(g, all.end[seq[k]]), c, all.start[seq[k] + 1])
           F(a) == [k \in 0 .. Len(seq) |-> IF k = 0 THEN FrontEnd!NewBlock(all.body)
                                            ELSE CHOOSE r \in {A(g, k) : g \in {a[k - 1]}} : TRUE]
           G(a) == [k \in 0 .. Len(seq) |-> IF k = 0 THEN Build!NewBlock(all.body)
                                            ELSE CHOOSE r \in {B(g, k) : g \in {a[k - 1]}} : TRUE]
<1>1. \A k, g : A(g, k) = B(g, k)
  BY SameCalls, SameBranches
<1>2. (CHOOSE a : a = F(a)) = (CHOOSE a : a = G(a))
  <2> HIDE DEF A, B
  <2>1. \A k, x : {A(g, k) : g \in {x}} = {B(g, k) : g \in {x}}
    BY <1>1
  <2>2. \A a : F(a) = G(a)
    BY <2>1, SameCalls, SameBranches, Zenon
  <2> HIDE DEF F, G
  <2> QED
    BY <2>2, Zenon
<1>3. FrontEnd!JoinOr(all, c) = FrontEnd!Join((CHOOSE a : a = F(a))[Len(seq)], all.end, c)
  BY Zenon DEF FrontEnd!JoinOr, FrontEnd!RunThrough
<1>4. Build!JoinOr(all, c) = Build!Join((CHOOSE a : a = G(a))[Len(seq)], all.end, c)
  BY Zenon DEF Build!JoinOr, Build!RunThrough
<1> HIDE DEF F, G, seq
<1> QED
  BY <1>2, <1>3, <1>4, SameCalls, SameBranches, Zenon

\* A condition.
LEMMA SameLowerOr ==
  \A f, s, e, shape : FrontEnd!LowerOr(f, s, e, shape) = Build!LowerOr(f, s, e, shape)
BY SameCalls, SameLowerAnd, SameOrOperands, SameJoinOr DEF FrontEnd!LowerOr, Build!LowerOr

\* What the visits share.
LEMMA SameVisits ==
  /\ \A n : FrontEnd!VisitCounting(n) <=> Build!VisitCounting(n)
  /\ FrontEnd!VisitNext <=> Build!VisitNext
  /\ \A c : FrontEnd!VisitCond(c) <=> Build!VisitCond(c)
  /\ \A kind : FrontEnd!Returning(kind) <=> Build!Returning(kind)
  /\ \A f, t : FrontEnd!BrUnlessTerminated(f, t) = Build!BrUnlessTerminated(f, t)
  /\ \A s : FrontEnd!Front(s) = Build!Front(s)
<1>1. /\ \A n : FrontEnd!VisitCounting(n) <=> Build!VisitCounting(n)
      /\ FrontEnd!VisitNext <=> Build!VisitNext
      /\ \A c : FrontEnd!VisitCond(c) <=> Build!VisitCond(c)
      /\ \A kind : FrontEnd!Returning(kind) <=> Build!Returning(kind)
      /\ \A s : FrontEnd!Front(s) = Build!Front(s)
  BY Zenon
  DEF FrontEnd!VisitCounting, Build!VisitCounting, FrontEnd!VisitNext, Build!VisitNext,
      FrontEnd!VisitCond, Build!VisitCond, FrontEnd!Returning, Build!Returning,
      FrontEnd!Front, Build!Front, FrontEnd!Last, Build!Last, FrontEnd!Terminated,
      Build!Terminated, FrontEnd!Quantify, Build!Quantify, FrontEnd!Cardinality,
      Build!Cardinality, FrontEnd!IsFiniteSet, Build!IsFiniteSet
<1>2. \A f, t : FrontEnd!BrUnlessTerminated(f, t) = Build!BrUnlessTerminated(f, t)
  BY SameCalls, SameBranches DEF FrontEnd!BrUnlessTerminated, Build!BrUnlessTerminated
<1> QED
  BY <1>1, <1>2

\* The actions.
LEMMA SameActions ==
  /\ \A n, e : FrontEnd!Decl(n, e) => Build!Decl(n, e)
  /\ \A n, e : FrontEnd!Assign(n, e) => Build!Assign(n, e)
  /\ \A e : FrontEnd!Return(e) => Build!Return(e)
  /\ FrontEnd!Break => Build!Break
  /\ FrontEnd!Continue => Build!Continue
  /\ FrontEnd!Block => Build!Block
  /\ \A c, e, hasElse : FrontEnd!If(c, e, hasElse) => Build!If(c, e, hasElse)
  /\ \A c, e : FrontEnd!While(c, e) => Build!While(c, e)
  /\ FrontEnd!EndBlock => Build!EndBlock
  /\ FrontEnd!EndThen => Build!EndThen
  /\ FrontEnd!EndElse => Build!EndElse
  /\ FrontEnd!EndLoop => Build!EndLoop
  /\ FrontEnd!EndFunc => Build!EndFunc
<1>1. \A n, e : FrontEnd!Decl(n, e) => Build!Decl(n, e)
  BY SameCalls, SameBranches, SameScopes, SameVisits DEF FrontEnd!Decl, Build!Decl
<1>2. \A n, e : FrontEnd!Assign(n, e) => Build!Assign(n, e)
  BY SameCalls, SameBranches, SameScopes, SameVisits DEF FrontEnd!Assign, Build!Assign
<1>3. \A e : FrontEnd!Return(e) => Build!Return(e)
  BY SameCalls, SameBranches, SameScopes, SameVisits DEF FrontEnd!Return, Build!Return
<1>4. FrontEnd!Break => Build!Break
  BY SameCalls, SameBranches, SameScopes, SameVisits DEF FrontEnd!Break, Build!Break
<1>5. FrontEnd!Continue => Build!Continue
  BY SameCalls, SameBranches, SameScopes, SameVisits DEF FrontEnd!Continue, Build!Continue
<1>6. FrontEnd!Block => Build!Block
  BY SameCalls, SameBranches, SameScopes, SameVisits DEF FrontEnd!Block, Build!Block
<1>7. \A c, e, hasElse : FrontEnd!If(c, e, hasElse) => Build!If(c, e, hasElse)
  BY SameCalls, SameBranches, SameScopes, SameVisits, SameLowerOr DEF FrontEnd!If, Build!If
<1>8. \A c, e : FrontEnd!While(c, e) => Build!While(c, e)
  BY SameCalls, SameBranches, SameScopes, SameVisits, SameLowerOr DEF FrontEnd!While, Build!While
<1>9. FrontEnd!EndBlock => Build!EndBlock
  BY SameCalls, SameBranches, SameScopes, SameVisits DEF FrontEnd!EndBlock, Build!EndBlock
<1>10. FrontEnd!EndThen => Build!EndThen
  BY SameCalls, SameBranches, SameScopes, SameVisits DEF FrontEnd!EndThen, Build!EndThen
<1>11. FrontEnd!EndElse => Build!EndElse
  BY SameCalls, SameBranches, SameScopes, SameVisits DEF FrontEnd!EndElse, Build!EndElse
<1>12. FrontEnd!EndLoop => Build!EndLoop
  BY SameCalls, SameBranches, SameScopes, SameVisits DEF FrontEnd!EndLoop, Build!EndLoop
<1>13. FrontEnd!EndFunc => Build!EndFunc
  BY SameCalls, SameBranches, SameScopes, SameVisits DEF FrontEnd!EndFunc, Build!EndFunc
<1> QED
  BY <1>1, <1>2, <1>3, <1>4, <1>5, <1>6, <1>7, <1>8, <1>9, <1>10, <1>11, <1>12, <1>13

\* A visit.
LEMMA SameVisit ==
  FrontEnd!Visit => Build!Visit
BY SameActions, SameScopes DEF FrontEnd!Visit, Build!Visit

\* The initial states.
LEMMA SameInit ==
  FrontEnd!Init => Build!Init
BY Zenon
DEF FrontEnd!Init, Build!Init, FrontEnd!SetToSeq, Build!SetToSeq, FrontEnd!IsInjective,
    Build!IsInjective, FrontEnd!Enter, Build!Enter, FrontEnd!Push, Build!Push,
    FrontEnd!NoBindings, Build!NoBindings, FrontEnd!EmptyBody, Build!EmptyBody,
    FrontEnd!Entry, Build!Entry, FrontEnd!NewBlock, Build!NewBlock, FrontEnd!SetInsert,
    Build!SetInsert, FrontEnd!EmitStore, Build!EmitStore, FrontEnd!Emit, Build!Emit,
    FrontEnd!Store, Build!Store, FrontEnd!Const, Build!Const, FrontEnd!Terminated,
    Build!Terminated, FrontEnd!Last, Build!Last, FrontEnd!RunThrough, Build!RunThrough,
    FrontEnd!Cardinality, Build!Cardinality, FrontEnd!IsFiniteSet, Build!IsFiniteSet,
    FrontEnd!Range, Build!Range
-----------------------------------------------------------------------------
(***************************************************************************)
(* From the front end to Dominators.                                       *)
(***************************************************************************)
Flow == INSTANCE DominatorsProofs

\* The bounds of the pipeline are those the proofs of the front end assume.
LEMMA SourceHolds ==
  Build!NamesAssumption /\ Build!CondsAssumption /\ Build!MaxStmtsAssumption
BY SourceAssumption
DEF Build!NamesAssumption, Build!CondsAssumption, Build!MaxStmtsAssumption,
    Build!IsFiniteSet, IsFiniteSet

\* The steps of Analysis, with which the pipeline runs Dominators, are those of Flow.
LEMMA SameAnalyse == Analysis!Analyse => Flow!Analyse
BY Zenon
DEF Analysis!Analyse, Flow!Analyse, Analysis!Skip, Analysis!Begin, Analysis!VisitBlock,
    Analysis!NextRound, Analysis!DomDone, Analysis!Found, Analysis!Search,
    Analysis!NotFound, Analysis!IdomDone, Analysis!Climb, Analysis!NextEdge,
    Analysis!NextSource, Analysis!FrontierDone, Flow!Skip, Flow!Begin, Flow!VisitBlock,
    Flow!NextRound, Flow!DomDone, Flow!Found, Flow!Search, Flow!NotFound, Flow!IdomDone,
    Flow!Climb, Flow!NextEdge, Flow!NextSource, Flow!FrontierDone, Analysis!Blocks,
    Flow!Blocks, Analysis!NewDom, Flow!NewDom, Analysis!Preds, Flow!Preds, Analysis!ToSet,
    Flow!ToSet, Analysis!SearchFrom, Flow!SearchFrom, Analysis!OnEdge, Flow!OnEdge,
    Analysis!Climbing, Flow!Climbing, Analysis!SearchOn, Flow!SearchOn, Analysis!Unseen,
    Flow!Unseen, Analysis!RunThrough, Flow!RunThrough, Analysis!NoBlock, Flow!NoBlock,
    Analysis!Entry, Flow!Entry, Analysis!Cardinality, Flow!Cardinality,
    Analysis!IsFiniteSet, Flow!IsFiniteSet

\* What Dominators relies on, and the front end provides: the two edge lists mirror each
\* other, nothing leads to the entry, and no block branches to itself.
LEMMA Guarantee ==
  ASSUME Build!Body(ir)
  PROVE  Flow!IsBody(ir) /\ Flow!Mirrored /\ Flow!NoSelfLoop
<1>0. Build!Shape(ir) /\ Build!Edges(ir)
  BY DEF Build!Body
<1>1. PICK n : n = Build!LastBlock(ir)
  OBVIOUS
<1>2. /\ n \in Nat /\ Build!Blocks(ir) = 1 .. n /\ n = Len(ir.code)
      /\ ir.succ \in [1 .. n -> Seq(Nat)] /\ ir.pre \in [1 .. n -> Seq(Nat)]
      /\ ir.cur \in 1 .. n /\ Flow!Blocks(ir) = 1 .. n
  <2>1. Build!Blocks(ir) = Flow!Blocks(ir)
    BY DEF Build!Blocks, Flow!Blocks
  <2>2. n = Len(ir.code)
    BY <1>1 DEF Build!LastBlock
  <2>3. /\ Build!LastBlock(ir) \in Nat /\ Build!Blocks(ir) = 1 .. Build!LastBlock(ir)
        /\ ir.succ \in [Build!Blocks(ir) -> Seq(Nat)] /\ ir.pre \in [Build!Blocks(ir) -> Seq(Nat)]
        /\ ir.cur \in Build!Blocks(ir)
    BY <1>0, SourceHolds, Build!BlocksAre
  <2> QED
    BY <1>1, <2>1, <2>2, <2>3, Zenon
<1>3. \A s : Build!ToSet(s) = Flow!ToSet(s)
  BY DEF Build!ToSet, Flow!ToSet
<1>4. \A b \in 1 .. n : Flow!ToSet(ir.succ[b]) \subseteq (1 .. n) \ {b}
                           /\ Flow!ToSet(ir.pre[b]) \subseteq 1 .. n
  BY <1>0, <1>2, <1>3, Zenon DEF Build!Edges
<1>5. \A s \in Seq(Nat) : Flow!ToSet(s) \subseteq 1 .. n => s \in Seq(1 .. n)
  <2>1. PICK B : B = 1 .. n
    OBVIOUS
  <2>2. ASSUME NEW s \in Seq(Nat), Flow!ToSet(s) \subseteq B PROVE s \in Seq(B)
    <3>1. \A i \in 1 .. Len(s) : s[i] \in B
      BY <2>2 DEF Flow!ToSet
    <3> QED
      BY <2>2, <3>1
  <2> QED
    BY <2>1, <2>2
<1>6. ir.succ \in [1 .. n -> Seq(1 .. n)] /\ ir.pre \in [1 .. n -> Seq(1 .. n)]
  BY <1>2, <1>4, <1>5, Zenon
<1>7. ir.pre[Flow!Entry] = << >>
  BY <1>0 DEF Build!Edges, Build!Entry, Flow!Entry
<1>8. Flow!IsBody(ir)
  BY <1>2, <1>6, <1>7 DEF Flow!IsBody
<1>9. \A b, t \in 1 .. n : t \in Flow!ToSet(ir.succ[b]) <=> b \in Flow!ToSet(ir.pre[t])
  BY <1>0, <1>2, <1>3, Zenon DEF Build!Edges
<1>10. Flow!Mirrored /\ Flow!NoSelfLoop
  BY <1>2, <1>4, <1>9 DEF Flow!Mirrored, Flow!NoSelfLoop, Flow!Preds
<1> QED
  BY <1>8, <1>10

\* Before Dominators starts, what its proofs need holds of any body of the front end.
LEMMA Fresh ==
  ASSUME Build!Body(ir), Flow!Idle
  PROVE  Flow!IdomInv /\ Flow!FrontierInv
<1>1. Flow!Init /\ Flow!NoSelfLoop
  BY Guarantee DEF Flow!Init
<1>2. Flow!FrontierInv
  BY DEF Flow!Idle, Flow!FrontierInv, Flow!Analysed
<1> QED
  BY <1>1, <1>2, Flow!InitIdomInv

\* A visit needs an open statement.
LEMMA VisitingIs ==
  Build!Visit => frames # << >>
BY Zenon DEF Build!Visit, Build!Decl, Build!Assign, Build!Return, Build!Break, Build!Continue,
       Build!Block, Build!If, Build!While, Build!EndBlock, Build!EndThen, Build!EndElse,
       Build!EndLoop, Build!EndFunc, Build!VisitNext, Build!VisitCond, Build!VisitCounting,
       Build!Returning
-----------------------------------------------------------------------------
(***************************************************************************)
(* The invariant of the pipeline.                                          *)
(***************************************************************************)
\* the body is one of the front end, Dominators waits for it, and has done no more than
\* its own proofs say
PipelineInv ==
  /\ Build!IInv
  /\ ~FrontEnd!Done => Flow!Idle
  /\ Flow!IdomInv /\ Flow!FrontierInv

\* It holds before the first visit.
LEMMA PipelineInitInv == PipelineInit => PipelineInv
<1> SUFFICES ASSUME PipelineInit PROVE PipelineInv
  OBVIOUS
<1>1. Build!IInv
  BY SourceHolds, SameInit, Build!InitHolds DEF PipelineInit
<1>2. Flow!Idle
  BY DEF PipelineInit, Flow!Idle, Analysis!Idle, Flow!NoBlock, Analysis!NoBlock
<1> QED
  BY <1>1, <1>2, Fresh DEF PipelineInv, Build!IInv

\* A step of the front end leaves Dominators idle, in front of another body.
LEMMA LowerKeeps ==
  ASSUME PipelineInv, Lower
  PROVE  PipelineInv'
<1>1. Build!Visit /\ UNCHANGED <<frontier, domVars, mpc>>
  BY SameVisit DEF Lower, m2rVars
<1>2. Build!IInv'
  BY SourceHolds, <1>1, Build!NextKeeps DEF Build!Next, PipelineInv
<1>3. Flow!Idle
  BY <1>1, VisitingIs DEF PipelineInv, FrontEnd!Done
<1>4. Flow!Idle'
  BY <1>1, <1>3 DEF Flow!Idle, domVars, Flow!NoBlock
<1>5. (Build!Body(ir) /\ Flow!Idle => Flow!IdomInv /\ Flow!FrontierInv)'
  BY Fresh, PTL
<1> QED
  BY <1>2, <1>4, <1>5 DEF PipelineInv, Build!IInv

\* Dominators only reads the body.
LEMMA DominatorsKeep ==
  ASSUME PipelineInv, RunDominators
  PROVE  PipelineInv'
<1>1. Flow!Analyse /\ UNCHANGED astVars /\ FrontEnd!Done
  BY SameAnalyse DEF RunDominators
<1>2. UNCHANGED Build!vars
  BY <1>1, Flow!BodyKept DEF Build!vars, astVars
<1>3. Build!IInv'
  BY SourceHolds, <1>2, Build!NextKeeps DEF PipelineInv
<1>4. FrontEnd!Done'
  BY <1>1 DEF FrontEnd!Done, astVars
<1>5. Flow!Mirrored
  BY Guarantee DEF PipelineInv, Build!IInv
<1> QED
  BY <1>1, <1>3, <1>4, <1>5, Flow!IdomKeeps, Flow!FrontierKeeps DEF PipelineInv

\* A step that leaves the body, the front end and Dominators as they are.
LEMMA RestKeeps ==
  ASSUME PipelineInv, UNCHANGED <<ir, frontier, astVars, domVars>>
  PROVE  PipelineInv'
<1>1. UNCHANGED Build!vars
  BY DEF Build!vars, astVars
<1>2. Build!IInv'
  BY SourceHolds, <1>1, Build!NextKeeps DEF PipelineInv
<1>3. UNCHANGED Flow!vars
  BY DEF Flow!vars, Flow!domVars, domVars
<1>4. Flow!Mirrored
  BY Guarantee DEF PipelineInv, Build!IInv
<1>5. Flow!IdomInv' /\ Flow!FrontierInv'
  BY <1>3, <1>4, Flow!IdomKeeps, Flow!FrontierKeeps DEF PipelineInv
<1>6. (~FrontEnd!Done => Flow!Idle)'
  BY DEF PipelineInv, FrontEnd!Done, Flow!Idle, astVars, domVars, Flow!NoBlock
<1> QED
  BY <1>2, <1>5, <1>6 DEF PipelineInv

\* Mem2Reg keeps its phis and replacements beside the body.
LEMMA Mem2RegReads ==
  RunMem2Reg => UNCHANGED <<ir, frontier, astVars, domVars>>
BY DEF RunMem2Reg, Promote, Begin, NextCandidate, PlacePhis, PhisDone, RenameEntry, Descend, Leave

\* The executions change nothing of what they execute.
LEMMA RunsOnly ==
  StartCompiled \/ JumpCompiled => UNCHANGED <<ir, frontier, astVars, domVars, m2rVars>>
BY Zenon DEF StartCompiled, JumpCompiled, Start, Jump, RunBlock, vars

\* Every step of the pipeline, and of the executions that follow it, keeps the invariant.
LEMMA PipelineKeeps == PipelineInv /\ [CopiesNext]_copyVars => PipelineInv'
<1> SUFFICES ASSUME PipelineInv, [CopiesNext]_copyVars PROVE PipelineInv'
  OBVIOUS
<1>1. CASE Lower
  BY <1>1, LowerKeeps
<1>2. CASE RunDominators
  BY <1>2, DominatorsKeep
<1>3. CASE RunMem2Reg
  BY <1>3, Mem2RegReads, RestKeeps
<1>4. CASE StartCompiled \/ JumpCompiled
  BY <1>4, RestKeeps, RunsOnly
<1>5. CASE Stopped \/ UNCHANGED copyVars
  BY <1>5, RestKeeps DEF Stopped, Finished, copyVars, allVars, vars
<1> QED
  BY <1>1, <1>2, <1>3, <1>4, <1>5 DEF CopiesNext, Compile

\* It holds throughout.
LEMMA CopiesInv == CopiesSpec => []PipelineInv
<1>1. CopiesInit => PipelineInv
  BY PipelineInitInv DEF CopiesInit
<1> QED
  BY <1>1, PipelineKeeps, PTL DEF CopiesSpec

\* What Flow promises is what Analysis promises.
LEMMA SameExact ==
  /\ Flow!DomExact => Analysis!DomExact
  /\ Flow!IdomExact => Analysis!IdomExact
  /\ Flow!FrontierExact => Analysis!FrontierExact
<1>1. /\ \A f : Analysis!Blocks(f) = Flow!Blocks(f)
      /\ \A s : Analysis!ToSet(s) = Flow!ToSet(s)
      /\ \A b : Analysis!Preds(b) = Flow!Preds(b)
      /\ Analysis!NoBlock = Flow!NoBlock
      /\ Analysis!Analysed <=> Flow!Analysed
      /\ Analysis!Roots = Flow!Roots
      /\ \A b : Analysis!StrictDom(b) = Flow!StrictDom(b)
  BY Zenon
  DEF Analysis!Blocks, Flow!Blocks, Analysis!ToSet, Flow!ToSet, Analysis!Preds, Flow!Preds,
      Analysis!NoBlock, Flow!NoBlock, Analysis!Analysed, Flow!Analysed,
      Analysis!Cardinality, Flow!Cardinality, Analysis!IsFiniteSet, Flow!IsFiniteSet,
      Analysis!Roots, Flow!Roots, Analysis!StrictDom, Flow!StrictDom
<1>2. \A f, S, A : Analysis!ReachFrom(f, S, A) = Flow!ReachFrom(f, S, A)
  <2>1. \A f, A : Analysis!Grow(f, A) = Flow!Grow(f, A)
    BY Zenon DEF Analysis!Grow, Flow!Grow, Analysis!Blocks, Flow!Blocks,
                 Analysis!ToSet, Flow!ToSet
  <2>2. \A grow : Analysis!Limit(grow) = Flow!Limit(grow)
    BY Zenon DEF Analysis!Limit, Flow!Limit
  <2> QED
    BY <2>1, <2>2, Zenon DEF Analysis!ReachFrom, Flow!ReachFrom
<1>3. \A d : Analysis!Undominated(d) = Flow!Undominated(d)
  BY <1>1, <1>2 DEF Analysis!Undominated, Flow!Undominated
<1>4. Flow!DomExact => Analysis!DomExact
  BY <1>1, <1>3 DEF Analysis!DomExact, Flow!DomExact
<1>5. Flow!IdomExact => Analysis!IdomExact
  BY <1>1 DEF Analysis!IdomExact, Flow!IdomExact
<1>6. \A x : Analysis!TextbookFrontier(x) = Flow!TextbookFrontier(x)
  BY <1>1 DEF Analysis!TextbookFrontier, Flow!TextbookFrontier
<1>7. Flow!FrontierExact => Analysis!FrontierExact
  BY <1>1, <1>6 DEF Analysis!FrontierExact, Flow!FrontierExact
<1> QED
  BY <1>4, <1>5, <1>7

-----------------------------------------------------------------------------
\* Of every function the front end builds, create_dom ends with exactly the blocks in dom_
\* that every path to it from a block without predecessors goes through, and they stay
\* there while create_idom and create_dominance_frontier read them.
THEOREM DomExactHolds == CopiesSpec => []DomExact
<1>1. PipelineInv => DomExact
  BY Guarantee, SameExact, Flow!InvDomExact DEF PipelineInv, Build!IInv, Flow!IdomInv, DomExact
<1> QED
  BY <1>1, CopiesInv, PTL

\* create_idom, a breadth-first search over predecessors, finds the closest strict
\* dominator of every block of every function the front end builds.
THEOREM IdomExactHolds == CopiesSpec => []IdomExact
<1>1. PipelineInv => IdomExact
  <2>1. Flow!IdomInv => Flow!IdomExact
    BY DEF Flow!IdomInv, Flow!IdomsInv, Flow!IdomExact, Flow!IdomOf, Flow!Analysed
  <2> QED
    BY <2>1, SameExact DEF PipelineInv, IdomExact
<1> QED
  BY <1>1, CopiesInv, PTL

\* The frontiers on which Mem2Reg places phis are the textbook ones, but for a loop header
\* not being in its own, for every function the front end builds.
THEOREM FrontierExactHolds == CopiesSpec => []FrontierExact
<1>1. PipelineInv => FrontierExact
  BY Guarantee, SameExact, Flow!InvFrontierExact DEF PipelineInv, Build!IInv, FrontierExact
<1> QED
  BY <1>1, CopiesInv, PTL
-----------------------------------------------------------------------------
(***************************************************************************)
(* From the front end to Mem2Reg.                                          *)
(***************************************************************************)
\* What rename relies on, and the front end provides.
LEMMA RenamableBody ==
  ASSUME Build!Body(ir)
  PROVE  Renamable(ir)
<1>1. Build!Shape(ir) /\ Build!LoadsOnce(ir) /\ Flow!IsBody(ir)
  BY Guarantee DEF Build!Body
<1>2. Entry \in Blocks(ir) /\ ir.succ \in [Blocks(ir) -> Seq(Blocks(ir))]
  BY <1>1 DEF Flow!IsBody, Flow!Blocks, Blocks, Entry
<1>3. PICK S : ir.code \in Seq(Seq(S))
  BY <1>1 DEF Build!Shape, Build!Bodies
<1>4. Build!Blocks(ir) = Blocks(ir)
  BY DEF Blocks, Build!Blocks
<1>5. ASSUME NEW b \in Blocks(ir) PROVE IsSeq(ir.code[b]) /\ OwnLoads(ir.code[b])
  <2>1. PICK code : code = ir.code[b]
    OBVIOUS
  <2>2. IsSeq(code)
    BY <1>3, <2>1 DEF Blocks, IsSeq
  <2>3. \A k \in DOMAIN code : code[k].op = "store" => Follows(code, k, code[k].val)
    BY <1>1, <1>4, <2>1 DEF Build!LoadsOnce, Build!Follows, Follows
  <2>4. \A k, j \in DOMAIN code :
          code[k].op = "load" /\ code[j].op = "load" /\ code[k].id = code[j].id => k = j
    BY <1>1, <1>4, <2>1 DEF Build!LoadsOnce
  <2> QED
    BY <2>1, <2>2, <2>3, <2>4 DEF OwnLoads
<1>6. \A b, c \in Blocks(ir) : \A k \in DOMAIN ir.code[b], j \in DOMAIN ir.code[c] :
        ir.code[b][k].op = "load" /\ ir.code[c][j].op = "load"
          /\ ir.code[b][k].id = ir.code[c][j].id => b = c
  BY <1>1, <1>4 DEF Build!LoadsOnce
<1> QED
  BY <1>2, <1>5, <1>6 DEF Renamable

\* Mem2Reg waits for the front end, and its walk is as RenInv says.
Mem2RegInv == RenInv /\ (mpc # "idle" => FrontEnd!Done)

\* A step of the other parts.
LEMMA Mem2RegWaits ==
  ASSUME PipelineInv, Mem2RegInv, [CopiesNext]_copyVars, ~RunMem2Reg
  PROVE  Mem2RegInv'
<1>1. CASE Lower
  <2>1. Build!Visit /\ UNCHANGED m2rVars
    BY <1>1, SameVisit DEF Lower
  <2>2. mpc = "idle" /\ mpc' = "idle"
    BY <2>1, VisitingIs DEF Mem2RegInv, FrontEnd!Done, m2rVars
  <2>3. calls' = << >> /\ renamed' = {} /\ valStack' = NoPhi
    BY <2>1, <2>2 DEF Mem2RegInv, RenInv, m2rVars
  <2> QED
    BY <2>2, <2>3, RenEarly DEF Mem2RegInv
<1>2. CASE UNCHANGED <<ir, astVars, m2rVars>>
  <2>1. RenInv'
    BY <1>2, RenSame DEF Mem2RegInv, m2rVars
  <2> QED
    BY <1>2, <2>1 DEF Mem2RegInv, FrontEnd!Done, astVars, m2rVars
<1>3. CASE RunDominators
  <2>1. Flow!Analyse /\ UNCHANGED <<m2rVars, astVars>>
    BY <1>3, SameAnalyse DEF RunDominators
  <2> QED
    BY <1>2, <2>1, Flow!BodyKept
<1>4. CASE StartCompiled \/ JumpCompiled
  BY <1>2, <1>4, RunsOnly
<1>5. CASE Stopped \/ UNCHANGED copyVars
  BY <1>2, <1>5 DEF Stopped, Finished, copyVars, allVars, vars
<1> QED
  BY <1>1, <1>3, <1>4, <1>5 DEF CopiesNext, Compile

\* A step of Mem2Reg.
LEMMA Mem2RegWalks ==
  ASSUME PipelineInv, Mem2RegInv, RunMem2Reg
  PROVE  Mem2RegInv'
<1>1. Promote /\ UNCHANGED astVars /\ FrontEnd!Done
  BY DEF RunMem2Reg, PipelineInv, Flow!Idle
<1>2. Renamable(ir)
  BY RenamableBody DEF PipelineInv, Build!IInv
<1>3. RenInv'
  BY <1>1, <1>2, PromoteKeeps DEF Mem2RegInv
<1> QED
  BY <1>1, <1>3 DEF Mem2RegInv, FrontEnd!Done, astVars

\* It holds throughout.
LEMMA Mem2RegInvHolds == CopiesSpec => []Mem2RegInv
<1>1. CopiesInit => Mem2RegInv
  BY RenInit DEF CopiesInit, PipelineInit, Mem2RegInv, Idle
<1>2. PipelineInv /\ Mem2RegInv /\ [CopiesNext]_copyVars => Mem2RegInv'
  BY Mem2RegWaits, Mem2RegWalks
<1> QED
  BY <1>1, <1>2, CopiesInv, PTL DEF CopiesSpec

\* The value stacks of Mem2Reg hold what the active calls of rename have pushed, phis and
\* stores, and nothing else: a call that returns pops as much as it has pushed, although it
\* counts again, and when rename is done every stack is empty.
THEOREM StacksFollowCallsHolds == CopiesSpec => []StacksFollowCalls
<1>1. Mem2RegInv => StacksFollowCalls
  BY StacksFollow DEF Mem2RegInv
<1> QED
  BY <1>1, Mem2RegInvHolds, PTL

\* A step of the pipeline is one of the front end, or leaves it as it is.
LEMMA BuildSteps ==
  ASSUME PipelineInv, [CopiesNext]_copyVars
  PROVE  [Build!Next]_Build!vars
<1>1. CASE Lower
  BY <1>1, SameVisit DEF Lower, Build!Next
<1>2. CASE RunDominators
  BY <1>2, SameAnalyse, Flow!BodyKept DEF RunDominators, Build!vars, astVars
<1>3. CASE RunMem2Reg
  BY <1>3, Mem2RegReads DEF Build!vars, astVars
<1>4. CASE StartCompiled \/ JumpCompiled
  BY <1>4, RunsOnly DEF Build!vars, astVars
<1>5. CASE Stopped \/ UNCHANGED copyVars
  BY <1>5 DEF Stopped, Finished, copyVars, allVars, vars, Build!vars, astVars
<1> QED
  BY <1>1, <1>2, <1>3, <1>4, <1>5 DEF CopiesNext, Compile

\* The witness of the front end that loads follow stores stays one.
LEMMA SafeInvHolds == CopiesSpec => []Build!SafeInv
<1>1. CopiesInit => Build!SafeInv
  BY SourceHolds, SameInit, Build!InitHolds, Build!InitSafe DEF CopiesInit, PipelineInit
<1>2. PipelineInv /\ PipelineInv' /\ Build!SafeInv /\ [CopiesNext]_copyVars => Build!SafeInv'
  BY SourceHolds, BuildSteps, Build!NextSafe DEF PipelineInv
<1> QED
  BY <1>1, <1>2, CopiesInv, PTL DEF CopiesSpec

\* It supplies rename with what it reads.
LEMMA SuppliedBody ==
  ASSUME Build!Body(ir), NEW A, Build!Assigned(ir, A)
  PROVE  Supplied(ir, A)
<1>1. Build!Blocks(ir) = Blocks(ir) /\ Build!Entry = Entry /\ \A s : Build!ToSet(s) = ToSet(s)
  BY DEF Blocks, Build!Blocks, Entry, Build!Entry, ToSet, Build!ToSet
<1>2. \A a, b : <<a, b>> \in A => b # Entry
  BY <1>1 DEF Build!Assigned
<1>3. ASSUME NEW p \in Blocks(ir), NEW b \in Blocks(ir), b \in ToSet(ir.succ[p]),
             NEW a, <<a, b>> \in A
      PROVE  <<a, p>> \in A \/ HasStore(ir.code, p, a)
  <2>1. p \in ToSet(ir.pre[b])
    BY <1>3, Guarantee
    DEF Flow!Mirrored, Flow!Preds, Flow!ToSet, ToSet, Flow!Blocks, Blocks
  <2>2. Build!Ready(ir, A, a, p)
    BY <1>1, <1>3, <2>1 DEF Build!Assigned
  <2> QED
    BY <2>2 DEF Build!Ready, Build!Stored, HasStore, IsStore
<1>4. ASSUME NEW b \in Blocks(ir), NEW k \in DOMAIN ir.code[b], ir.code[b][k].op = "load"
      PROVE  \/ <<ir.code[b][k].var, b>> \in A
             \/ \E j \in DOMAIN ir.code[b] : j < k /\ IsStore(ir.code[b][j], ir.code[b][k].var)
  <2>1. Build!ReadyAt(ir, A, ir.code[b][k].var, b, k)
    BY <1>1, <1>4 DEF Build!Assigned
  <2> QED
    BY <2>1 DEF Build!ReadyAt, IsStore
<1> QED
  BY <1>2, <1>3, <1>4 DEF Supplied

\* Before Mem2Reg starts it has replaced nothing.
Promoting == PromoteInv /\ (mpc = "idle" => repl = [n \in {} |-> Undef])

\* A step of the other parts.
LEMMA PromotingWaits ==
  ASSUME PipelineInv, Mem2RegInv, Promoting, [CopiesNext]_copyVars, ~RunMem2Reg
  PROVE  Promoting'
<1>1. CASE Lower
  <2>1. Build!Visit /\ UNCHANGED m2rVars
    BY <1>1, SameVisit DEF Lower
  <2>2. mpc = "idle"
    BY <2>1, VisitingIs DEF Mem2RegInv, FrontEnd!Done
  <2>3. Untouched
    BY <2>2 DEF Promoting, PromoteInv, Mem2RegInv, RenInv, Untouched
  <2>4. Untouched'
    BY <2>1, <2>3 DEF m2rVars, Untouched, NoPhi, Undef
  <2>5. (Untouched => PromoteInv)'
    BY PromoteEarly, PTL
  <2> QED
    BY <2>4, <2>5 DEF Promoting, Untouched, Undef
<1>2. CASE UNCHANGED <<ir, m2rVars>>
  <2>1. PromoteInv'
    BY <1>2, PromoteSame DEF Promoting, m2rVars
  <2> QED
    BY <1>2, <2>1 DEF Promoting, m2rVars, Undef
<1>3. CASE RunDominators
  <2>1. Flow!Analyse /\ UNCHANGED m2rVars
    BY <1>3, SameAnalyse DEF RunDominators
  <2> QED
    BY <1>2, <2>1, Flow!BodyKept
<1>4. CASE StartCompiled \/ JumpCompiled
  BY <1>2, <1>4, RunsOnly
<1>5. CASE Stopped \/ UNCHANGED copyVars
  BY <1>2, <1>5 DEF Stopped, Finished, copyVars, allVars, vars
<1> QED
  BY <1>1, <1>3, <1>4, <1>5 DEF CopiesNext, Compile

\* A step of Mem2Reg.
LEMMA PromotingGoes ==
  ASSUME PipelineInv, Mem2RegInv, Promoting, Build!SafeInv, RunMem2Reg
  PROVE  Promoting'
<1>1. Build!Body(ir) /\ Promote
  BY DEF PipelineInv, Build!IInv, RunMem2Reg
<1>2. PICK A : Supplied(ir, A)
  <2>1. PICK A : Build!Assigned(ir, A)
    BY DEF Build!SafeInv, Build!SafeAt
  <2>2. Supplied(ir, A)
    BY <1>1, <2>1, SuppliedBody
  <2> QED
    BY <2>2
<1>3. PromoteInv'
  BY <1>1, <1>2, RenamableBody, PromotePromotes DEF Mem2RegInv, Promoting
<1>4. mpc' # "idle"
  BY <1>1 DEF Promote, Begin, NextCandidate, PlacePhis, PhisDone, RenameEntry, Descend, Leave
<1> QED
  BY <1>3, <1>4 DEF Promoting

\* It holds throughout.
LEMMA PromotingHolds == CopiesSpec => []Promoting
<1>1. CopiesInit => Promoting
  BY PromoteEarly DEF CopiesInit, PipelineInit, Promoting, Idle, Untouched
<1>2. PipelineInv /\ Mem2RegInv /\ Build!SafeInv /\ Promoting /\ [CopiesNext]_copyVars => Promoting'
  BY PromotingWaits, PromotingGoes
<1> QED
  BY <1>1, <1>2, CopiesInv, Mem2RegInvHolds, SafeInvHolds, PTL DEF CopiesSpec

\* No assertion of rename fails on a function of the front end: every load finds a value on
\* its stack, whichever of the paths to it the calls have taken, and every pop its push.
THEOREM NoAssertionFailsHolds == CopiesSpec => []NoAssertionFails
<1>1. Promoting => NoAssertionFails
  BY DEF Promoting, PromoteInv, NoAssertionFails
<1> QED
  BY <1>1, PromotingHolds, PTL

\* In every function of the front end, rename reaches all code that can run: each load there
\* is replaced by a value that is not itself a load, and each store is erased.
THEOREM FullyPromotedHolds == CopiesSpec => []FullyPromoted
<1>1. ASSUME PipelineInv, Mem2RegInv, Promoting PROVE FullyPromoted
  <2>1. Build!Body(ir) /\ renamed \subseteq Blocks(ir) /\ PromoteInv
    BY <1>1 DEF PipelineInv, Build!IInv, Mem2RegInv, RenInv, Walking, Promoting
  <2>2. IsFiniteSet(Blocks(ir))
    <3>1. Flow!IsBody(ir)
      BY <2>1, Guarantee
    <3>2. Blocks(ir) = 1 .. Len(ir.code) /\ Len(ir.code) \in Nat
      BY <3>1, Flow!BlockFacts DEF Flow!Blocks, Blocks
    <3> QED
      BY <3>2, FS_Interval
  <2> QED
    BY <2>1, <2>2, RenamableBody, AllPromoted
<1> QED
  BY <1>1, CopiesInv, Mem2RegInvHolds, PromotingHolds, PTL

=============================================================================
