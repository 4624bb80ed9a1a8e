-------------------------- MODULE ChainbaseProofs --------------------------
(***************************************************************************)
(* What holds the indices of chainbase::database together, for any number  *)
(* of indices, sessions and deaths: the loops over _index_list keep the    *)
(* undo stacks of all indices in step, an undo_all() that returns repairs  *)
(* what an exception or a death has left half done unless the oldest undo  *)
(* state was being dropped, and the database implements one undo log.  At  *)
(* the end, the locks.                                                     *)
(***************************************************************************)
EXTENDS ChainbaseMC, SequenceTheorems, FiniteSetTheorems, TLAPS

(* A session of revision -1 is taken for a disabled one, which undoes      *)
(* nothing.  An index comes to that revision when set_revision() has been  *)
(* given 2^64 - 2 or some other value that an int64_t takes for less than  *)
(* -1; start_undo_session() may then fail half way and leave the indices   *)
(* out of step.  The theorems are about databases where it has not.        *)
NoSentinel == \A r \in Revisions : r >= -1

(***************************************************************************)
(* The invariant.  The undo states of an index have consecutive revisions, *)
(* the newest that of the index, so that its revision and their number     *)
(* determine them.                                                         *)
(***************************************************************************)
Index == [content : Values, stack : Seq(Stacked), revision : Int]
Oldest_revision(x) == x.revision - Len(x.stack)
Tame(x) ==
    /\ x \in Index
    /\ Oldest_revision(x) >= -1
    /\ \A d \in 1 .. Len(x.stack) : x.stack[d].revision = Oldest_revision(x) + d

Revised(x, r) == [x EXCEPT !.revision = r]

(* What is left of x, the index i, when operation o has come as far as it  *)
(* has.                                                                    *)
Part(o, i, x) ==
    CASE o.kind = "start"        -> IF i < o.at THEN Started(x) ELSE x
      [] o.kind = "unwind"       -> IF i \in o.done /\ i >= o.at THEN Started(x) ELSE x
      [] o.kind = "set_revision" -> IF i < o.at THEN Revised(x, o.arg) ELSE x
      [] OTHER                   -> IF i < o.at THEN Call(o, i, x) ELSE x

(* The sessions an operation has begun are those of all indices up to the  *)
(* one it has come to.                                                     *)
Begun(o) ==
    /\ o = [kind |-> o.kind, at |-> o.at, arg |-> o.arg, done |-> o.done]
    /\ o.kind \in Kinds
    /\ o.at \in Indices
    /\ o.done \subseteq Indices
    /\ o.kind = "start" => o.arg \in Handles /\ o.done = 1 .. o.at - 1
    /\ o.kind = "commit" => o.arg \in Int
    /\ o.kind = "set_revision" => /\ o.arg \in Int /\ o.arg >= -1
                                  /\ \A i \in 1 .. o.at - 1 : before[i].stack = <<>>

Typed ==
    /\ index \in [Indices -> Index] /\ before \in [Indices -> Index]
    /\ base \in [Indices -> State]
    /\ session \in [Handles -> SUBSET Indices]
    /\ op = Idle \/ Begun(op)
    /\ faulty \subseteq Indices
    /\ torn \in {"no", "recoverable", "lost"}
    /\ crashes \in 0 .. MaxCrashes

Contiguous == \A i \in Indices : Tame(index[i]) /\ Tame(before[i])

Progress == op # Idle /\ op.kind # "damaged" => \A i \in Indices : index[i] = Part(op, i, before[i])

Same(f) == \A i, j \in Indices : /\ f[i].revision = f[j].revision
                                 /\ Len(f[i].stack) = Len(f[j].stack)

Agreement == torn = "no" => Same(Visible)

(* After an exception or a death half way the indices need not agree, but  *)
(* what undo_all() would restore does.                                     *)
Restorable ==
    torn # "lost" => /\ base = Bases(Visible)
                     /\ \A i, j \in Indices : base[i].revision = base[j].revision

(* Indices that disagree are undone at most, and a session that reaches    *)
(* only some of the indices takes them out of step.                        *)
Recovery ==
    /\ torn = "recoverable" => op = Idle \/ op.kind \in Undos
    /\ op.kind \in {"session_undo", "session_squash"} /\ torn = "no" => op.done = Indices
    /\ op.kind = "damaged" => torn = "lost"

IInv == Typed /\ Contiguous /\ Progress /\ Agreement /\ Restorable /\ Recovery

-----------------------------------------------------------------------------
(* Sequences                                                               *)

(* What Front and Last leave of a sequence and take from it.               *)
LEMMA FrontFacts ==
    ASSUME NEW S, NEW s \in Seq(S), s # <<>>
    PROVE  /\ Len(s) >= 1
           /\ Front(s) \in Seq(S) /\ Len(Front(s)) = Len(s) - 1
           /\ \A d \in 1 .. Len(s) - 1 : Front(s)[d] = s[d]
           /\ Last(s) \in S /\ Last(s) = s[Len(s)]
<1>1. Len(s) \in Nat /\ Len(s) # 0
  BY EmptySeq, LenProperties
<1>2. \A d \in 1 .. Len(s) - 1 : s[d] \in S
  BY <1>1, ElementOfSeq
<1> DEFINE k == Len(s) - 1
           p == SubSeq(s, 1, k)
<1>3. k \in Nat /\ \A d \in 1 .. k : s[d] \in S
  BY <1>1, <1>2
<1>4. s[Len(s)] \in S
  BY <1>1, ElementOfSeq
<1> HIDE DEF k
<1>5. /\ p \in Seq(S) /\ Len(p) = IF 1 <= k THEN k - 1 + 1 ELSE 0
      /\ \A d \in 1 .. k - 1 + 1 : p[d] = s[1 + d - 1]
  BY <1>3, SubSeqProperties
<1> HIDE DEF p
<1>6. Len(p) = k /\ \A d \in 1 .. k : p[d] = s[d]
  <2>1. \A d \in 1 .. k : d \in 1 .. k - 1 + 1 /\ 1 + d - 1 = d
    BY <1>3
  <2>. QED
    BY <1>3, <1>5, <2>1
<1>7. Front(s) = p
  BY DEF Front, p, k
<1>8. Len(s) >= 1
  BY <1>1
<1>. QED
  BY <1>4, <1>5, <1>6, <1>7, <1>8 DEF Last, k

LEMMA IndexFields ==
    ASSUME NEW x \in Index
    PROVE  /\ x.content \in Values /\ x.stack \in Seq(Stacked) /\ x.revision \in Int
           /\ Len(x.stack) \in Nat
           /\ x = [content |-> x.content, stack |-> x.stack, revision |-> x.revision]
<1>1. /\ x.content \in Values /\ x.stack \in Seq(Stacked) /\ x.revision \in Int
      /\ x = [content |-> x.content, stack |-> x.stack, revision |-> x.revision]
  BY DEF Index
<1>. QED
  BY <1>1, LenProperties

LEMMA FieldsAre ==
    ASSUME NEW c, NEW s, NEW r, NEW x, x = [content |-> c, stack |-> s, revision |-> r]
    PROVE  x.content = c /\ x.stack = s /\ x.revision = r
OBVIOUS

(* Two indices with the same fields are the same.                          *)
LEMMA SameIndex ==
    ASSUME NEW x \in Index, NEW y \in Index, x.content = y.content,
           x.revision = y.revision, Len(x.stack) = Len(y.stack),
           \A d \in 1 .. Len(x.stack) : x.stack[d] = y.stack[d]
    PROVE  x = y
<1>1. x.stack = y.stack
  BY SeqEqual DEF Index
<1>. QED
  BY <1>1 DEF Index

(* Which fields the oldest moment of an index depends on.                  *)
LEMMA SameOldest ==
    ASSUME NEW x \in Index, NEW y \in Index, Oldest_revision(x) = Oldest_revision(y),
           (IF Len(x.stack) = 0 THEN x.content ELSE x.stack[1].content)
              = (IF Len(y.stack) = 0 THEN y.content ELSE y.stack[1].content)
    PROVE  Oldest(x) = Oldest(y)
<1>1. \A z \in Index : z.stack = <<>> <=> Len(z.stack) = 0
  BY IndexFields, EmptySeq
<1>. QED
  BY <1>1 DEF Oldest, Oldest_revision

-----------------------------------------------------------------------------
(* The operations of one index                                             *)

LEMMA StartedFacts ==
    ASSUME NEW x, Tame(x)
    PROVE  /\ Tame(Started(x))
           /\ Started(x).content = x.content
           /\ Started(x).revision = x.revision + 1 /\ x.revision + 1 >= 0
           /\ Len(Started(x).stack) = Len(x.stack) + 1
           /\ \A d \in 1 .. Len(x.stack) : Started(x).stack[d] = x.stack[d]
           /\ Started(x).stack[Len(x.stack) + 1].content = x.content
           /\ Oldest(Started(x)) = Oldest(x)
<1> DEFINE e == [content |-> x.content, revision |-> x.revision + 1]
           s == Append(x.stack, e)
<1>1. /\ x.content \in Values /\ x.stack \in Seq(Stacked) /\ x.revision \in Int
      /\ Len(x.stack) \in Nat
  BY IndexFields DEF Tame
<1>2. e \in Stacked
  BY <1>1 DEF Stacked
<1>3. /\ Started(x).content = x.content /\ Started(x).stack = s
      /\ Started(x).revision = x.revision + 1
      /\ Started(x) = [content |-> x.content, stack |-> s, revision |-> x.revision + 1]
  <2>1. Started(x) = [x EXCEPT !.stack = s, !.revision = x.revision + 1]
    <3>. HIDE DEF s
    <3>1. Append(x.stack, e) = s
      BY DEF s
    <3>2. Append(x.stack, e) = Append(x.stack, [content |-> x.content, revision |-> x.revision + 1])
      OBVIOUS
    <3>. QED
      BY <3>1, <3>2 DEF Started, Tame, Index
  <2>2. x = [content |-> x.content, stack |-> x.stack, revision |-> x.revision]
    BY IndexFields DEF Tame
  <2>. HIDE DEF s
  <2>3. Started(x) = [content |-> x.content, stack |-> s, revision |-> x.revision + 1]
    BY <2>1, <2>2
  <2>. QED
    BY <2>3
<1> HIDE DEF e
<1>4. /\ s \in Seq(Stacked) /\ Len(s) = Len(x.stack) + 1 /\ s # <<>>
      /\ \A d \in 1 .. Len(x.stack) : s[d] = x.stack[d]
      /\ s[Len(x.stack) + 1] = e
  BY <1>1, <1>2, AppendProperties
<1> HIDE DEF s
<1>5. Started(x) \in Index
  BY <1>1, <1>3, <1>4 DEF Index
<1>6. \A d \in 1 .. Len(s) : s[d].revision = Oldest_revision(x) + d
  <2>1. e.revision = x.revision + 1 /\ e.content = x.content
    BY DEF e
  <2>2. TAKE d \in 1 .. Len(s)
  <2>3. CASE d = Len(s)
    BY <1>1, <1>4, <2>1, <2>3 DEF Oldest_revision
  <2>4. CASE d # Len(s)
    <3>1. d \in 1 .. Len(x.stack)
      BY <1>1, <1>4, <2>4
    <3>. QED
      BY <1>4, <3>1 DEF Tame
  <2>. QED
    BY <2>3, <2>4
<1>7. Oldest_revision(Started(x)) = Oldest_revision(x)
  <2>1. Len(s) = Len(x.stack) + 1 /\ Len(x.stack) \in Int /\ x.revision \in Int
    BY <1>1, <1>4
  <2>2. (x.revision + 1) - Len(s) = x.revision - Len(x.stack)
    BY <2>1
  <2>. QED
    BY <1>3, <2>2 DEF Oldest_revision
<1>8. e.content = x.content
  BY DEF e
<1>9. Oldest(Started(x)) = Oldest(x)
  <2>1. Len(x.stack) # 0 => 1 \in 1 .. Len(x.stack)
    BY <1>1
  <2>2. Len(x.stack) = 0 => s[1].content = x.content
    BY <1>4, <1>8
  <2>3. x \in Index /\ Len(s) # 0
    BY <1>1, <1>4 DEF Tame
  <2>. QED
    BY <1>3, <1>4, <1>5, <1>7, <2>1, <2>2, <2>3, SameOldest
<1>10. x.revision + 1 >= 0
  BY <1>1 DEF Tame, Oldest_revision
<1>. QED
  BY <1>1, <1>3, <1>4, <1>5, <1>6, <1>7, <1>8, <1>9, <1>10 DEF Tame

LEMMA UndoneFacts ==
    ASSUME NEW x, Tame(x)
    PROVE  /\ Tame(Undone(x))
           /\ Oldest(Undone(x)) = Oldest(x)
           /\ x.stack = <<>> => Undone(x) = x
           /\ x.stack # <<>> => /\ Undone(x).content = Last(x.stack).content
                                /\ Undone(x).stack = Front(x.stack)
                                /\ Undone(x).revision = x.revision - 1
<1>1. CASE x.stack = <<>>
  BY <1>1 DEF Undone
<1>2. CASE x.stack # <<>>
  <2>1. /\ x.content \in Values /\ x.stack \in Seq(Stacked) /\ x.revision \in Int
        /\ Len(x.stack) \in Nat
    BY IndexFields DEF Tame
  <2> DEFINE s == x.stack
  <2>2. /\ Len(s) >= 1
        /\ Front(s) \in Seq(Stacked) /\ Len(Front(s)) = Len(s) - 1
        /\ \A d \in 1 .. Len(s) - 1 : Front(s)[d] = s[d]
        /\ Last(s) \in Stacked /\ Last(s) = s[Len(s)]
    <3>. HIDE DEF s
    <3>. QED
      BY <1>2, <2>1, FrontFacts DEF s
  <2>3. /\ Undone(x).content = Last(s).content /\ Undone(x).stack = Front(s)
        /\ Undone(x).revision = x.revision - 1
        /\ Undone(x) = [content |-> Last(s).content, stack |-> Front(s),
                        revision |-> x.revision - 1]
    BY <1>2 DEF Undone
  <2>4. Undone(x) \in Index
    BY <2>1, <2>2, <2>3 DEF Index, Stacked
  <2> DEFINE u == Undone(x)
             f == Front(s)
  <2>5. Oldest_revision(u) = Oldest_revision(x)
    <3>1. /\ u.stack = f /\ u.revision = x.revision - 1 /\ Len(f) = Len(s) - 1
          /\ Len(s) \in Nat /\ x.stack = s
      BY <2>1, <2>2, <2>3
    <3>. HIDE DEF u, f, s
    <3>. QED
      BY <2>1, <3>1 DEF Oldest_revision
  <2>6. \A d \in 1 .. Len(Front(s)) : Front(s)[d].revision = Oldest_revision(x) + d
    BY <2>1, <2>2 DEF Tame
  <2>7. Oldest(u) = Oldest(x)
    <3>1. /\ u.content = s[Len(s)].content /\ u.stack = f /\ Len(f) = Len(s) - 1
          /\ Len(s) \in Nat /\ Len(s) >= 1 /\ x.stack = s
          /\ \A d \in 1 .. Len(s) - 1 : f[d] = s[d]
          /\ u \in Index /\ x \in Index
      BY <2>1, <2>2, <2>3, <2>4 DEF Tame
    <3>. HIDE DEF u, f, s
    <3>2. CASE Len(s) = 1
      BY <2>5, <3>1, <3>2, SameOldest
    <3>3. CASE Len(s) # 1
      <4>1. 1 \in 1 .. Len(s) - 1
        BY <3>1, <3>3
      <4>. QED
        BY <2>5, <3>1, <3>3, <4>1, SameOldest
    <3>. QED
      BY <3>2, <3>3
  <2>. QED
    BY <1>2, <2>3, <2>4, <2>5, <2>6, <2>7 DEF Tame
<1>. QED
  BY <1>1, <1>2

(* The session begun last is undone. *)
LEMMA UndoneStarted ==
    ASSUME NEW x, Tame(x)
    PROVE  Undone(Started(x)) = x
<1> DEFINE y == Started(x)
<1>1. /\ Tame(y) /\ y.revision = x.revision + 1 /\ Len(y.stack) = Len(x.stack) + 1
      /\ \A d \in 1 .. Len(x.stack) : y.stack[d] = x.stack[d]
      /\ y.stack[Len(x.stack) + 1].content = x.content
  BY StartedFacts
<1> HIDE DEF y
<1>2. x \in Index /\ x.revision \in Int /\ Len(x.stack) \in Nat
  BY IndexFields DEF Tame
<1>3. y.stack # <<>> /\ y.stack \in Seq(Stacked)
  BY <1>1, <1>2 DEF Tame, Index
<1>4. /\ Len(Front(y.stack)) = Len(y.stack) - 1
      /\ \A d \in 1 .. Len(y.stack) - 1 : Front(y.stack)[d] = y.stack[d]
      /\ Last(y.stack) = y.stack[Len(y.stack)]
  BY <1>3, FrontFacts
<1>5. /\ Undone(y) \in Index /\ Undone(y).content = Last(y.stack).content
      /\ Undone(y).stack = Front(y.stack) /\ Undone(y).revision = y.revision - 1
  BY <1>1, <1>3, UndoneFacts DEF Tame
<1> DEFINE u == Undone(y)
           f == Front(y.stack)
<1>6. /\ u \in Index /\ x \in Index /\ u.content = y.stack[Len(y.stack)].content
      /\ u.stack = f /\ u.revision = y.revision - 1 /\ Len(f) = Len(y.stack) - 1
      /\ \A d \in 1 .. Len(y.stack) - 1 : f[d] = y.stack[d]
  BY <1>2, <1>4, <1>5
<1> HIDE DEF u, f
<1>7. /\ u.content = x.content /\ u.revision = x.revision
      /\ Len(f) = Len(x.stack) /\ \A d \in 1 .. Len(x.stack) : f[d] = x.stack[d]
  BY <1>1, <1>2, <1>6
<1>8. u = x
  BY <1>6, <1>7, SameIndex
<1>. QED
  BY <1>8 DEF u, y

LEMMA SquashedFacts ==
    ASSUME NEW x, Tame(x)
    PROVE  /\ Tame(Squashed(x))
           /\ Len(x.stack) > 1 => Oldest(Squashed(x)) = Oldest(x)
           /\ Squashed(x).content = x.content
           /\ Squashed(x).revision = IF Len(x.stack) <= 1 THEN x.revision ELSE x.revision - 1
           /\ x.stack = <<>> => Squashed(x) = x
           /\ x.stack # <<>> => Squashed(x).stack = Front(x.stack)
<1>1. CASE x.stack = <<>>
  BY <1>1 DEF Squashed
<1>2. CASE x.stack # <<>>
  <2>1. /\ x.content \in Values /\ x.stack \in Seq(Stacked) /\ x.revision \in Int
        /\ Len(x.stack) \in Nat
    BY IndexFields DEF Tame
  <2> DEFINE s == x.stack
             r == IF Len(s) = 1 THEN x.revision ELSE x.revision - 1
  <2>2. /\ Len(s) >= 1
        /\ Front(s) \in Seq(Stacked) /\ Len(Front(s)) = Len(s) - 1
        /\ \A d \in 1 .. Len(s) - 1 : Front(s)[d] = s[d]
    <3>. HIDE DEF s
    <3>. QED
      BY <1>2, <2>1, FrontFacts DEF s
  <2>3. /\ Squashed(x).content = x.content /\ Squashed(x).stack = Front(s)
        /\ Squashed(x).revision = r
        /\ Squashed(x) = [content |-> x.content, stack |-> Front(s), revision |-> r]
    <3>1. x = [content |-> x.content, stack |-> x.stack, revision |-> x.revision]
      BY IndexFields DEF Tame
    <3>2. Squashed(x) = [x EXCEPT !.stack = Front(s), !.revision = r]
      BY <1>2 DEF Squashed
    <3>3. Squashed(x) = [content |-> x.content, stack |-> Front(s), revision |-> r]
      <4>. DEFINE q == Front(s)
                  p == r
      <4>1. Squashed(x) = [x EXCEPT !.stack = q, !.revision = p]
        BY <3>2
      <4>. HIDE DEF q, p, r
      <4>2. Squashed(x) = [content |-> x.content, stack |-> q, revision |-> p]
        BY <3>1, <4>1
      <4>. QED
        BY <4>2 DEF q, p
    <3>. QED
      BY <3>3
  <2>4. Squashed(x) \in Index
    BY <2>1, <2>2, <2>3 DEF Index
  <2> DEFINE q == Squashed(x)
             f == Front(s)
  <2>5. /\ q.stack = f /\ q.revision = r /\ q.content = x.content /\ Len(f) = Len(s) - 1
        /\ Len(s) \in Nat /\ Len(s) >= 1 /\ x.stack = s
        /\ \A d \in 1 .. Len(s) - 1 : f[d] = s[d]
        /\ q \in Index /\ x \in Index /\ s # <<>>
    BY <1>2, <2>1, <2>2, <2>3, <2>4 DEF Tame
  <2> HIDE DEF q, f, s
  <2>6. /\ Oldest_revision(q) \in Int /\ Oldest_revision(x) \in Int
        /\ Oldest_revision(q) >= Oldest_revision(x)
        /\ Len(s) > 1 => Oldest_revision(q) = Oldest_revision(x)
    <3>1. Oldest_revision(q) = r - (Len(s) - 1)
      BY <2>5 DEF Oldest_revision
    <3>2. Oldest_revision(x) = x.revision - Len(s)
      BY <2>5 DEF Oldest_revision
    <3>3. CASE Len(s) = 1
      BY <2>1, <2>5, <3>1, <3>2, <3>3
    <3>4. CASE Len(s) # 1
      BY <2>1, <2>5, <3>1, <3>2, <3>4
    <3>. QED
      BY <3>3, <3>4
  <2>7. \A d \in 1 .. Len(f) : f[d].revision = Oldest_revision(q) + d
    BY <2>5, <2>6 DEF Tame
  <2>8. Tame(q)
    <3>1. Oldest_revision(q) >= -1
      BY <2>6 DEF Tame
    <3>. QED
      BY <2>5, <2>7, <3>1 DEF Tame
  <2>9. Len(s) > 1 => Oldest(q) = Oldest(x)
    <3>1. SUFFICES ASSUME Len(s) > 1 PROVE Oldest(q) = Oldest(x)
      OBVIOUS
    <3>2. 1 \in 1 .. Len(s) - 1 /\ Len(f) # 0 /\ Len(s) # 0
      BY <2>5, <3>1
    <3>. QED
      BY <2>5, <2>6, <3>1, <3>2, SameOldest
  <2>10. r = IF Len(s) <= 1 THEN x.revision ELSE x.revision - 1
    BY <2>5
  <2> HIDE DEF r
  <2>. QED
    BY <2>5, <2>8, <2>9, <2>10 DEF q, f
<1>. QED
  BY <1>1, <1>2

LEMMA UndoneAllFacts ==
    ASSUME NEW x, Tame(x)
    PROVE  /\ Tame(UndoneAll(x))
           /\ Oldest(UndoneAll(x)) = Oldest(x)
           /\ UndoneAll(x).stack = <<>>
           /\ UndoneAll(x).revision = Oldest_revision(x)
           /\ UndoneAll(x).content = IF x.stack = <<>> THEN x.content ELSE x.stack[1].content
<1>1. /\ x.content \in Values /\ x.stack \in Seq(Stacked) /\ x.revision \in Int
      /\ Len(x.stack) \in Nat
  BY IndexFields DEF Tame
<1> DEFINE c == IF x.stack = <<>> THEN x.content ELSE x.stack[1].content
<1>2. c \in Values
  <2>1. CASE x.stack # <<>>
    <3>1. 1 \in 1 .. Len(x.stack)
      BY <1>1, <2>1, EmptySeq
    <3>2. x.stack[1] \in Stacked
      BY <1>1, <3>1, ElementOfSeq
    <3>. QED
      BY <2>1, <3>2 DEF Stacked
  <2>. QED
    BY <1>1, <2>1
<1>3. UndoneAll(x) = [content |-> c, stack |-> <<>>, revision |-> Oldest_revision(x)]
  BY DEF UndoneAll, Oldest, Oldest_revision
<1>4. Oldest_revision(x) \in Int
  BY <1>1 DEF Oldest_revision
<1>5. <<>> \in Seq(Stacked) /\ Len(<<>>) = 0
  OBVIOUS
<1> HIDE DEF c
<1>6. UndoneAll(x) \in Index /\ UndoneAll(x).stack = <<>>
      /\ UndoneAll(x).revision = Oldest_revision(x) /\ UndoneAll(x).content = c
  BY <1>2, <1>3, <1>4, <1>5 DEF Index
<1>7. Oldest_revision(UndoneAll(x)) = Oldest_revision(x)
  BY <1>4, <1>5, <1>6 DEF Oldest_revision
<1>8. Oldest(UndoneAll(x)) = Oldest(x)
  BY <1>4, <1>5, <1>6 DEF Oldest, Oldest_revision, c
<1>. QED
  BY <1>4, <1>5, <1>6, <1>7, <1>8 DEF Tame, c

(* A commit leaves the undo states that are newer than the revision given. *)
LEMMA CommittedFacts ==
    ASSUME NEW x, Tame(x), NEW r \in Int
    PROVE  LET n == Len(x.stack)
               m == r - Oldest_revision(x)
               k == IF m < 0 THEN 0 ELSE IF m < n THEN m ELSE n
           IN  /\ Tame(Committed(x, r))
               /\ k \in 0 .. n
               /\ Committed(x, r).content = x.content
               /\ Committed(x, r).revision = x.revision
               /\ Committed(x, r).stack = SubSeq(x.stack, k + 1, n)
               /\ Len(Committed(x, r).stack) = n - k
               /\ \A d \in 1 .. n - k : Committed(x, r).stack[d] = x.stack[k + d]
<1> DEFINE n == Len(x.stack)
           m == r - Oldest_revision(x)
           k == IF m < 0 THEN 0 ELSE IF m < n THEN m ELSE n
           s == x.stack
           dropped == {i \in 1 .. n : \A j \in 1 .. i : s[j].revision <= r}
           left == SubSeq(s, k + 1, n)
           q == Committed(x, r)
<1>1. /\ x \in Index /\ x.content \in Values /\ s \in Seq(Stacked) /\ x.revision \in Int
      /\ n \in Nat /\ x = [content |-> x.content, stack |-> s, revision |-> x.revision]
  BY IndexFields DEF Tame
<1>2. Oldest_revision(x) = x.revision - n
  BY DEF Oldest_revision
<1>3. \A j \in 1 .. n : s[j].revision = Oldest_revision(x) + j
  BY DEF Tame
<1>4. k \in 0 .. n /\ Oldest_revision(x) \in Int
  BY <1>1, <1>2
<1>5. dropped = 1 .. k
  <2>1. \A i \in 1 .. n : (\A j \in 1 .. i : s[j].revision <= r) <=> i <= m
    <3>1. TAKE i \in 1 .. n
    <3>2. \A j \in 1 .. i : s[j].revision <= r <=> j <= m
      <4> HIDE DEF s
      <4>. QED
        BY <1>1, <1>3, <1>4
    <3>3. i \in 1 .. i /\ m \in Int
      BY <1>4
    <3>. HIDE DEF m, s
    <3>. QED
      BY <1>1, <3>2, <3>3
  <2>2. \A i \in 1 .. n : i <= m <=> i <= k
    BY <1>1, <1>4
  <2>. HIDE DEF k, m, s
  <2>3. \A i : i \in dropped <=> i \in 1 .. k
    BY <1>1, <1>4, <2>1, <2>2
  <2>. QED
    BY <2>3
<1>6. Cardinality(dropped) = k
  <2>. HIDE DEF k, m, s
  <2>1. Cardinality(1 .. k) = k
    <3>1. k \in Nat
      BY <1>1, <1>4
    <3>2. Cardinality(1 .. k) = IF 1 > k THEN 0 ELSE k - 1 + 1
      BY <3>1, FS_Interval
    <3>. QED
      BY <3>1, <3>2
  <2>. QED
    BY <1>5, <2>1
<1>7. q = [x EXCEPT !.stack = left]
  <2>. DEFINE dom == {i \in 1 .. Len(x.stack) : \A j \in 1 .. i : x.stack[j].revision <= r}
  <2>1. dom = dropped
    OBVIOUS
  <2>2. q = [x EXCEPT !.stack = SubSeq(x.stack, Cardinality(dom) + 1, Len(x.stack))]
    BY DEF Committed
  <2>. HIDE DEF dom, dropped
  <2>3. SubSeq(x.stack, Cardinality(dom) + 1, Len(x.stack)) = left
    BY <1>6, <2>1
  <2>. QED
    BY <2>2, <2>3
<1>8. /\ left \in Seq(Stacked) /\ Len(left) = n - k
      /\ \A d \in 1 .. n - k : left[d] = s[k + d]
  <2> HIDE DEF k, m
  <2>1. k + 1 \in Int /\ n \in Int /\ \A i \in k + 1 .. n : s[i] \in Stacked
    BY <1>1, <1>4, ElementOfSeq
  <2> DEFINE a == k + 1
  <2>2. a \in Int /\ n \in Int /\ \A i \in a .. n : s[i] \in Stacked
    BY <2>1
  <2>. HIDE DEF s, n, a
  <2>3. /\ SubSeq(s, a, n) \in Seq(Stacked)
        /\ Len(SubSeq(s, a, n)) = IF a <= n THEN n - a + 1 ELSE 0
        /\ \A i \in 1 .. n - a + 1 : SubSeq(s, a, n)[i] = s[a + i - 1]
    BY <2>2, SubSeqProperties
  <2>. DEFINE p == SubSeq(s, a, n)
  <2>. HIDE DEF p
  <2>4. /\ p \in Seq(Stacked) /\ Len(p) = (IF a <= n THEN n - a + 1 ELSE 0)
        /\ \A i \in 1 .. n - a + 1 : p[i] = s[a + i - 1]
    BY <2>3, Zenon DEF p
  <2>5. (IF a <= n THEN n - a + 1 ELSE 0) = n - k /\ n - a + 1 = n - k
    BY <1>1, <1>4 DEF a, n
  <2>6. \A i \in 1 .. n - k : a + i - 1 = k + i
    BY <1>1, <1>4 DEF a, n
  <2>7. Len(p) = n - k /\ \A i \in 1 .. n - k : p[i] = s[k + i]
    BY <2>4, <2>5, <2>6
  <2>8. p = left
    BY DEF p, a
  <2>. QED
    BY <2>4, <2>7, <2>8
<1>9. q.content = x.content /\ q.revision = x.revision /\ q.stack = left /\ q \in Index
  <2>. HIDE DEF left, q
  <2>1. q = [content |-> x.content, stack |-> left, revision |-> x.revision]
    BY <1>1, <1>7
  <2>. QED
    BY <1>1, <1>8, <2>1 DEF Index
<1> HIDE DEF left, q, k, m
<1>10. Oldest_revision(q) = Oldest_revision(x) + k /\ Oldest_revision(q) >= -1
  <2>1. Oldest_revision(q) = x.revision - (n - k)
    BY <1>8, <1>9 DEF Oldest_revision
  <2>. HIDE DEF n
  <2>2. Oldest_revision(x) >= -1
    BY DEF Tame
  <2>. QED
    BY <1>1, <1>2, <1>4, <2>1, <2>2
<1>11. \A d \in 1 .. n - k : left[d].revision = Oldest_revision(q) + d
  <2>1. TAKE d \in 1 .. n - k
  <2>2. k + d \in 1 .. n
    BY <1>1, <1>4
  <2>3. s[k + d].revision = Oldest_revision(x) + (k + d)
    BY <1>3, <2>2
  <2>. QED
    BY <1>1, <1>4, <1>8, <1>10, <2>3
<1>12. Tame(q)
  BY <1>8, <1>9, <1>10, <1>11 DEF Tame
<1>. QED
  BY <1>4, <1>8, <1>9, <1>12 DEF q, left, k, m

(* set_revision(), on an index without undo states. *)
LEMMA RevisedFacts ==
    ASSUME NEW x, Tame(x), x.stack = <<>>, NEW r \in Int, r >= -1
    PROVE  LET y == Revised(x, r)
           IN  Tame(y) /\ y.content = x.content /\ y.stack = <<>> /\ y.revision = r
<1> DEFINE y == Revised(x, r)
<1>1. /\ x \in Index /\ Len(x.stack) = 0
      /\ x = [content |-> x.content, stack |-> x.stack, revision |-> x.revision]
  BY IndexFields DEF Tame
<1>2. /\ y \in Index /\ y.stack = x.stack /\ y.revision = r /\ y.content = x.content
  BY <1>1 DEF Index, Revised
<1> HIDE DEF y
<1>3. Oldest_revision(y) = r /\ Len(y.stack) = 0
  BY <1>1, <1>2 DEF Oldest_revision
<1>. QED
  BY <1>2, <1>3 DEF Tame, y

-----------------------------------------------------------------------------
(* The loops                                                               *)

Calls == {"undo", "squash", "commit", "undo_all", "session_undo", "session_squash"}

LEMMA CallTame ==
    ASSUME NEW o, Begun(o), o.kind \in Calls \cup {"unwind"}, NEW i \in Indices, NEW x, Tame(x)
    PROVE  Tame(Call(o, i, x))
<1>1. /\ Tame(Undone(x)) /\ Tame(Squashed(x)) /\ Tame(UndoneAll(x))
      /\ \A r \in Int : Tame(Committed(x, r))
  BY UndoneFacts, SquashedFacts, UndoneAllFacts, CommittedFacts
<1>2. o.kind = "commit" => o.arg \in Int
  BY DEF Begun
<1>. QED
  BY <1>1, <1>2 DEF Call, Calls

(* What a call does, operation by operation.                               *)
LEMMA CallIs ==
    ASSUME NEW o, NEW i \in o.done, NEW x
    PROVE  /\ o.kind \in {"undo", "session_undo", "unwind"} => Call(o, i, x) = Undone(x)
           /\ o.kind \in {"squash", "session_squash"} => Call(o, i, x) = Squashed(x)
           /\ o.kind = "commit" => Call(o, i, x) = Committed(x, o.arg)
           /\ o.kind = "undo_all" => Call(o, i, x) = UndoneAll(x)
BY DEF Call

LEMMA CallAll ==
    ASSUME NEW o, NEW i \in Indices, NEW x
    PROVE  /\ o.kind = "undo" => Call(o, i, x) = Undone(x)
           /\ o.kind = "squash" => Call(o, i, x) = Squashed(x)
           /\ o.kind = "commit" => Call(o, i, x) = Committed(x, o.arg)
           /\ o.kind = "undo_all" => Call(o, i, x) = UndoneAll(x)
BY DEF Call

LEMMA PartIs ==
    ASSUME NEW o, NEW i, NEW x
    PROVE  /\ o.kind = "start" => Part(o, i, x) = IF i < o.at THEN Started(x) ELSE x
           /\ o.kind = "unwind" =>
                 Part(o, i, x) = IF i \in o.done /\ i >= o.at THEN Started(x) ELSE x
           /\ o.kind = "set_revision" =>
                 Part(o, i, x) = IF i < o.at THEN Revised(x, o.arg) ELSE x
           /\ o.kind \in Calls => Part(o, i, x) = IF i < o.at THEN Call(o, i, x) ELSE x
BY DEF Part, Calls

LEMMA OldestTyped ==
    ASSUME NEW x, Tame(x)
    PROVE  Oldest(x) \in State /\ Oldest(x).revision = Oldest_revision(x)
<1>1. /\ x.content \in Values /\ x.stack \in Seq(Stacked) /\ x.revision \in Int
      /\ Len(x.stack) \in Nat
  BY IndexFields DEF Tame
<1>2. x.stack # <<>> => x.stack[1].content \in Values
  <2>1. SUFFICES ASSUME x.stack # <<>> PROVE x.stack[1].content \in Values
    OBVIOUS
  <2>2. 1 \in 1 .. Len(x.stack)
    BY <1>1, <2>1, EmptySeq
  <2>3. x.stack[1] \in Stacked
    BY <1>1, <2>2, ElementOfSeq
  <2>. QED
    BY <2>3 DEF Stacked
<1>. QED
  BY <1>1, <1>2 DEF Oldest, Oldest_revision, State

LEMMA BasesTyped ==
    ASSUME NEW f, \A i \in Indices : Tame(f[i])
    PROVE  Bases(f) \in [Indices -> State]
BY OldestTyped DEF Bases

LEMMA IdleOrBegun ==
    ASSUME Typed
    PROVE  op = Idle <=> op.kind = "idle"
BY DEF Typed, Begun, Kinds, Idle

(***************************************************************************)
(* A step that begins an operation, one that goes on with it, and one that *)
(* ends it.                                                                *)
(***************************************************************************)
LEMMA BeginInvariant ==
    ASSUME IInv, NEW kind \in Kinds \ {"unwind", "damaged"}, NEW arg, NEW done,
           Begin(kind, arg, done), Begun(op)', session' \in [Handles -> SUBSET Indices]
    PROVE  IInv'
<1>1. op = Idle /\ op' # Idle
  BY DEF Begin, Begun, Idle, Kinds
<1>2. Visible' = index /\ Visible = index
  BY <1>1 DEF Visible, Begin
<1>3. Typed'
  BY DEF IInv, Typed, Begin, TornBy
<1>4. Contiguous'
  BY DEF IInv, Contiguous, Begin
<1>5. Progress'
  <2>1. op'.kind = kind /\ op'.at = 1
    BY DEF Begin
  <2>2. \A i \in Indices : Part(op', i, index[i]) = index[i]
    BY <2>1 DEF Part, Indices
  <2>. QED
    BY <2>2 DEF Progress, Begin
<1>6. Agreement'
  <2>1. torn' = "no" => torn = "no"
    BY DEF Begin, TornBy
  <2>. QED
    BY <1>2, <2>1 DEF IInv, Agreement, Same
<1>7. Restorable'
  <2>1. torn' # "lost" => torn # "lost"
    BY DEF Begin, TornBy
  <2>2. base' = base
    BY DEF Begin
  <2>. QED
    BY <1>2, <2>1, <2>2 DEF IInv, Restorable, Bases
<1>8. Recovery'
  BY DEF IInv, Typed, Recovery, Begin, TornBy, Undos
<1>. QED
  BY <1>3, <1>4, <1>5, <1>6, <1>7, <1>8 DEF IInv

LEMMA MoreInvariant ==
    ASSUME IInv, op # Idle, Begun(op)',
           \/ op.kind = "start" /\ op'.kind \in {"start", "unwind"}
           \/ op.kind # "damaged" /\ op'.kind = op.kind /\ op'.done = op.done,
           index' \in [Indices -> Index],
           \A i \in Indices : Tame(index'[i]) /\ index'[i] = Part(op', i, before[i]),
           session' = session, UNCHANGED <<before, faulty, torn, base, crashes>>
    PROVE  IInv'
<1>1. op' # Idle
  BY DEF Begun, Idle, Kinds
<1>2. Visible' = before /\ Visible = before
  BY <1>1 DEF Visible
<1>3. Typed'
  BY DEF IInv, Typed
<1>4. Contiguous'
  BY DEF IInv, Contiguous
<1>5. Progress'
  BY DEF Progress
<1>6. Agreement'
  BY <1>2 DEF IInv, Agreement, Same
<1>7. Restorable'
  BY <1>2 DEF IInv, Restorable, Bases
<1>8. Recovery'
  BY DEF IInv, Recovery, Undos
<1>. QED
  BY <1>3, <1>4, <1>5, <1>6, <1>7, <1>8 DEF IInv

LEMMA OverInvariant ==
    ASSUME IInv, op # Idle, Over, index' \in [Indices -> Index],
           \A i \in Indices : Tame(index'[i]), torn' = "no" => Same(index'),
           torn' = "recoverable" => Bases(index') = base,
           session' \in [Handles -> SUBSET Indices]
    PROVE  IInv'
<1>1. op' = Idle /\ Visible' = index'
  BY DEF Over, Visible
<1>2. /\ torn' # "lost" => torn # "lost" /\ base' = Bases(index')
      /\ torn' \in {"no", "recoverable", "lost"}
  BY DEF Over, IInv, Typed
<1>3. Typed'
  <2>1. Bases(index') \in [Indices -> State]
    BY BasesTyped
  <2>2. base' \in [Indices -> State]
    BY <2>1 DEF IInv, Typed, Over
  <2>. QED
    BY <1>1, <2>2 DEF IInv, Typed, Over
<1>4. Contiguous'
  BY DEF IInv, Contiguous, Over
<1>5. Progress'
  BY <1>1 DEF Progress
<1>6. Agreement'
  BY <1>1, <1>2 DEF Agreement, Same
<1>7. Restorable'
  <2>1. SUFFICES ASSUME torn' # "lost"
                 PROVE  \A i, j \in Indices : base'[i].revision = base'[j].revision
    BY <1>1, <1>2 DEF Restorable, Bases
  <2>2. \A i \in Indices : base'[i].revision = index'[i].revision - Len(index'[i].stack)
    BY <1>2, <2>1, OldestTyped DEF Bases, Oldest_revision
  <2>3. CASE torn' = "no"
    BY <2>2, <2>3 DEF Same
  <2>4. CASE torn' = "recoverable"
    BY <1>2, <2>4 DEF IInv, Restorable
  <2>. QED
    BY <1>2, <2>1, <2>3, <2>4
<1>8. Recovery'
  BY <1>1 DEF Recovery, Idle
<1>. QED
  BY <1>3, <1>4, <1>5, <1>6, <1>7, <1>8 DEF IInv

(* Indices in step stay in step when the same is done to all of them.      *)
LEMMA CallSame ==
    ASSUME NEW o, Begun(o), o.kind \in Calls, NEW i \in Indices, NEW j \in Indices,
           o.kind \in {"session_undo", "session_squash"} => o.done = Indices,
           NEW x, Tame(x), NEW y, Tame(y), x.revision = y.revision, Len(x.stack) = Len(y.stack)
    PROVE  /\ Call(o, i, x).revision = Call(o, j, y).revision
           /\ Len(Call(o, i, x).stack) = Len(Call(o, j, y).stack)
<1> DEFINE n == Len(x.stack)
<1>1. /\ x.stack \in Seq(Stacked) /\ y.stack \in Seq(Stacked) /\ n \in Nat
      /\ x.stack = <<>> <=> n = 0
      /\ y.stack = <<>> <=> n = 0
  BY IndexFields, EmptySeq DEF Tame
<1>2. n # 0 => Len(Front(x.stack)) = n - 1 /\ Len(Front(y.stack)) = n - 1
  BY <1>1, FrontFacts
<1>3. CASE o.kind \in {"undo", "session_undo"}
  <2>1. Call(o, i, x) = Undone(x) /\ Call(o, j, y) = Undone(y)
    BY <1>3, CallIs, CallAll
  <2>. HIDE DEF n
  <2>2. CASE n = 0
    BY <1>1, <2>1, <2>2, UndoneFacts
  <2>3. CASE n # 0
    BY <1>1, <1>2, <2>1, <2>3, UndoneFacts
  <2>. QED
    BY <2>2, <2>3
<1>4. CASE o.kind \in {"squash", "session_squash"}
  <2>1. Call(o, i, x) = Squashed(x) /\ Call(o, j, y) = Squashed(y)
    BY <1>4, CallIs, CallAll
  <2>2. CASE n = 0
    BY <1>1, <2>1, <2>2, SquashedFacts
  <2>3. CASE n # 0
    BY <1>1, <1>2, <2>1, <2>3, SquashedFacts
  <2>. QED
    BY <2>2, <2>3
<1>5. CASE o.kind = "commit"
  <2>1. Call(o, i, x) = Committed(x, o.arg) /\ Call(o, j, y) = Committed(y, o.arg)
    BY <1>5, CallAll
  <2>2. o.arg \in Int
    BY <1>5 DEF Begun
  <2>3. Oldest_revision(x) = Oldest_revision(y)
    BY DEF Oldest_revision
  <2> DEFINE m == o.arg - Oldest_revision(x)
             k == IF m < 0 THEN 0 ELSE IF m < n THEN m ELSE n
  <2>4. /\ Committed(x, o.arg).revision = x.revision
        /\ Len(Committed(x, o.arg).stack) = n - k
    BY <2>2, CommittedFacts
  <2>5. /\ Committed(y, o.arg).revision = y.revision
        /\ Len(Committed(y, o.arg).stack) = n - k
    BY <2>2, <2>3, CommittedFacts
  <2>. QED
    BY <2>1, <2>4, <2>5
<1>6. CASE o.kind = "undo_all"
  <2>1. Call(o, i, x) = UndoneAll(x) /\ Call(o, j, y) = UndoneAll(y)
    BY <1>6, CallAll
  <2>. QED
    BY <2>1, UndoneAllFacts DEF Oldest_revision
<1>. QED
  BY <1>3, <1>4, <1>5, <1>6 DEF Calls

(* Undoing moves no index past its oldest moment.                          *)
LEMMA CallOldest ==
    ASSUME NEW o, o.kind \in Undos, NEW i \in Indices, NEW x, Tame(x)
    PROVE  Oldest(Call(o, i, x)) = Oldest(x)
<1>1. Oldest(Undone(x)) = Oldest(x) /\ Oldest(UndoneAll(x)) = Oldest(x)
  BY UndoneFacts, UndoneAllFacts
<1>. QED
  BY <1>1 DEF Call, Undos

LEMMA OpFacts ==
    ASSUME IInv, op # Idle, op.kind # "damaged"
    PROVE  /\ Begun(op) /\ op.at \in Indices /\ op.at \in Int /\ N \in Int
           /\ \A i \in Indices : /\ Tame(before[i]) /\ Tame(index[i])
                                 /\ index[i] = Part(op, i, before[i])
           /\ torn = "no" => Same(before)
           /\ torn # "lost" => torn \in {"no", "recoverable"} /\ base = Bases(before)
           /\ torn = "recoverable" => op.kind \in Undos
           /\ torn = "no" /\ op.kind \in {"session_undo", "session_squash"} => op.done = Indices
BY DatabaseAssumption
   DEF IInv, Typed, Begun, Contiguous, Progress, Agreement, Restorable, Visible, Recovery, Indices

(* The call reaches one more index.                                        *)
LEMMA CallReaches ==
    ASSUME IInv, CallIndex
    PROVE  /\ op # Idle /\ op.kind # "damaged"
           /\ index' \in [Indices -> Index]
           /\ \A i \in Indices : /\ Tame(index'[i])
                                 /\ index'[i] = Part([op EXCEPT !.at = @ + 1], i, before[i])
<1>1. op # Idle /\ op.kind \in Calls \cup {"unwind"} /\ op.kind # "damaged"
  BY DEF CallIndex, Idle, Calls
<1> DEFINE at == op.at
           o == [op EXCEPT !.at = @ + 1]
<1>2. at \in Indices /\ at \in Int /\ Indices \subseteq Int /\ Begun(op)
  BY <1>1, OpFacts DEF Indices
<1>3. o.kind = op.kind /\ o.at = at + 1 /\ o.done = op.done /\ o.arg = op.arg
  BY <1>2 DEF Begun
<1>4. /\ index \in [Indices -> Index]
      /\ index' = [index EXCEPT ![at] = Call(op, at, index[at])]
  BY DEF IInv, Typed, CallIndex
<1>5. Tame(index[at]) /\ Tame(Call(op, at, index[at]))
  BY <1>1, <1>2, OpFacts, CallTame
<1>6. index' \in [Indices -> Index]
  BY <1>4, <1>5 DEF Tame
<1>7. \A i \in Indices : i # at => index'[i] = index[i]
  BY <1>4
<1>8. index'[at] = Call(op, at, index[at])
  BY <1>2, <1>4
<1>9. \A i \in Indices : Tame(index'[i])
  BY <1>1, <1>5, <1>7, <1>8, OpFacts
<1>10. ASSUME NEW i \in Indices PROVE index'[i] = Part(o, i, before[i])
  <2> HIDE DEF o, at
  <2>1. index[i] = Part(op, i, before[i]) /\ Tame(before[i]) /\ i \in Int
    BY <1>1, <1>2, OpFacts
  <2>2. CASE op.kind \in Calls
    <3>1. /\ Part(op, i, before[i]) = IF i < at THEN Call(op, i, before[i]) ELSE before[i]
          /\ Part(o, i, before[i]) = IF i < at + 1 THEN Call(o, i, before[i]) ELSE before[i]
      BY <1>3, <2>2, PartIs DEF at
    <3>2. Call(o, i, before[i]) = Call(op, i, before[i])
      BY <1>3 DEF Call
    <3>3. CASE i = at
      BY <1>2, <1>8, <2>1, <3>1, <3>2, <3>3
    <3>4. CASE i # at
      BY <1>2, <1>7, <2>1, <3>1, <3>2, <3>4
    <3>. QED
      BY <3>3, <3>4
  <2>3. CASE op.kind = "unwind"
    <3>1. /\ Part(op, i, before[i]) =
                IF i \in op.done /\ i >= at THEN Started(before[i]) ELSE before[i]
          /\ Part(o, i, before[i]) =
                IF i \in op.done /\ i >= at + 1 THEN Started(before[i]) ELSE before[i]
      BY <1>3, <2>3, PartIs DEF at
    <3>2. CASE i = at /\ i \in op.done
      <4>1. index'[i] = Undone(Started(before[i]))
        BY <1>2, <1>8, <2>1, <2>3, <3>1, <3>2, CallIs
      <4>. QED
        BY <1>2, <2>1, <3>1, <3>2, <4>1, UndoneStarted
    <3>3. CASE i = at /\ i \notin op.done
      <4>1. Call(op, i, index[i]) = index[i]
        BY <2>3, <3>3 DEF Call
      <4>. QED
        BY <1>8, <2>1, <3>1, <3>3, <4>1
    <3>4. CASE i # at
      BY <1>2, <1>7, <2>1, <3>1, <3>4
    <3>. QED
      BY <3>2, <3>3, <3>4
  <2>. QED
    BY <1>1, <2>2, <2>3
<1>. QED
  BY <1>1, <1>6, <1>9, <1>10

(* The last call of a loop has reached all indices.                        *)
LEMMA CallFinished ==
    ASSUME IInv, CallIndex, op.at = N
    PROVE  \A i \in Indices :
              index'[i] = IF op.kind = "unwind" THEN before[i] ELSE Call(op, i, before[i])
<1> DEFINE o == [op EXCEPT !.at = @ + 1]
<1>1. /\ op # Idle /\ op.kind # "damaged"
      /\ \A i \in Indices : index'[i] = Part(o, i, before[i])
  BY CallReaches
<1>2. N \in Int /\ \A i \in Indices : i < N + 1 /\ ~(i >= N + 1)
  BY DatabaseAssumption DEF Indices
<1>3. o.kind = op.kind /\ o.at = N + 1 /\ o.done = op.done /\ o.arg = op.arg
  BY <1>1, OpFacts DEF Begun
<1>4. op.kind \in Calls \cup {"unwind"}
  BY DEF CallIndex, Calls
<1> HIDE DEF o
<1>5. \A i \in Indices : Call(o, i, before[i]) = Call(op, i, before[i])
  BY <1>3 DEF Call
<1>6. CASE op.kind = "unwind"
  BY <1>1, <1>2, <1>3, <1>6, PartIs
<1>7. CASE op.kind \in Calls
  BY <1>1, <1>2, <1>3, <1>5, <1>7, PartIs DEF Calls
<1>. QED
  BY <1>4, <1>6, <1>7

LEMMA CallIndexInvariant ==
    ASSUME IInv, CallIndex
    PROVE  IInv'
<1>1. op # Idle /\ op.kind # "damaged" /\ op.at \in Indices /\ Begun(op)
  BY CallReaches, OpFacts
<1>2. session' = session /\ session \in [Handles -> SUBSET Indices]
  BY DEF CallIndex, Keep, IInv, Typed
<1>3. CASE op.at # N
  <2>1. op' = [op EXCEPT !.at = @ + 1] /\ UNCHANGED <<before, faulty, torn, base, crashes>>
    BY <1>3 DEF CallIndex, Advance, More
  <2>2. /\ op'.kind = op.kind /\ op'.at = op.at + 1 /\ op'.arg = op.arg /\ op'.done = op.done
        /\ op' = [kind |-> op'.kind, at |-> op'.at, arg |-> op'.arg, done |-> op'.done]
    BY <1>1, <2>1 DEF Begun
  <2>3. op'.at \in Indices
    BY <1>1, <1>3, <2>2, DatabaseAssumption DEF Indices
  <2>4. op.kind \notin {"start", "set_revision"}
    BY DEF CallIndex
  <2>5. Begun(op)'
    BY <1>1, <2>1, <2>2, <2>3, <2>4 DEF Begun
  <2>. QED
    BY <1>1, <1>2, <2>1, <2>2, <2>5, CallReaches, MoreInvariant
<1>4. CASE op.at = N
  <2>1. Over
    BY <1>4 DEF CallIndex, Advance
  <2>2. \A i \in Indices :
           index'[i] = IF op.kind = "unwind" THEN before[i] ELSE Call(op, i, before[i])
    BY <1>4, CallFinished
  <2>3. op.kind \in Calls \cup {"unwind"}
    BY DEF CallIndex, Calls
  <2>4. ASSUME torn = "no" PROVE Same(index')
    <3>1. Same(before)
      BY <1>1, <2>4, OpFacts
    <3>2. CASE op.kind = "unwind"
      BY <2>2, <3>1, <3>2 DEF Same
    <3>3. CASE op.kind \in Calls
      <4>1. /\ \A i \in Indices : index'[i] = Call(op, i, before[i]) /\ Tame(before[i])
            /\ op.kind \in {"session_undo", "session_squash"} => op.done = Indices
        BY <1>1, <2>2, <2>4, <3>3, OpFacts DEF Calls
      <4>. QED
        BY <1>1, <3>1, <3>3, <4>1, CallSame DEF Same
    <3>. QED
      BY <2>3, <3>2, <3>3
  <2>5. ASSUME torn = "recoverable", op.kind = "undo_all" PROVE Same(index')
    <3>1. \A i \in Indices : index'[i] = UndoneAll(before[i]) /\ Tame(before[i])
      BY <1>1, <2>2, <2>5, OpFacts, CallAll
    <3>2. \A i, j \in Indices : base[i].revision = base[j].revision
      BY <2>5 DEF IInv, Restorable
    <3>3. \A i \in Indices : base[i] = Oldest(before[i])
      BY <1>1, <2>5, OpFacts DEF Bases
    <3>4. \A i \in Indices : /\ index'[i].revision = base[i].revision
                             /\ index'[i].stack = <<>>
      BY <3>1, <3>3, UndoneAllFacts, OldestTyped
    <3>. QED
      BY <3>2, <3>4 DEF Same
  <2>6. ASSUME torn = "recoverable" PROVE Bases(index') = base
    <3>1. op.kind \in Undos /\ base = Bases(before)
      BY <1>1, <2>6, OpFacts
    <3>2. \A i \in Indices : index'[i] = Call(op, i, before[i]) /\ Tame(before[i])
      BY <1>1, <2>2, <3>1, OpFacts DEF Undos
    <3>3. \A i \in Indices : Oldest(index'[i]) = Oldest(before[i])
      BY <3>1, <3>2, CallOldest
    <3>. QED
      BY <3>1, <3>3 DEF Bases
  <2>7. /\ torn' = "no" => torn = "no" \/ (torn = "recoverable" /\ op.kind = "undo_all")
        /\ torn' = "recoverable" => torn = "recoverable"
    BY <2>1 DEF Over, Now
  <2>. QED
    BY <1>1, <1>2, <2>1, <2>4, <2>5, <2>6, <2>7, CallReaches, OverInvariant
<1>. QED
  BY <1>3, <1>4

LEMMA StartIndexInvariant ==
    ASSUME IInv, StartIndex
    PROVE  IInv'
<1> DEFINE at == op.at
           x == index[at]
<1>1. op.kind = "start" /\ op # Idle /\ op.kind # "damaged"
  BY DEF StartIndex, Now, Idle
<1>2. /\ Begun(op) /\ at \in Indices /\ at \in Int /\ N \in Int /\ N >= 1
      /\ op.arg \in Handles /\ op.done = 1 .. at - 1
      /\ \A i \in Indices : i \in Int /\ i >= 1
  BY <1>1, OpFacts, DatabaseAssumption DEF Begun, Indices
<1>3. Tame(x) /\ x = before[at]
  BY <1>1, <1>2, OpFacts, PartIs
<1>4. Tame(Started(x)) /\ Started(x).revision # Sentinel
  <2>1. /\ Tame(Started(x))
        /\ Started(x).revision = x.revision + 1 /\ x.revision + 1 >= 0
    BY <1>3, StartedFacts
  <2>2. x.revision \in Int
    BY <1>3, IndexFields DEF Tame
  <2>. QED
    BY <2>1, <2>2 DEF Sentinel
<1>5. /\ index \in [Indices -> Index]
      /\ index' = [index EXCEPT ![at] = Started(x)]
  BY DEF IInv, Typed, StartIndex
<1> DEFINE done == 1 .. at
<1>6. op.done \cup (IF Started(x).revision = Sentinel THEN {} ELSE {at}) = done
  BY <1>2, <1>4 DEF Indices
<1>7. /\ index' \in [Indices -> Index] /\ index'[at] = Started(before[at])
      /\ \A i \in Indices : i # at => index'[i] = index[i]
  BY <1>2, <1>3, <1>4, <1>5 DEF Tame
<1>8. \A i \in Indices : Tame(index'[i])
  BY <1>1, <1>3, <1>4, <1>7, OpFacts
<1>9. \A i \in Indices : index[i] = IF i < at THEN Started(before[i]) ELSE before[i]
  BY <1>1, OpFacts, PartIs
<1>10. \A i \in Indices : index'[i] = IF i < at + 1 THEN Started(before[i]) ELSE before[i]
  <2> HIDE DEF at
  <2>1. TAKE i \in Indices
  <2>2. CASE i = at
    BY <1>2, <1>7, <2>2
  <2>3. CASE i # at
    <3>1. i < at <=> i < at + 1
      BY <1>2, <2>3
    <3>2. index'[i] = index[i]
      BY <1>7, <2>3
    <3>. QED
      BY <1>9, <3>1, <3>2
  <2>. QED
    BY <2>2, <2>3
<1>11. CASE at # N
  <2>1. /\ op' = [op EXCEPT !.at = @ + 1, !.done = done]
        /\ UNCHANGED <<session, before, faulty, torn, base, crashes>>
    <3> HIDE DEF done
    <3>. QED
      BY <1>6, <1>11 DEF StartIndex
  <2>2. /\ op'.kind = "start" /\ op'.at = at + 1 /\ op'.arg = op.arg /\ op'.done = done
        /\ op' = [kind |-> op'.kind, at |-> op'.at, arg |-> op'.arg, done |-> op'.done]
    BY <1>1, <1>2, <2>1 DEF Begun
  <2>3. op'.at \in Indices /\ done = 1 .. op'.at - 1 /\ done \subseteq Indices
    BY <1>2, <1>11, <2>2 DEF Indices
  <2> HIDE DEF done
  <2>4. Begun(op)'
    BY <1>2, <2>1, <2>2, <2>3 DEF Begun, Kinds
  <2>5. \A i \in Indices : index'[i] = Part(op', i, before[i])
    BY <1>10, <2>2, PartIs
  <2>. QED
    BY <1>1, <1>7, <1>8, <2>1, <2>2, <2>4, <2>5, MoreInvariant
<1>12. CASE at = N
  <2>1. Over /\ session' = [session EXCEPT ![op.arg] = done]
    <3> HIDE DEF done
    <3>. QED
      BY <1>6, <1>12 DEF StartIndex
  <2>2. session' \in [Handles -> SUBSET Indices]
    BY <1>12, <2>1 DEF IInv, Typed, Indices
  <2>3. \A i \in Indices : index'[i] = Started(before[i]) /\ Tame(before[i])
    BY <1>1, <1>2, <1>10, <1>12, OpFacts DEF Indices
  <2>4. (torn # "lost" => Same(before)) /\ torn # "recoverable"
    BY <1>1, OpFacts DEF Undos
  <2>5. \A i \in Indices : /\ index'[i].revision = before[i].revision + 1
                           /\ Len(index'[i].stack) = Len(before[i].stack) + 1
    BY <2>3, StartedFacts
  <2>6. torn # "lost" => Same(index')
    <3>1. SUFFICES ASSUME torn # "lost", NEW i \in Indices, NEW j \in Indices
                   PROVE  /\ index'[i].revision = index'[j].revision
                          /\ Len(index'[i].stack) = Len(index'[j].stack)
      BY DEF Same
    <3>2. /\ before[i].revision = before[j].revision
          /\ Len(before[i].stack) = Len(before[j].stack)
      BY <2>4, <3>1 DEF Same
    <3>. QED
      BY <2>5, <3>2
  <2>. QED
    BY <1>1, <1>7, <1>8, <2>1, <2>2, <2>4, <2>6, OverInvariant DEF Over
<1>. QED
  BY <1>11, <1>12

LEMMA StartThrowsInvariant ==
    ASSUME IInv, StartThrows
    PROVE  IInv'
<1>1. op.kind = "start" /\ op # Idle /\ op.kind # "damaged"
  BY DEF StartThrows, Now, Idle
<1>2. /\ Begun(op) /\ op.at \in Indices /\ op.done = 1 .. op.at - 1
      /\ 1 \in Indices /\ \A i \in Indices : i \in Int /\ i >= 1
  BY <1>1, OpFacts, DatabaseAssumption DEF Begun, Indices
<1>3. /\ op' = [op EXCEPT !.kind = "unwind", !.at = 1]
      /\ UNCHANGED <<index, session, before, faulty, torn, base, crashes>>
  BY DEF StartThrows
<1>4. /\ op'.kind = "unwind" /\ op'.at = 1 /\ op'.arg = op.arg /\ op'.done = op.done
      /\ op' = [kind |-> op'.kind, at |-> op'.at, arg |-> op'.arg, done |-> op'.done]
  BY <1>2, <1>3 DEF Begun
<1>5. Begun(op)'
  BY <1>2, <1>3, <1>4 DEF Begun, Kinds
<1>6. ASSUME NEW i \in Indices PROVE index'[i] = Part(op', i, before[i])
  <2>1. index'[i] = IF i < op.at THEN Started(before[i]) ELSE before[i]
    BY <1>1, <1>3, OpFacts, PartIs
  <2>2. Part(op', i, before[i]) = IF i \in op.done /\ i >= 1 THEN Started(before[i]) ELSE before[i]
    BY <1>4, PartIs
  <2>3. i < op.at <=> i \in op.done /\ i >= 1
    BY <1>2
  <2>. QED
    BY <2>1, <2>2, <2>3
<1>7. index' \in [Indices -> Index] /\ \A i \in Indices : Tame(index'[i])
  BY <1>1, <1>3, OpFacts DEF IInv, Typed
<1>. QED
  BY <1>1, <1>3, <1>5, <1>6, <1>7, MoreInvariant

LEMMA SetRevisionInvariant ==
    ASSUME IInv, SetRevision
    PROVE  IInv'
<1> DEFINE at == op.at
<1>1. op.kind = "set_revision" /\ op # Idle /\ op.kind # "damaged"
  BY DEF SetRevision, Now, Idle
<1>2. /\ Begun(op) /\ at \in Indices /\ at \in Int /\ N \in Int /\ N >= 1
      /\ op.arg \in Int /\ op.arg >= -1
      /\ \A i \in 1 .. at - 1 : before[i].stack = <<>>
      /\ \A i \in Indices : i \in Int /\ i >= 1
  BY <1>1, OpFacts, DatabaseAssumption DEF Begun, Indices
<1>3. Tame(index[at]) /\ index[at] = before[at]
  BY <1>1, <1>2, OpFacts, PartIs
<1>4. session' = session /\ session \in [Handles -> SUBSET Indices]
  BY DEF SetRevision, Keep, IInv, Typed
<1>5. (torn # "lost" => Same(before)) /\ torn # "recoverable"
  BY <1>1, OpFacts DEF Undos
<1>6. index \in [Indices -> Index]
  BY DEF IInv, Typed
<1>7. CASE index[at].stack # <<>>
  <2>1. index' = index /\ Over
    BY <1>7 DEF SetRevision
  <2>2. index' \in [Indices -> Index] /\ \A i \in Indices : Tame(index'[i])
    BY <1>1, <1>6, <2>1, OpFacts
  <2>3. ASSUME torn # "lost" PROVE Same(index')
    <3>1. \A i \in Indices : Len(before[i].stack) = Len(before[at].stack)
      BY <1>2, <1>5, <2>3 DEF Same
    <3>2. Len(before[at].stack) # 0
      BY <1>3, <1>7, IndexFields, EmptySeq DEF Tame
    <3>3. \A i \in Indices : ~(i < at)
      <4>1. \A i \in Indices : i < at => i \in 1 .. at - 1
        BY <1>2
      <4>2. Len(<<>>) = 0
        OBVIOUS
      <4>. HIDE DEF at
      <4>. QED
        BY <1>2, <3>1, <3>2, <4>1, <4>2
    <3>4. \A i \in Indices : index[i] = before[i]
      BY <1>1, <3>3, OpFacts, PartIs
    <3>. QED
      BY <1>5, <2>1, <2>3, <3>4 DEF Same
  <2>. QED
    BY <1>1, <1>4, <1>5, <2>1, <2>2, <2>3, OverInvariant DEF Over
<1>8. CASE index[at].stack = <<>>
  <2> DEFINE y == Revised(index[at], op.arg)
  <2>1. Tame(y)
    BY <1>2, <1>3, <1>8, RevisedFacts
  <2>2. /\ index' = [index EXCEPT ![at] = y] /\ Advance
    BY <1>8 DEF SetRevision, Revised
  <2>3. /\ index' \in [Indices -> Index] /\ index'[at] = y
        /\ \A i \in Indices : i # at => index'[i] = index[i]
    <3>. HIDE DEF y
    <3>. QED
      BY <1>2, <1>6, <2>1, <2>2 DEF Tame
  <2>4. \A i \in Indices : Tame(index'[i])
    BY <1>1, <2>1, <2>3, OpFacts
  <2>5. \A i \in Indices :
           index[i] = IF i < at THEN Revised(before[i], op.arg) ELSE before[i]
    BY <1>1, OpFacts, PartIs
  <2>6. \A i \in Indices :
           index'[i] = IF i < at + 1 THEN Revised(before[i], op.arg) ELSE before[i]
    <3>1. y = Revised(before[at], op.arg)
      BY <1>3
    <3> HIDE DEF at, y
    <3>2. TAKE i \in Indices
    <3>3. CASE i = at
      BY <1>2, <2>3, <3>1, <3>3
    <3>4. CASE i # at
      BY <1>2, <2>3, <2>5, <3>4
    <3>. QED
      BY <3>3, <3>4
  <2>7. CASE at # N
    <3>1. op' = [op EXCEPT !.at = @ + 1] /\ UNCHANGED <<before, faulty, torn, base, crashes>>
      BY <2>2, <2>7 DEF Advance, More
    <3>2. /\ op'.kind = op.kind /\ op'.at = at + 1 /\ op'.arg = op.arg /\ op'.done = op.done
          /\ op' = [kind |-> op'.kind, at |-> op'.at, arg |-> op'.arg, done |-> op'.done]
      BY <1>2, <3>1 DEF Begun
    <3>3. op'.at \in Indices /\ 1 .. op'.at - 1 = (1 .. at - 1) \cup {at}
      BY <1>2, <2>7, <3>2 DEF Indices
    <3>4. \A i \in 1 .. op'.at - 1 : before[i].stack = <<>>
      BY <1>2, <1>3, <1>8, <3>3
    <3>5. Begun(op)'
      BY <1>1, <1>2, <3>1, <3>2, <3>3, <3>4 DEF Begun, Kinds
    <3>6. \A i \in Indices : index'[i] = Part(op', i, before[i])
      BY <1>1, <2>6, <3>2, PartIs
    <3>. QED
      BY <1>1, <1>4, <2>3, <2>4, <3>1, <3>2, <3>5, <3>6, MoreInvariant
  <2>8. CASE at = N
    <3>1. Over
      BY <2>2, <2>8 DEF Advance
    <3>2. \A i \in Indices : index'[i] = Revised(before[i], op.arg)
      BY <1>2, <2>6, <2>8 DEF Indices
    <3>3. \A i \in Indices : before[i].stack = <<>> /\ Tame(before[i])
      <4>1. \A i \in Indices : i \in 1 .. at - 1 \/ i = at
        BY <1>2, <2>8 DEF Indices
      <4>. QED
        BY <1>1, <1>2, <1>3, <1>8, <4>1, OpFacts
    <3>4. \A i \in Indices : index'[i].revision = op.arg /\ index'[i].stack = <<>>
      <4>1. TAKE i \in Indices
      <4>2. /\ Revised(before[i], op.arg).revision = op.arg
            /\ Revised(before[i], op.arg).stack = <<>>
        BY <1>2, <3>3, RevisedFacts
      <4>. QED
        BY <3>2, <4>2
    <3>5. Same(index')
      BY <3>4 DEF Same
    <3>. QED
      BY <1>1, <1>4, <1>5, <2>3, <2>4, <3>1, <3>5, OverInvariant DEF Over
  <2>. QED
    BY <2>7, <2>8
<1>. QED
  BY <1>7, <1>8

-----------------------------------------------------------------------------
(* What undo_all() would restore                                           *)

LEMMA OldestKept ==
    ASSUME IInv, torn # "lost", ~Drops
    PROVE  Bases(index) = base
<1>1. CASE op = Idle
  BY <1>1 DEF IInv, Restorable, Visible
<1>2. CASE op # Idle
  <2>1. base = Bases(before) /\ op.kind # "damaged"
    BY <1>2 DEF IInv, Restorable, Recovery, Visible
  <2>2. ASSUME NEW i \in Indices PROVE Oldest(index[i]) = Oldest(before[i])
    <3>1. Tame(before[i]) /\ index[i] = Part(op, i, before[i]) /\ Begun(op)
      BY <1>2, <2>1, OpFacts
    <3>2. Oldest(Started(before[i])) = Oldest(before[i])
      BY <3>1, StartedFacts
    <3>3. CASE op.kind \in {"start", "unwind"}
      BY <3>1, <3>2, <3>3, PartIs
    <3>4. CASE op.kind \in Calls
      <4>1. index[i] = IF i < op.at THEN Call(op, i, before[i]) ELSE before[i]
        BY <3>1, <3>4, PartIs
      <4>2. CASE op.kind \in Undos
        BY <3>1, <4>1, <4>2, CallOldest
      <4>3. CASE op.kind \in {"squash", "session_squash"}
        <5>1. Call(op, i, before[i]) \in {Squashed(before[i]), before[i]}
          BY <4>3 DEF Call
        <5>2. Len(before[i].stack) > 1
          BY <4>3 DEF Drops, Undoable
        <5>. QED
          BY <3>1, <4>1, <5>1, <5>2, SquashedFacts
      <4>4. op.kind # "commit"
        BY DEF Drops
      <4>. QED
        BY <3>4, <4>2, <4>3, <4>4 DEF Calls, Undos
    <3>. QED
      BY <2>1, <3>1, <3>3, <3>4 DEF Begun, Kinds, Calls, Drops
  <2>. QED
    BY <2>1, <2>2 DEF Bases
<1>. QED
  BY <1>1, <1>2

LEMMA DieInvariant ==
    ASSUME IInv, Die
    PROVE  IInv'
<1>1. /\ op' = Idle /\ index' = index /\ before' = before /\ base' = base
      /\ Visible' = index
  BY DEF Die, Visible
<1>2. Typed'
  <2>1. torn' \in {"no", "recoverable", "lost"}
    BY DEF Die, IInv, Typed
  <2>2. crashes' \in 0 .. MaxCrashes
    BY DatabaseAssumption DEF Die, IInv, Typed
  <2>. QED
    BY <1>1, <2>1, <2>2 DEF IInv, Typed, Die
<1>3. Contiguous'
  BY <1>1 DEF IInv, Contiguous
<1>4. Progress' /\ Recovery'
  BY <1>1 DEF Progress, Recovery, Idle
<1>5. CASE ~Half
  <2>1. torn' = torn /\ Visible = index
    BY <1>5 DEF Half, Die, Visible
  <2>2. Agreement'
    BY <1>1, <2>1 DEF IInv, Agreement, Same
  <2>3. Restorable'
    BY <1>1, <2>1 DEF IInv, Restorable, Bases
  <2>. QED
    BY <1>2, <1>3, <1>4, <2>2, <2>3 DEF IInv
<1>6. CASE Half
  <2>1. torn' \in {"recoverable", "lost"}
    BY <1>6 DEF Die
  <2>2. Agreement'
    BY <2>1 DEF Agreement
  <2>3. Restorable'
    <3>1. SUFFICES ASSUME torn' # "lost" PROVE Restorable'
      BY DEF Restorable
    <3>2. Undoable /\ torn # "lost"
      BY <1>6, <3>1 DEF Die
    <3>3. ~Drops
      BY <3>2 DEF Undoable, Drops
    <3>4. Bases(index) = base
      BY <3>2, <3>3, OldestKept
    <3>5. \A i, j \in Indices : base[i].revision = base[j].revision
      BY <3>2 DEF IInv, Restorable
    <3>. QED
      BY <1>1, <3>4, <3>5 DEF Restorable, Bases
  <2>. QED
    BY <1>2, <1>3, <1>4, <2>2, <2>3 DEF IInv
<1>. QED
  BY <1>5, <1>6

(***************************************************************************)
(* An exception leaves undo().                                             *)
(***************************************************************************)
LEMMA InterruptedFacts ==
    ASSUME NEW x, Tame(x), NEW n \in 1 .. Len(x.stack), NEW c \in Values
    PROVE  LET y == Interrupted(x, n, c)
           IN  /\ Tame(y) /\ Oldest(y) = Oldest(x)
               /\ n = Len(x.stack) => y.stack = x.stack /\ y.revision = x.revision
<1> DEFINE s == x.stack
           l == Len(s)
           p == SubSeq(s, 1, n)
           y == Interrupted(x, n, c)
<1>1. /\ x \in Index /\ s \in Seq(Stacked) /\ x.revision \in Int /\ l \in Nat
      /\ \A d \in 1 .. l : s[d].revision = Oldest_revision(x) + d
  BY IndexFields DEF Tame
<1>2. n \in Nat /\ n >= 1 /\ n <= l /\ \A d \in 1 .. n : d \in 1 .. l /\ s[d] \in Stacked
  BY <1>1, ElementOfSeq
<1> HIDE DEF s, l
<1>3. p \in Seq(Stacked) /\ Len(p) = n /\ \A d \in 1 .. n : p[d] = s[d]
  <2>1. /\ p \in Seq(Stacked) /\ Len(p) = (IF 1 <= n THEN n - 1 + 1 ELSE 0)
        /\ \A d \in 1 .. n - 1 + 1 : p[d] = s[1 + d - 1]
    BY <1>2, SubSeqProperties
  <2>2. \A d \in 1 .. n : d \in 1 .. n - 1 + 1 /\ 1 + d - 1 = d
    BY <1>2
  <2> HIDE DEF p
  <2>. QED
    BY <1>2, <2>1, <2>2
<1>4. /\ y = [content |-> c, stack |-> p, revision |-> x.revision - (l - n)]
      /\ y.content = c /\ y.stack = p /\ y.revision = x.revision - (l - n)
  BY DEF Interrupted, s, l
<1> HIDE DEF p
<1>5. y \in Index
  BY <1>1, <1>2, <1>3, <1>4 DEF Index
<1> HIDE DEF y
<1>6. Oldest_revision(y) = Oldest_revision(x)
  BY <1>1, <1>2, <1>3, <1>4 DEF Oldest_revision, s, l
<1>7. Tame(y)
  BY <1>1, <1>2, <1>3, <1>4, <1>5, <1>6 DEF Tame
<1>8. Oldest(y) = Oldest(x)
  <2>1. 1 \in 1 .. n /\ Len(y.stack) # 0 /\ l # 0
    BY <1>2, <1>3, <1>4
  <2>2. y.stack[1].content = x.stack[1].content
    BY <1>3, <1>4, <2>1 DEF s
  <2>. QED
    BY <1>1, <1>5, <1>6, <2>1, <2>2, SameOldest DEF l, s
<1>9. n = l => y.stack = s /\ y.revision = x.revision
  <2>1. n = l => p = s
    BY <1>1, <1>2, <1>3, SeqEqual DEF l
  <2>. QED
    BY <1>1, <1>2, <1>4, <2>1
<1>. QED
  BY <1>7, <1>8, <1>9 DEF y, s, l

(* Where the indices are after it.                                         *)
LEMMA ThrowReaches ==
    ASSUME IInv, op # Idle, Throws
    PROVE  /\ op.kind \in Undos
           /\ op' = Idle /\ before' = before /\ base' = base
           /\ index' \in [Indices -> Index] /\ faulty' \subseteq Indices
           /\ torn' \in {"no", "recoverable", "lost"}
           /\ \A i \in Indices : Tame(index'[i]) /\ Oldest(index'[i]) = Oldest(before[i])
           /\ torn' # "lost" => torn # "lost"
           /\ torn' = "no" => /\ torn = "no"
                              /\ \A i \in Indices : /\ index'[i].stack = before[i].stack
                                                     /\ index'[i].revision = before[i].revision
<1> DEFINE at == op.at
           x == index[at]
<1>1. PICK n \in 1 .. Len(x.stack), c \in Values : UndoThrows(n, c)
  BY DEF Throws
<1> DEFINE y == Interrupted(x, n, c)
<1>2. /\ op.kind \in Undos /\ op.kind # "damaged" /\ op.kind \in Calls
      /\ op' = Idle /\ before' = before /\ base' = base
      /\ index' = [index EXCEPT ![at] = y] /\ faulty' = faulty \cup {at}
      /\ torn' = IF torn = "no" /\ (at # 1 \/ n # Len(x.stack)) THEN "recoverable" ELSE torn
  BY <1>1 DEF UndoThrows, Undoing, Undos, Calls
<1>3. /\ at \in Indices /\ index \in [Indices -> Index] /\ faulty \subseteq Indices
      /\ torn \in {"no", "recoverable", "lost"}
      /\ \A i \in Indices : i \in Int /\ i >= 1
      /\ \A i \in Indices : Tame(index[i]) /\ Tame(before[i])
      /\ \A i \in Indices : index[i] = IF i < at THEN Call(op, i, before[i]) ELSE before[i]
  BY <1>2, OpFacts, PartIs DEF IInv, Typed, Indices
<1>4. /\ Tame(y) /\ Oldest(y) = Oldest(x)
      /\ n = Len(x.stack) => y.stack = x.stack /\ y.revision = x.revision
  BY <1>3, InterruptedFacts
<1> HIDE DEF y
<1>5. /\ index' \in [Indices -> Index] /\ index'[at] = y
      /\ \A i \in Indices : i # at => index'[i] = index[i]
  BY <1>2, <1>3, <1>4 DEF Tame
<1>6. ASSUME NEW i \in Indices
      PROVE  Tame(index'[i]) /\ Oldest(index'[i]) = Oldest(before[i])
  <2>1. Oldest(Call(op, i, before[i])) = Oldest(before[i])
    BY <1>2, <1>3, CallOldest
  <2>2. Oldest(index[i]) = Oldest(before[i])
    BY <1>3, <2>1
  <2>. QED
    BY <1>3, <1>4, <1>5, <2>2
<1>7. ASSUME torn' = "no", NEW i \in Indices
      PROVE  index'[i].stack = before[i].stack /\ index'[i].revision = before[i].revision
  <2>1. at = 1 /\ n = Len(x.stack)
    BY <1>2, <1>7
  <2>2. index[i] = before[i]
    BY <1>3, <2>1
  <2>. QED
    BY <1>4, <1>5, <2>1, <2>2
<1>. QED
  BY <1>2, <1>3, <1>5, <1>6, <1>7

LEMMA ThrowInvariant ==
    ASSUME IInv, op # Idle, Throws, session' \in [Handles -> SUBSET Indices],
           crashes' \in 0 .. MaxCrashes
    PROVE  IInv'
<1>1. op.kind # "damaged" /\ op' = Idle /\ Visible' = index'
  BY ThrowReaches DEF Undos, Visible
<1>2. Typed'
  BY ThrowReaches DEF IInv, Typed
<1>3. Contiguous'
  BY ThrowReaches DEF IInv, Contiguous
<1>4. Progress' /\ Recovery'
  BY <1>1 DEF Progress, Recovery, Idle
<1>5. Agreement'
  <2>1. SUFFICES ASSUME torn' = "no" PROVE Same(index')
    BY <1>1 DEF Agreement, Same
  <2>2. Same(before)
    BY <1>1, <2>1, OpFacts, ThrowReaches
  <2>. QED
    BY <2>1, <2>2, ThrowReaches DEF Same
<1>6. Restorable'
  <2>1. SUFFICES ASSUME torn' # "lost" PROVE Restorable'
    BY DEF Restorable
  <2>2. base = Bases(before) /\ torn # "lost"
    BY <1>1, <2>1, OpFacts, ThrowReaches
  <2>3. \A i, j \in Indices : base[i].revision = base[j].revision
    BY <2>2 DEF IInv, Restorable
  <2>4. base' = base /\ Bases(index') = Bases(before)
    BY ThrowReaches DEF Bases
  <2>. QED
    BY <1>1, <2>2, <2>3, <2>4 DEF Restorable, Bases
<1>. QED
  BY <1>2, <1>3, <1>4, <1>5, <1>6 DEF IInv

LEMMA CallThrowsInvariant ==
    ASSUME IInv, CallThrows
    PROVE  IInv'
<1>1. session' \in [Handles -> SUBSET Indices]
  <2>1. op # Idle => op.done \subseteq Indices
    BY DEF IInv, Typed, Begun
  <2>. QED
    BY <2>1 DEF CallThrows, IInv, Typed
<1>2. crashes' \in 0 .. MaxCrashes
  BY DEF CallThrows, IInv, Typed
<1>. QED
  BY <1>1, <1>2, ThrowInvariant DEF CallThrows

LEMMA DestructorThrowsInvariant ==
    ASSUME IInv, DestructorThrows
    PROVE  IInv'
<1>1. op # Idle
  BY DEF DestructorThrows, Now, Idle
<1>2. session' \in [Handles -> SUBSET Indices]
  BY DEF DestructorThrows
<1>3. crashes' \in 0 .. MaxCrashes
  BY DatabaseAssumption DEF DestructorThrows, IInv, Typed
<1>. QED
  BY <1>1, <1>2, <1>3, ThrowInvariant DEF DestructorThrows

LEMMA CallDamagesInvariant ==
    ASSUME IInv, CallDamages
    PROVE  IInv'
<1>1. /\ op # Idle /\ Begun(op) /\ op' = [op EXCEPT !.kind = "damaged"] /\ torn' = "lost"
      /\ UNCHANGED <<index, session, before, faulty, base, crashes>>
  BY DEF CallDamages, IInv, Typed
<1>2. /\ op' = [kind |-> "damaged", at |-> op.at, arg |-> op.arg, done |-> op.done]
      /\ op'.kind = "damaged"
  BY <1>1 DEF Begun
<1>3. Begun(op)'
  BY <1>1, <1>2 DEF Begun, Kinds
<1>4. Typed' /\ Contiguous'
  BY <1>1, <1>3 DEF IInv, Typed, Contiguous
<1>5. Progress' /\ Agreement' /\ Restorable' /\ Recovery'
  BY <1>1, <1>2 DEF Progress, Agreement, Restorable, Recovery
<1>. QED
  BY <1>4, <1>5 DEF IInv

LEMMA ChangedFacts ==
    ASSUME NEW x, Tame(x), NEW v \in Values
    PROVE  LET y == [x EXCEPT !.content = v]
           IN  Tame(y) /\ y.stack = x.stack /\ y.revision = x.revision
<1> DEFINE y == [x EXCEPT !.content = v]
<1>1. x \in Index /\ x = [content |-> x.content, stack |-> x.stack, revision |-> x.revision]
  BY IndexFields DEF Tame
<1>2. /\ y \in Index /\ y.stack = x.stack /\ y.revision = x.revision
  BY <1>1 DEF Index
<1> HIDE DEF y
<1>3. Oldest_revision(y) = Oldest_revision(x)
  BY <1>2 DEF Oldest_revision
<1>. QED
  BY <1>2, <1>3 DEF Tame, y

LEMMA ChangeInvariant ==
    ASSUME IInv, NEW i \in Indices, NEW v \in Values, Change(i, v)
    PROVE  IInv'
<1> DEFINE y == [index[i] EXCEPT !.content = v]
<1>1. op = Idle /\ op' = Idle /\ Tame(index[i]) /\ index \in [Indices -> Index]
  BY DEF Change, IInv, Contiguous, Typed
<1>2. Tame(y) /\ y.stack = index[i].stack /\ y.revision = index[i].revision
  BY <1>1, ChangedFacts
<1>3. index' = [index EXCEPT ![i] = y]
  BY DEF Change
<1>4. /\ index' \in [Indices -> Index] /\ index'[i] = y
      /\ \A j \in Indices : j # i => index'[j] = index[j]
  <2>. HIDE DEF y
  <2>. QED
    BY <1>1, <1>2, <1>3 DEF Tame
<1> HIDE DEF y
<1>5. \A j \in Indices : /\ Tame(index'[j]) /\ index'[j].revision = index[j].revision
                         /\ Len(index'[j].stack) = Len(index[j].stack)
  BY <1>2, <1>4 DEF IInv, Contiguous
<1>6. /\ torn' = IF torn = "recoverable" THEN "lost" ELSE torn
      /\ base' = IF torn' = "lost" THEN base ELSE Bases(index')
      /\ UNCHANGED <<session, before, crashes>>
      /\ faulty' \subseteq Indices
  BY DEF Change, IInv, Typed
<1>7. Visible' = index' /\ Visible = index
  BY <1>1 DEF Visible
<1>8. Typed'
  <2>1. Bases(index') \in [Indices -> State]
    BY <1>5, BasesTyped
  <2>2. base' \in [Indices -> State]
    BY <1>6, <2>1 DEF IInv, Typed
  <2>. QED
    BY <1>1, <1>4, <1>6, <2>2 DEF IInv, Typed
<1>9. Contiguous'
  BY <1>5, <1>6 DEF IInv, Contiguous
<1>10. Progress' /\ Recovery'
  BY <1>1 DEF Progress, Recovery, Idle
<1>11. torn' # "lost" => torn = "no" /\ Same(index)
  BY <1>6, <1>7 DEF IInv, Typed, Agreement
<1>12. torn' # "lost" => Same(index')
  BY <1>5, <1>11 DEF Same
<1>13. Agreement'
  BY <1>7, <1>12 DEF Agreement, Same
<1>14. Restorable'
  <2>1. SUFFICES ASSUME torn' # "lost"
                 PROVE  \A j, k \in Indices : base'[j].revision = base'[k].revision
    BY <1>6, <1>7 DEF Restorable, Bases
  <2>2. \A j \in Indices : base'[j].revision = index'[j].revision - Len(index'[j].stack)
    BY <1>5, <1>6, <2>1, OldestTyped DEF Bases, Oldest_revision
  <2>. QED
    BY <1>12, <2>1, <2>2 DEF Same
<1>. QED
  BY <1>8, <1>9, <1>10, <1>13, <1>14 DEF IInv

-----------------------------------------------------------------------------
LEMMA InitInvariant == Init => IInv
<1> SUFFICES ASSUME Init PROVE IInv
  OBVIOUS
<1>1. PICK v \in [Indices -> Values] :
         /\ index = [i \in Indices |-> [content |-> v[i], stack |-> <<>>, revision |-> 0]]
         /\ base = [i \in Indices |-> [content |-> v[i], revision |-> 0]]
  BY DEF Init
<1>2. /\ session = [h \in Handles |-> {}] /\ op = Idle /\ before = index
      /\ faulty = {} /\ torn = "no" /\ crashes = 0 /\ Visible = index
  BY DEF Init, Visible
<1>3. <<>> \in Seq(Stacked) /\ Len(<<>>) = 0
  OBVIOUS
<1>4. \A i \in Indices : /\ index[i] \in Index /\ index[i].stack = <<>>
                         /\ index[i].revision = 0 /\ index[i].content = v[i]
                         /\ base[i] = [content |-> v[i], revision |-> 0]
  BY <1>1, <1>3 DEF Index
<1>5. Typed
  BY <1>1, <1>2, <1>4, DatabaseAssumption DEF Typed, State
<1>6. ASSUME NEW i \in Indices
      PROVE  Tame(index[i]) /\ Oldest(index[i]) = base[i] /\ base[i].revision = 0
  <2> DEFINE x == index[i]
  <2>1. /\ x \in Index /\ x.stack = <<>> /\ x.revision = 0 /\ x.content = v[i]
        /\ base[i] = [content |-> v[i], revision |-> 0]
    BY <1>4
  <2> HIDE DEF x
  <2>2. Len(x.stack) = 0
    BY <1>3, <2>1
  <2>3. Oldest_revision(x) = 0
    <3>1. Oldest_revision(x) = x.revision - Len(x.stack)
      BY DEF Oldest_revision
    <3>. QED
      BY <2>1, <2>2, <3>1
  <2>4. Tame(x)
    BY <2>1, <2>2, <2>3 DEF Tame
  <2>5. Oldest(x) = base[i]
    BY <2>1, <2>2 DEF Oldest
  <2>. QED
    BY <2>1, <2>4, <2>5 DEF x
<1>10. Contiguous
  BY <1>2, <1>6 DEF Contiguous
<1>7. Progress /\ Recovery
  BY <1>2 DEF Progress, Recovery, Idle
<1>8. Agreement
  BY <1>2, <1>4 DEF Agreement, Same
<1>9. Restorable
  <2>1. base = Bases(index)
    BY <1>1, <1>6 DEF Bases
  <2>. QED
    BY <1>2, <1>6, <2>1 DEF Restorable
<1>. QED
  BY <1>5, <1>7, <1>8, <1>9, <1>10 DEF IInv

LEMMA ClientInvariant ==
    ASSUME IInv, NoSentinel,
           \/ \E h \in Handles : start_undo_session(h) \/ session_undo(h) \/ session_squash(h)
           \/ undo \/ squash \/ undo_all
           \/ \E r \in -MaxRevision .. MaxRevision : commit(r)
           \/ \E r \in Revisions : set_revision(r)
    PROVE  IInv'
<1>1. session \in [Handles -> SUBSET Indices] /\ 1 \in Indices /\ 1 .. 1 - 1 = {}
  BY DatabaseAssumption DEF IInv, Typed, Indices
<1>2. ASSUME NEW h \in Handles, start_undo_session(h) PROVE IInv'
  <2>1. Begin("start", h, {}) /\ session' = session
    BY <1>2 DEF start_undo_session, Keep
  <2>2. op' = [kind |-> "start", at |-> 1, arg |-> h, done |-> {}]
    BY <2>1 DEF Begin
  <2>3. Begun(op)'
    BY <1>1, <2>2 DEF Begun, Kinds
  <2>. QED
    BY <1>1, <2>1, <2>3, BeginInvariant DEF Kinds
<1>3. ASSUME NEW h \in Handles, session_undo(h) \/ session_squash(h) PROVE IInv'
  <2>1. session[h] \subseteq Indices /\ session' = [session EXCEPT ![h] = {}]
    BY <1>1, <1>3 DEF session_undo, session_squash, Release
  <2>2. PICK k \in {"session_undo", "session_squash"} : Begin(k, h, session[h])
    BY <1>3, <2>1 DEF session_undo, session_squash
  <2>3. op' = [kind |-> k, at |-> 1, arg |-> h, done |-> session[h]]
    BY <2>2 DEF Begin
  <2>4. Begun(op)'
    BY <1>1, <2>1, <2>3 DEF Begun, Kinds
  <2>5. session' \in [Handles -> SUBSET Indices]
    BY <1>1, <2>1
  <2>. QED
    BY <2>2, <2>4, <2>5, BeginInvariant DEF Kinds
<1>4. ASSUME undo \/ squash \/ undo_all PROVE IInv'
  <2>1. PICK k \in {"undo", "squash", "undo_all"} : Begin(k, 0, {}) /\ session' = session
    BY <1>4 DEF undo, squash, undo_all, Keep
  <2>2. op' = [kind |-> k, at |-> 1, arg |-> 0, done |-> {}]
    BY <2>1 DEF Begin
  <2>3. Begun(op)'
    BY <1>1, <2>2 DEF Begun, Kinds
  <2>. QED
    BY <1>1, <2>1, <2>3, BeginInvariant DEF Kinds
<1>5. ASSUME NEW r \in -MaxRevision .. MaxRevision, commit(r) PROVE IInv'
  <2>1. Begin("commit", r, {}) /\ session' = session
    BY <1>5 DEF commit, Keep
  <2>2. op' = [kind |-> "commit", at |-> 1, arg |-> r, done |-> {}]
    BY <2>1 DEF Begin
  <2>3. r \in Int
    BY DatabaseAssumption
  <2>4. Begun(op)'
    BY <1>1, <2>2, <2>3 DEF Begun, Kinds
  <2>. QED
    BY <1>1, <2>1, <2>4, BeginInvariant DEF Kinds
<1>6. ASSUME NEW r \in Revisions, set_revision(r) PROVE IInv'
  <2>1. Begin("set_revision", r, {}) /\ session' = session
    BY <1>6 DEF set_revision, Keep
  <2>2. op' = [kind |-> "set_revision", at |-> 1, arg |-> r, done |-> {}]
    BY <2>1 DEF Begin
  <2>3. r \in Int /\ r >= -1
    BY DatabaseAssumption DEF NoSentinel
  <2>4. Begun(op)'
    BY <1>1, <2>2, <2>3 DEF Begun, Kinds
  <2>. QED
    BY <1>1, <2>1, <2>4, BeginInvariant DEF Kinds
<1>. QED
  BY <1>2, <1>3, <1>4, <1>5, <1>6

LEMMA NextInvariant == NoSentinel /\ IInv /\ [Next]_vars => IInv'
<1> SUFFICES ASSUME NoSentinel, IInv, [Next]_vars PROVE IInv'
  OBVIOUS
<1>1. CASE \/ \E h \in Handles : start_undo_session(h) \/ session_undo(h) \/ session_squash(h)
           \/ undo \/ squash \/ undo_all
           \/ \E r \in -MaxRevision .. MaxRevision : commit(r)
           \/ \E r \in Revisions : set_revision(r)
  BY <1>1, ClientInvariant
<1>2. ASSUME NEW h \in Handles, session_push(h) PROVE IInv'
  <2>1. /\ session' = [session EXCEPT ![h] = {}]
        /\ UNCHANGED <<index, op, before, faulty, torn, base, crashes>>
    BY <1>2 DEF session_push, Release
  <2>2. Visible' = Visible
    BY <2>1 DEF Visible
  <2>3. Typed'
    BY <2>1 DEF IInv, Typed, Begun
  <2>4. Contiguous' /\ Progress' /\ Recovery'
    BY <2>1 DEF IInv, Contiguous, Progress, Recovery
  <2>5. Agreement' /\ Restorable'
    BY <2>1, <2>2 DEF IInv, Agreement, Same, Restorable, Bases
  <2>. QED
    BY <2>3, <2>4, <2>5 DEF IInv
<1>3. CASE CallIndex
  BY <1>3, CallIndexInvariant
<1>4. CASE StartIndex
  BY <1>4, StartIndexInvariant
<1>5. CASE StartThrows
  BY <1>5, StartThrowsInvariant
<1>6. CASE SetRevision
  BY <1>6, SetRevisionInvariant
<1>7. CASE Die
  BY <1>7, DieInvariant
<1>8. ASSUME NEW i \in Indices, NEW v \in Values, Change(i, v) PROVE IInv'
  BY <1>8, ChangeInvariant
<1>10. CASE CallThrows
  BY <1>10, CallThrowsInvariant
<1>11. CASE DestructorThrows
  BY <1>11, DestructorThrowsInvariant
<1>12. CASE CallDamages
  BY <1>12, CallDamagesInvariant
<1>9. CASE UNCHANGED vars
  BY <1>9 DEF vars, IInv, Typed, Begun, Contiguous, Progress, Agreement, Same, Visible,
              Restorable, Bases, Recovery
<1>. QED
  BY <1>1, <1>2, <1>3, <1>4, <1>5, <1>6, <1>7, <1>8, <1>9, <1>10, <1>11, <1>12
     DEF Next

(* What holds the indices together, at every step of every loop.           *)
THEOREM DatabaseInvariant == NoSentinel => (Spec => []IInv)
<1> SUFFICES ASSUME NoSentinel PROVE Spec => []IInv
  OBVIOUS
<1>1. Init => IInv
  BY InitInvariant
<1>2. IInv /\ [Next]_vars => IInv'
  BY NextInvariant
<1>. QED
  BY <1>1, <1>2, PTL DEF Spec

(* database::undo(), squash(), commit(), undo_all(), the sessions and      *)
(* set_revision() call the indices one after the other.  Between           *)
(* operations the indices have the same undo states; an undo() that threw  *)
(* at a later index, a session whose undo() did, and a death half way part *)
(* them, and the next undo_all() that returns puts that right.             *)
THEOREM IndicesInStep == NoSentinel => (Spec => []InStep)
<1> SUFFICES ASSUME NoSentinel PROVE Spec => []InStep
  OBVIOUS
<1>1. IInv => InStep
  <2> SUFFICES ASSUME IInv PROVE TypeOK /\ Aligned
    BY DEF InStep
  <2>1. TypeOK
    <3>1. 0 \in 0 .. N /\ Indices \subseteq 0 .. N
      BY DatabaseAssumption DEF Indices
    <3>2. op.kind \in Kinds \cup {"idle"} /\ op.at \in 0 .. N /\ op.done \subseteq Indices
      BY <3>1 DEF IInv, Typed, Begun, Idle
    <3>. QED
      BY <3>2 DEF TypeOK, IInv, Typed, Index
  <2>2. ASSUME op = Idle, torn = "no", NEW i \in Indices, NEW j \in Indices
        PROVE  /\ index[i].revision = index[j].revision
               /\ StackRevisions(index[i]) = StackRevisions(index[j])
    <3>1. Same(index) /\ Tame(index[i]) /\ Tame(index[j])
      BY <2>2 DEF IInv, Agreement, Visible, Contiguous
    <3>2. /\ index[i].revision = index[j].revision
          /\ Len(index[i].stack) = Len(index[j].stack)
      BY <3>1 DEF Same
    <3>3. /\ DOMAIN index[i].stack = 1 .. Len(index[i].stack)
          /\ DOMAIN index[j].stack = 1 .. Len(index[j].stack)
      BY <3>1, IndexFields, LenProperties DEF Tame
    <3>4. \A d \in 1 .. Len(index[i].stack) :
             index[i].stack[d].revision = index[j].stack[d].revision
      BY <3>1, <3>2 DEF Tame, Oldest_revision
    <3>. QED
      BY <3>2, <3>3, <3>4 DEF StackRevisions
  <2>. QED
    BY <2>1, <2>2 DEF Aligned
<1>. QED
  BY <1>1, DatabaseInvariant, PTL

(* database::undo_all(): what it makes of the indices when it returns is   *)
(* one moment of the whole database, whatever exceptions ended calls of    *)
(* undo(), session::undo() or undo_all() itself at whichever index, and    *)
(* wherever the process died, unless the oldest undo state was going.      *)
THEOREM UndoAllRepairs == NoSentinel => (Spec => []UndoAllRecovers)
<1> SUFFICES ASSUME NoSentinel PROVE Spec => []UndoAllRecovers
  OBVIOUS
<1>1. IInv => UndoAllRecovers
  BY OldestKept DEF UndoAllRecovers
<1>. QED
  BY <1>1, DatabaseInvariant, PTL

(* When database::undo_all() returns, every index is back where the whole  *)
(* database was at that moment, and has no undo states: also when an       *)
(* exception or a death ended earlier calls half way.                      *)
THEOREM UndoAllRestores ==
    NoSentinel =>
       (Spec => [][CallIndex /\ Now("undo_all") /\ op.at = N /\ torn # "lost" =>
                      \A i \in Indices : /\ index'[i].content = base[i].content
                                         /\ index'[i].revision = base[i].revision
                                         /\ index'[i].stack = <<>>]_vars)
<1> SUFFICES ASSUME NoSentinel
             PROVE  Spec => [][CallIndex /\ Now("undo_all") /\ op.at = N /\ torn # "lost" =>
                                  \A i \in Indices : /\ index'[i].content = base[i].content
                                                     /\ index'[i].revision = base[i].revision
                                                     /\ index'[i].stack = <<>>]_vars
  OBVIOUS
<1>1. ASSUME IInv, CallIndex, Now("undo_all"), op.at = N, torn # "lost"
      PROVE  \A i \in Indices : /\ index'[i].content = base[i].content
                                /\ index'[i].revision = base[i].revision
                                /\ index'[i].stack = <<>>
  <2>1. base = Bases(before) /\ op # Idle /\ op.kind = "undo_all"
    BY <1>1, CallReaches, OpFacts DEF Now
  <2>2. \A i \in Indices : index'[i] = UndoneAll(before[i]) /\ base[i] = Oldest(before[i])
    BY <1>1, <2>1, CallFinished, CallAll DEF Bases
  <2>3. ASSUME NEW x
        PROVE  /\ UndoneAll(x).content = Oldest(x).content /\ UndoneAll(x).stack = <<>>
               /\ UndoneAll(x).revision = Oldest(x).revision
    <3>1. Oldest(x).revision = x.revision - Len(x.stack)
      BY DEF Oldest
    <3>. QED
      BY <3>1 DEF UndoneAll
  <2>. QED
    BY <2>2, <2>3
<1>. QED
  BY <1>1, DatabaseInvariant, PTL DEF Spec

-----------------------------------------------------------------------------
(* The database implements one undo log                                    *)

Contents(f) == [i \in Indices |-> f[i].content]
Snapshot(f, d) == [i \in Indices |-> f[i].stack[d].content]
Snapshots(f) ==
    [d \in 1 .. Len(f[1].stack) |->
        [i \in Indices |-> IF d <= Len(f[i].stack) THEN f[i].stack[d].content ELSE f[i].content]]

Even(f) == Same(f) /\ \A i \in Indices : Tame(f[i])
Content == [Indices -> Values]

LEMMA EvenFacts ==
    ASSUME NEW f, Even(f)
    PROVE  /\ Contents(f) \in Content
           /\ Len(f[1].stack) \in Nat
           /\ \A i \in Indices : Len(f[i].stack) = Len(f[1].stack)
           /\ Snapshots(f) \in Seq(Content) /\ Len(Snapshots(f)) = Len(f[1].stack)
           /\ Snapshots(f) = <<>> <=> Len(f[1].stack) = 0
           /\ \A d \in 1 .. Len(f[1].stack) : Snapshots(f)[d] = Snapshot(f, d)
<1> DEFINE n == Len(f[1].stack)
<1>1. 1 \in Indices
  BY DatabaseAssumption DEF Indices
<1>2. /\ n \in Nat
      /\ \A i \in Indices : /\ f[i].content \in Values /\ f[i].stack \in Seq(Stacked)
                            /\ Len(f[i].stack) = n
  BY <1>1, IndexFields DEF Even, Same, Tame
<1> HIDE DEF n
<1>3. \A d \in 1 .. n : \A i \in Indices : f[i].stack[d].content \in Values
  <2>1. TAKE d \in 1 .. n
  <2>2. TAKE i \in Indices
  <2>3. f[i].stack[d] \in Stacked
    BY <1>2, ElementOfSeq
  <2>. QED
    BY <2>3 DEF Stacked
<1>4. Snapshots(f) = [d \in 1 .. n |-> Snapshot(f, d)]
  BY <1>2 DEF Snapshots, Snapshot, n
<1>5. \A d \in 1 .. n : Snapshot(f, d) \in Content
  BY <1>3 DEF Snapshot, Content
<1>6. Snapshots(f) \in Seq(Content) /\ Len(Snapshots(f)) = n
  BY <1>2, <1>4, <1>5, IsASeq
<1>7. Contents(f) \in Content
  BY <1>2 DEF Contents, Content
<1>8. Snapshots(f) = <<>> <=> n = 0
  BY <1>6, EmptySeq
<1>. QED
  BY <1>2, <1>4, <1>6, <1>7, <1>8 DEF n

LEMMA StartedAll ==
    ASSUME NEW f, Even(f), NEW g, Even(g), \A i \in Indices : g[i] = Started(f[i])
    PROVE  Contents(g) = Contents(f) /\ Snapshots(g) = Append(Snapshots(f), Contents(f))
<1> DEFINE n == Len(f[1].stack)
           s == Snapshots(f)
           t == Append(s, Contents(f))
<1>1. n \in Nat /\ 1 \in Indices /\ \A i \in Indices : Tame(f[i]) /\ Len(f[i].stack) = n
  BY DatabaseAssumption, EvenFacts DEF Even, Indices
<1>9. \A i \in Indices : /\ g[i].content = f[i].content
                         /\ Len(g[i].stack) = n + 1
                         /\ \A d \in 1 .. n : g[i].stack[d] = f[i].stack[d]
                         /\ g[i].stack[n + 1].content = f[i].content
  <2>1. TAKE i \in Indices
  <2>2. Tame(f[i]) /\ Len(f[i].stack) = n /\ g[i] = Started(f[i])
    BY <1>1
  <2>. HIDE DEF n
  <2>. QED
    BY <2>2, StartedFacts
<1>2. /\ s \in Seq(Content) /\ Len(s) = n /\ Contents(f) \in Content
      /\ \A d \in 1 .. n : s[d] = Snapshot(f, d)
  BY EvenFacts
<1>3. /\ Snapshots(g) \in Seq(Content) /\ Len(Snapshots(g)) = n + 1
      /\ \A d \in 1 .. n + 1 : Snapshots(g)[d] = Snapshot(g, d)
  <2>1. Len(g[1].stack) = n + 1
    BY <1>1, <1>9
  <2>. HIDE DEF n
  <2>. QED
    BY <2>1, EvenFacts
<1> HIDE DEF n, s
<1>4. /\ t \in Seq(Content) /\ Len(t) = n + 1
      /\ \A d \in 1 .. n : t[d] = Snapshot(f, d)
      /\ t[n + 1] = Contents(f)
  BY <1>2, AppendProperties
<1>5. \A d \in 1 .. n : Snapshot(g, d) = Snapshot(f, d)
  BY <1>9 DEF Snapshot
<1>6. Snapshot(g, n + 1) = Contents(f) /\ Contents(g) = Contents(f)
  <2>1. \A i \in Indices : g[i].stack[n + 1].content = f[i].content
    BY <1>9, Zenon
  <2>2. \A i \in Indices : g[i].content = f[i].content
    BY <1>9, Zenon
  <2>. QED
    BY <2>1, <2>2, Zenon DEF Snapshot, Contents
<1> HIDE DEF t
<1>7. \A d \in 1 .. n + 1 : Snapshots(g)[d] = t[d]
  BY <1>1, <1>3, <1>4, <1>5, <1>6
<1>8. Snapshots(g) = t
  BY <1>3, <1>4, <1>7, SeqEqual
<1>. QED
  BY <1>6, <1>8 DEF t, s

(* The newest undo state of every index goes: undone or squashed.          *)
LEMMA FrontAll ==
    ASSUME NEW f, Even(f), NEW g, Even(g), Snapshots(f) # <<>>,
           \A i \in Indices : g[i].stack = Front(f[i].stack)
    PROVE  Snapshots(g) = Front(Snapshots(f))
<1> DEFINE n == Len(f[1].stack)
           s == Snapshots(f)
           t == Front(s)
<1>1. /\ n \in Nat /\ n # 0 /\ 1 \in Indices
      /\ s \in Seq(Content) /\ Len(s) = n
      /\ \A d \in 1 .. n : s[d] = Snapshot(f, d)
      /\ \A i \in Indices : Tame(f[i]) /\ Len(f[i].stack) = n
  BY DatabaseAssumption, EvenFacts DEF Even, Indices
<1> HIDE DEF n
<1>2. \A i \in Indices : /\ Len(g[i].stack) = n - 1
                         /\ \A d \in 1 .. n - 1 : g[i].stack[d] = f[i].stack[d]
  <2>1. TAKE i \in Indices
  <2>2. f[i].stack \in Seq(Stacked) /\ f[i].stack # <<>>
    BY <1>1, IndexFields, EmptySeq DEF Tame
  <2>3. /\ Len(Front(f[i].stack)) = Len(f[i].stack) - 1
        /\ \A d \in 1 .. Len(f[i].stack) - 1 : Front(f[i].stack)[d] = f[i].stack[d]
    BY <2>2, FrontFacts
  <2>4. Len(f[i].stack) = n /\ g[i].stack = Front(f[i].stack)
    BY <1>1
  <2>. QED
    BY <2>3, <2>4
<1>3. /\ Snapshots(g) \in Seq(Content) /\ Len(Snapshots(g)) = n - 1
      /\ \A d \in 1 .. n - 1 : Snapshots(g)[d] = Snapshot(g, d)
  BY <1>1, <1>2, EvenFacts
<1>4. /\ t \in Seq(Content) /\ Len(t) = n - 1
      /\ \A d \in 1 .. n - 1 : t[d] = s[d]
  <2> HIDE DEF s
  <2>. QED
    BY <1>1, FrontFacts DEF s
<1> HIDE DEF t, s
<1>5. \A d \in 1 .. n - 1 : Snapshot(g, d) = Snapshot(f, d)
  BY <1>2 DEF Snapshot
<1>6. \A d \in 1 .. n - 1 : Snapshots(g)[d] = t[d]
  <2>1. \A d \in 1 .. n - 1 : d \in 1 .. n
    BY <1>1
  <2>. QED
    BY <1>1, <1>3, <1>4, <1>5, <2>1
<1>7. Snapshots(g) = t
  BY <1>3, <1>4, <1>6, SeqEqual
<1>. QED
  BY <1>7 DEF t, s

LEMMA UndoneEach ==
    ASSUME NEW f, Even(f), NEW g, Even(g), \A i \in Indices : g[i] = Undone(f[i])
    PROVE  /\ Snapshots(f) = <<>> => Contents(g) = Contents(f) /\ Snapshots(g) = Snapshots(f)
           /\ Snapshots(f) # <<>> => /\ Contents(g) = Last(Snapshots(f))
                                     /\ Snapshots(g) = Front(Snapshots(f))
<1> DEFINE n == Len(f[1].stack)
           s == Snapshots(f)
<1>1. /\ n \in Nat /\ (s = <<>> <=> n = 0) /\ 1 \in Indices
      /\ s \in Seq(Content) /\ Len(s) = n
      /\ \A d \in 1 .. n : s[d] = Snapshot(f, d)
      /\ \A i \in Indices : Tame(f[i]) /\ Len(f[i].stack) = n /\ f[i].stack \in Seq(Stacked)
  BY DatabaseAssumption, EvenFacts, IndexFields DEF Even, Indices, Tame
<1> HIDE DEF n
<1>2. CASE n = 0
  <2>1. \A i \in Indices : g[i] = f[i]
    BY <1>1, <1>2, UndoneFacts, EmptySeq
  <2>2. Contents(g) = Contents(f) /\ Snapshots(g) = Snapshots(f)
    BY <1>1, <2>1 DEF Contents, Snapshots
  <2>. QED
    BY <1>1, <1>2, <2>2
<1>3. CASE n # 0
  <2>1. \A i \in Indices : /\ g[i].stack = Front(f[i].stack)
                           /\ g[i].content = Last(f[i].stack).content
    BY <1>1, <1>3, UndoneFacts, EmptySeq
  <2>2. Snapshots(g) = Front(s)
    BY <1>1, <1>3, <2>1, FrontAll
  <2>3. Last(s) = Snapshot(f, n)
    BY <1>1, <1>3 DEF Last
  <2>4. Contents(g) = Snapshot(f, n)
    BY <1>1, <2>1 DEF Contents, Snapshot, Last
  <2>. QED
    BY <1>1, <1>3, <2>2, <2>3, <2>4
<1>. QED
  BY <1>2, <1>3

LEMMA SquashedEach ==
    ASSUME NEW f, Even(f), NEW g, Even(g), \A i \in Indices : g[i] = Squashed(f[i])
    PROVE  /\ Contents(g) = Contents(f)
           /\ Snapshots(f) = <<>> => Snapshots(g) = Snapshots(f)
           /\ Snapshots(f) # <<>> => Snapshots(g) = Front(Snapshots(f))
<1> DEFINE n == Len(f[1].stack)
           s == Snapshots(f)
<1>1. /\ n \in Nat /\ (s = <<>> <=> n = 0) /\ 1 \in Indices
      /\ \A i \in Indices : Tame(f[i]) /\ Len(f[i].stack) = n /\ f[i].stack \in Seq(Stacked)
  BY DatabaseAssumption, EvenFacts, IndexFields DEF Even, Indices, Tame
<1>2. Contents(g) = Contents(f)
  BY <1>1, SquashedFacts DEF Contents
<1> HIDE DEF n
<1>3. CASE n = 0
  <2>1. \A i \in Indices : g[i] = f[i]
    BY <1>1, <1>3, SquashedFacts, EmptySeq
  <2>2. Snapshots(g) = Snapshots(f)
    BY <1>1, <2>1 DEF Snapshots
  <2>. QED
    BY <1>1, <1>2, <1>3, <2>2
<1>4. CASE n # 0
  <2>1. \A i \in Indices : g[i].stack = Front(f[i].stack)
    BY <1>1, <1>4, SquashedFacts, EmptySeq
  <2>. QED
    BY <1>1, <1>2, <1>4, <2>1, FrontAll
<1>. QED
  BY <1>3, <1>4

LEMMA UndoneAllEach ==
    ASSUME NEW f, Even(f), NEW g, Even(g), \A i \in Indices : g[i] = UndoneAll(f[i])
    PROVE  /\ Snapshots(g) = <<>>
           /\ Snapshots(f) = <<>> => Contents(g) = Contents(f)
           /\ Snapshots(f) # <<>> => Contents(g) = Head(Snapshots(f))
<1> DEFINE n == Len(f[1].stack)
           s == Snapshots(f)
<1>1. /\ n \in Nat /\ (s = <<>> <=> n = 0) /\ 1 \in Indices
      /\ s \in Seq(Content) /\ Len(s) = n
      /\ \A d \in 1 .. n : s[d] = Snapshot(f, d)
      /\ \A i \in Indices : /\ Tame(f[i]) /\ Len(f[i].stack) = n /\ f[i].stack \in Seq(Stacked)
                            /\ f[i].stack = <<>> <=> n = 0
  <2>1. 1 \in Indices
    BY DatabaseAssumption DEF Indices
  <2>2. \A i \in Indices : Tame(f[i]) /\ Len(f[i].stack) = n
    BY EvenFacts DEF Even
  <2>3. \A i \in Indices : f[i].stack \in Seq(Stacked)
    BY <2>2, IndexFields DEF Tame
  <2>4. /\ n \in Nat /\ s \in Seq(Content) /\ Len(s) = n
        /\ \A d \in 1 .. n : s[d] = Snapshot(f, d)
    BY EvenFacts
  <2> HIDE DEF n, s
  <2>5. \A i \in Indices : f[i].stack = <<>> <=> n = 0
    BY <2>2, <2>3, EmptySeq
  <2>6. s = <<>> <=> n = 0
    BY <2>4, EmptySeq
  <2>. QED
    BY <2>1, <2>2, <2>3, <2>4, <2>5, <2>6
<1>2. \A i \in Indices : /\ g[i].stack = <<>>
                         /\ g[i].content = IF n = 0 THEN f[i].content ELSE f[i].stack[1].content
  BY <1>1, UndoneAllFacts
<1>3. Snapshots(g) = <<>>
  <2>1. Len(g[1].stack) = 0
    BY <1>1, <1>2
  <2>. QED
    BY <2>1, EvenFacts
<1> HIDE DEF n
<1>4. n = 0 => Contents(g) = Contents(f)
  BY <1>2 DEF Contents
<1>5. n # 0 => Contents(g) = Head(s)
  <2>1. SUFFICES ASSUME n # 0 PROVE Contents(g) = Head(s)
    OBVIOUS
  <2>2. Contents(g) = Snapshot(f, 1)
    BY <1>2, <2>1 DEF Contents, Snapshot
  <2>3. Head(s) = s[1]
    <3> HIDE DEF s
    <3>. QED
      BY <1>1, <2>1, HeadTailProperties
  <2>. QED
    BY <1>1, <2>1, <2>2, <2>3
<1>. QED
  BY <1>1, <1>3, <1>4, <1>5

LEMMA CommittedEach ==
    ASSUME NEW f, Even(f), NEW g, Even(g), NEW r \in Int,
           \A i \in Indices : g[i] = Committed(f[i], r)
    PROVE  /\ Contents(g) = Contents(f)
           /\ \E k \in 0 .. Len(Snapshots(f)) :
                 Snapshots(g) = SubSeq(Snapshots(f), k + 1, Len(Snapshots(f)))
<1> DEFINE n == Len(f[1].stack)
           s == Snapshots(f)
           m == r - Oldest_revision(f[1])
           k == IF m < 0 THEN 0 ELSE IF m < n THEN m ELSE n
           t == SubSeq(s, k + 1, n)
<1>1. /\ n \in Nat /\ 1 \in Indices
      /\ s \in Seq(Content) /\ Len(s) = n
      /\ \A d \in 1 .. n : s[d] = Snapshot(f, d)
      /\ \A i \in Indices : Tame(f[i]) /\ Len(f[i].stack) = n
      /\ \A i \in Indices : Oldest_revision(f[i]) = Oldest_revision(f[1])
  BY DatabaseAssumption, EvenFacts DEF Even, Same, Indices, Oldest_revision
<1>2. /\ k \in 0 .. n
      /\ \A i \in Indices : /\ g[i].content = f[i].content
                            /\ Len(g[i].stack) = n - k
                            /\ \A d \in 1 .. n - k : g[i].stack[d] = f[i].stack[k + d]
  <2>1. ASSUME NEW i \in Indices
        PROVE  /\ k \in 0 .. n
               /\ g[i].content = f[i].content
               /\ Len(g[i].stack) = n - k
               /\ \A d \in 1 .. n - k : g[i].stack[d] = f[i].stack[k + d]
    <3>1. Len(f[i].stack) = n /\ r - Oldest_revision(f[i]) = m /\ Tame(f[i])
      BY <1>1
    <3> DEFINE q == Committed(f[i], r)
               l == Len(f[i].stack)
               b == r - Oldest_revision(f[i])
               c == IF b < 0 THEN 0 ELSE IF b < l THEN b ELSE l
    <3>2. /\ c \in 0 .. l /\ q.content = f[i].content
          /\ Len(q.stack) = l - c
          /\ \A d \in 1 .. l - c : q.stack[d] = f[i].stack[c + d]
      BY <3>1, CommittedFacts
    <3>3. l = n /\ b = m
      BY <3>1
    <3>. HIDE DEF l, b, n, m
    <3>4. c = k
      BY <3>3
    <3>. HIDE DEF c, k
    <3>. QED
      BY <3>2, <3>3, <3>4
  <2>. HIDE DEF n, k
  <2>. QED
    BY <1>1, <2>1
<1> HIDE DEF k, n, s
<1>3. Contents(g) = Contents(f)
  BY <1>2 DEF Contents
<1>4. /\ Snapshots(g) \in Seq(Content) /\ Len(Snapshots(g)) = n - k
      /\ \A d \in 1 .. n - k : Snapshots(g)[d] = Snapshot(g, d)
  BY <1>1, <1>2, EvenFacts
<1>5. /\ t \in Seq(Content) /\ Len(t) = n - k
      /\ \A d \in 1 .. n - k : t[d] = s[k + d]
  <2> DEFINE a == k + 1
  <2>1. a \in Int /\ n \in Int /\ \A i \in a .. n : s[i] \in Content
    <3>1. \A i \in 1 .. n : s[i] \in Content
      BY <1>1, ElementOfSeq
    <3>. QED
      BY <1>1, <1>2, <3>1
  <2>. HIDE DEF a
  <2> DEFINE p == SubSeq(s, a, n)
  <2>2. /\ p \in Seq(Content)
        /\ Len(p) = IF a <= n THEN n - a + 1 ELSE 0
        /\ \A i \in 1 .. n - a + 1 : p[i] = s[a + i - 1]
    BY <2>1, SubSeqProperties
  <2>. HIDE DEF p
  <2>3. (IF a <= n THEN n - a + 1 ELSE 0) = n - k /\ n - a + 1 = n - k
    BY <1>1, <1>2 DEF a
  <2>4. \A i \in 1 .. n - k : a + i - 1 = k + i
    BY <1>1, <1>2 DEF a
  <2>5. Len(p) = n - k /\ \A i \in 1 .. n - k : p[i] = s[k + i]
    BY <2>2, <2>3, <2>4
  <2>6. p = t
    BY DEF p, a
  <2>. QED
    BY <2>2, <2>5, <2>6
<1> HIDE DEF t
<1>6. \A d \in 1 .. n - k : Snapshots(g)[d] = t[d]
  <2>1. TAKE d \in 1 .. n - k
  <2>2. k + d \in 1 .. n
    BY <1>1, <1>2
  <2>3. Snapshot(g, d) = Snapshot(f, k + d)
    BY <1>2 DEF Snapshot
  <2>. QED
    BY <1>1, <1>4, <1>5, <2>2, <2>3
<1>7. Snapshots(g) = t
  BY <1>4, <1>5, <1>6, SeqEqual
<1>8. k \in 0 .. Len(s) /\ t = SubSeq(s, k + 1, Len(s))
  BY <1>1, <1>2 DEF t
<1>. QED
  BY <1>3, <1>7, <1>8 DEF s

LEMMA LogState ==
    /\ Log!vars = <<Contents(Visible), Snapshots(Visible), faulty # {}, torn # "no">>
    /\ Log!vars' = <<Contents(Visible'), Snapshots(Visible'), faulty' # {}, torn' # "no">>
BY DEF Log!vars, Contents, Snapshots, Visible, Depth

(* The steps of the undo log, in terms of what is visible.                 *)
LEMMA LogSteps ==
    ASSUME \/ torn' # "no"
           \/ torn # "no" /\ Snapshots(Visible') = <<>>
           \/ /\ torn = "no"
              /\ LET c == Contents(Visible)
                     s == Snapshots(Visible)
                     d == Contents(Visible')
                     t == Snapshots(Visible')
                 IN  \/ t = s
                     \/ t = Append(s, c) /\ d = c
                     \/ s # <<>> /\ d = Last(s) /\ t = Front(s)
                     \/ s # <<>> /\ t = Front(s) /\ d = c
                     \/ \E k \in 1 .. Len(s) : t = SubSeq(s, k + 1, Len(s)) /\ d = c
                     \/ s # <<>> /\ d = Head(s) /\ t = <<>>
    PROVE  Log!Next
<1>1. ASSUME torn' # "no" PROVE Log!Next
  BY <1>1 DEF Log!Next, Log!Spoil
<1> DEFINE c == Contents(Visible)
           s == Snapshots(Visible)
           d == Contents(Visible')
           t == Snapshots(Visible')
<1>8. ASSUME torn' = "no", torn # "no", t = <<>> PROVE Log!Next
  BY <1>8 DEF Log!Next, Log!Recover, Snapshots, Visible, Depth
<1>2. ASSUME torn' = "no", torn = "no", t = s PROVE Log!Next
  BY <1>2 DEF Log!Next, Log!Change, Snapshots, Visible, Depth
<1>3. ASSUME torn' = "no", torn = "no", t = Append(s, c), d = c PROVE Log!Next
  BY <1>3 DEF Log!Next, Log!Start, Contents, Snapshots, Visible, Depth
<1>4. ASSUME torn' = "no", torn = "no", s # <<>>, d = Last(s), t = Front(s) PROVE Log!Next
  BY <1>4 DEF Log!Next, Log!Undo, Log!Last, Log!Front, Last, Front,
              Contents, Snapshots, Visible, Depth
<1>5. ASSUME torn' = "no", torn = "no", s # <<>>, t = Front(s), d = c PROVE Log!Next
  BY <1>5 DEF Log!Next, Log!Squash, Log!Front, Front, Contents, Snapshots, Visible, Depth
<1>6. ASSUME torn' = "no", torn = "no", NEW k \in 1 .. Len(s),
             t = SubSeq(s, k + 1, Len(s)), d = c
      PROVE  Log!Next
  BY <1>6 DEF Log!Next, Log!Commit, Contents, Snapshots, Visible, Depth
<1>7. ASSUME torn' = "no", torn = "no", s # <<>>, d = Head(s), t = <<>> PROVE Log!Next
  BY <1>7 DEF Log!Next, Log!UndoAll, Contents, Snapshots, Visible, Depth
<1>. QED
  BY <1>1, <1>2, <1>3, <1>4, <1>5, <1>6, <1>7, <1>8

(* An operation takes effect with its last call; until then, and when the  *)
(* process dies before it has changed anything, it has none.               *)
LEMMA StepRefines ==
    ASSUME NoSentinel, IInv, Next
    PROVE  [Log!Next]_(Log!vars)
<1>1. IInv'
  BY NextInvariant
<1>2. ASSUME torn' = "no", torn # "no" PROVE Log!Next
  <2>1. ASSUME NEW kind, NEW arg, NEW done, Begin(kind, arg, done) PROVE FALSE
    BY <1>2, <2>1 DEF Begin, TornBy
  <2>2. ~More /\ (Over => Now("undo_all"))
    BY <1>2 DEF Over, More
  <2>3. ~UndoThrows(1, 1) /\ ~Throws
    BY <1>2 DEF UndoThrows, Throws
  <2>4. CallIndex /\ Over /\ Now("undo_all") /\ op.at = N
    BY <1>2, <2>1, <2>2, <2>3
       DEF Next, start_undo_session, session_undo, session_squash, session_push, undo, squash,
           undo_all, commit, set_revision, Change, CallIndex, CallThrows, DestructorThrows,
           CallDamages, StartIndex, StartThrows, SetRevision, Advance, Die, Now
  <2>5. \A i \in Indices : index'[i] = UndoneAll(before[i]) /\ Tame(before[i])
    BY <2>4, CallFinished, CallReaches, OpFacts, CallAll DEF Now
  <2>6. Visible' = index' /\ 1 \in Indices
    BY <2>4, DatabaseAssumption DEF Over, Visible, Indices
  <2>7. Len(Visible'[1].stack) = 0
    BY <2>5, <2>6, UndoneAllFacts
  <2>8. Even(Visible')
    BY <1>1, <1>2, <2>6 DEF IInv, Agreement, Contiguous, Even, Same
  <2>. QED
    BY <1>2, <2>7, <2>8, EvenFacts, LogSteps
<1>3. SUFFICES ASSUME torn = "no", torn' = "no" PROVE [Log!Next]_(Log!vars)
  BY <1>2, LogSteps
<1>4. Even(Visible) /\ Even(Visible')
  <2>1. Same(Visible) /\ Same(Visible')
    <3>1. Same(Visible')
      BY <1>1, <1>3 DEF IInv, Agreement, Same
    <3>. QED
      BY <1>3, <3>1 DEF IInv, Agreement
  <2>2. \A i \in Indices : Tame(Visible[i]) /\ Tame(Visible'[i])
    BY <1>1 DEF IInv, Contiguous, Visible
  <2>. QED
    BY <2>1, <2>2 DEF Even
<1>5. ASSUME Visible' = Visible PROVE Log!Next
  BY <1>3, <1>5, LogSteps
<1>6. ASSUME NEW kind, NEW arg, NEW done, kind # "idle", Begin(kind, arg, done)
      PROVE  Visible' = Visible
  BY <1>6 DEF Begin, Visible, Idle
<1>7. CASE \/ \E h \in Handles : start_undo_session(h) \/ session_undo(h) \/ session_squash(h)
           \/ undo \/ squash \/ undo_all
           \/ \E r \in -MaxRevision .. MaxRevision : commit(r)
           \/ \E r \in Revisions : set_revision(r)
  BY <1>5, <1>6, <1>7 DEF start_undo_session, session_undo, session_squash, undo, squash,
                          undo_all, commit, set_revision
<1>8. CASE \E h \in Handles : session_push(h)
  BY <1>5, <1>8 DEF session_push, Visible
<1>9. CASE Die
  <2>1. ~Half
    BY <1>3, <1>9 DEF Die
  <2>. QED
    BY <1>5, <1>9, <2>1 DEF Die, Half, Visible
<1>10. ASSUME NEW i \in Indices, NEW v \in Values, Change(i, v) PROVE Log!Next
  <2>1. op = Idle /\ op' = Idle /\ index' = [index EXCEPT ![i].content = v]
    BY <1>10 DEF Change
  <2>2. Visible = index /\ Visible' = index'
    BY <2>1 DEF Visible
  <2>3. \A j \in Indices : Visible'[j].stack = Visible[j].stack
    <3>1. index \in [Indices -> Index] /\ \A j \in Indices : Tame(index[j])
      BY DEF IInv, Typed, Contiguous
    <3>2. [index[i] EXCEPT !.content = v].stack = index[i].stack
      BY <3>1, ChangedFacts
    <3>3. /\ index'[i] = [index[i] EXCEPT !.content = v]
          /\ \A j \in Indices : j # i => index'[j] = index[j]
      BY <2>1, <3>1
    <3>. QED
      BY <2>2, <3>2, <3>3
  <2>4. Snapshots(Visible') = Snapshots(Visible)
    <3>1. Len(Visible'[1].stack) = Len(Visible[1].stack)
      BY <2>3, DatabaseAssumption DEF Indices
    <3>2. \A d \in 1 .. Len(Visible[1].stack) : Snapshot(Visible', d) = Snapshot(Visible, d)
      BY <2>3 DEF Snapshot
    <3>. QED
      BY <1>4, <3>1, <3>2, EvenFacts, SeqEqual
  <2>. QED
    BY <1>3, <2>4, LogSteps
<1>17. CASE CallThrows \/ DestructorThrows
  <2>1. op # Idle /\ Throws
    BY <1>17 DEF CallThrows, DestructorThrows, Now, Idle
  <2>2. Visible = before /\ Visible' = index'
    BY <2>1, ThrowReaches DEF Visible
  <2>3. \A i \in Indices : Visible'[i].stack = Visible[i].stack
    BY <1>3, <2>1, <2>2, ThrowReaches
  <2>4. Snapshots(Visible') = Snapshots(Visible)
    <3>1. Len(Visible'[1].stack) = Len(Visible[1].stack)
      BY <2>3, DatabaseAssumption DEF Indices
    <3>2. \A d \in 1 .. Len(Visible[1].stack) : Snapshot(Visible', d) = Snapshot(Visible, d)
      BY <2>3 DEF Snapshot
    <3>. QED
      BY <1>4, <3>1, <3>2, EvenFacts, SeqEqual
  <2>. QED
    BY <1>3, <2>4, LogSteps
<1>18. ~CallDamages
  BY <1>3 DEF CallDamages
<1>11. CASE CallIndex /\ op.at # N
  BY <1>5, <1>11, CallReaches DEF CallIndex, Advance, More, Visible, Idle
<1>12. CASE CallIndex /\ op.at = N
  <2>1. /\ Over /\ op # Idle /\ Begun(op)
        /\ op.kind \in {"session_undo", "session_squash"} => op.done = Indices
    BY <1>3, <1>12, CallReaches, OpFacts DEF CallIndex, Advance
  <2>2. Visible' = index' /\ Visible = before
    BY <2>1 DEF Over, Visible
  <2>3. \A i \in Indices :
           Visible'[i] = IF op.kind = "unwind" THEN Visible[i] ELSE Call(op, i, Visible[i])
    BY <1>12, <2>2, CallFinished
  <2> DEFINE f == Visible
             g == Visible'
  <2> HIDE DEF f, g
  <2>4. op.kind \in Calls \cup {"unwind"}
    BY <1>12 DEF CallIndex, Calls
  <2>5. Even(f) /\ Even(g)
    BY <1>4 DEF f, g
  <2>6. CASE op.kind = "unwind"
    <3>1. index' \in [Indices -> Index] /\ before \in [Indices -> Index]
      BY <1>12, CallReaches DEF IInv, Typed
    <3>. QED
      BY <1>5, <2>2, <2>3, <2>6, <3>1
  <2>7. CASE op.kind \in {"undo", "session_undo"}
    <3>1. \A i \in Indices : g[i] = Undone(f[i])
      BY <2>1, <2>3, <2>7, CallIs, CallAll DEF f, g
    <3>. QED
      BY <1>3, <2>5, <3>1, UndoneEach, LogSteps DEF f, g
  <2>8. CASE op.kind \in {"squash", "session_squash"}
    <3>1. \A i \in Indices : g[i] = Squashed(f[i])
      BY <2>1, <2>3, <2>8, CallIs, CallAll DEF f, g
    <3>. QED
      BY <1>3, <2>5, <3>1, SquashedEach, LogSteps DEF f, g
  <2>9. CASE op.kind = "undo_all"
    <3>1. \A i \in Indices : g[i] = UndoneAll(f[i])
      BY <2>3, <2>9, CallAll DEF f, g
    <3>. QED
      BY <1>3, <2>5, <3>1, UndoneAllEach, LogSteps DEF f, g
  <2>10. CASE op.kind = "commit"
    <3>1. op.arg \in Int /\ \A i \in Indices : g[i] = Committed(f[i], op.arg)
      BY <2>1, <2>3, <2>10, CallAll DEF Begun, f, g
    <3>2. PICK k \in 0 .. Len(Snapshots(f)) :
             /\ Contents(g) = Contents(f)
             /\ Snapshots(g) = SubSeq(Snapshots(f), k + 1, Len(Snapshots(f)))
      BY <2>5, <3>1, CommittedEach
    <3>3. Snapshots(f) \in Seq(Content)
      BY <2>5, EvenFacts
    <3>4. CASE k = 0
      <4>1. Snapshots(g) = Snapshots(f)
        BY <3>2, <3>3, <3>4, SubSeqFull
      <4>. QED
        BY <1>3, <4>1, LogSteps DEF f, g
    <3>5. CASE k # 0
      <4>1. k \in 1 .. Len(Snapshots(f))
        BY <3>3, <3>5
      <4>. QED
        BY <1>3, <3>2, <4>1, LogSteps DEF f, g
    <3>. QED
      BY <3>4, <3>5
  <2>. QED
    BY <2>4, <2>6, <2>7, <2>8, <2>9, <2>10 DEF Calls
<1>13. CASE StartIndex /\ op.at # N
  <2>1. op.kind = "start" /\ op # Idle /\ op.kind # "damaged"
    BY <1>13 DEF StartIndex, Now, Idle
  <2>2. op'.kind = "start" /\ before' = before
    <3>1. PICK done : op' = [op EXCEPT !.at = @ + 1, !.done = done]
      BY <1>13 DEF StartIndex
    <3>. QED
      BY <1>13, <2>1, <3>1, OpFacts DEF Begun, StartIndex
  <2>3. Visible' = Visible
    BY <2>1, <2>2 DEF Visible, Idle
  <2>. QED
    BY <1>5, <2>3
<1>14. CASE StartIndex /\ op.at = N
  <2>1. Over /\ op.kind = "start" /\ op # Idle /\ op.kind # "damaged"
    BY <1>14 DEF StartIndex, Now, Idle
  <2>2. Visible' = index' /\ Visible = before
    BY <2>1 DEF Over, Visible
  <2>3. \A i \in Indices : index'[i] = Started(before[i])
    <3>1. \A i \in Indices : index[i] = IF i < N THEN Started(before[i]) ELSE before[i]
      BY <1>14, <2>1, OpFacts, PartIs
    <3>2. index' = [index EXCEPT ![N] = Started(index[N])] /\ index \in [Indices -> Index]
      BY <1>14 DEF StartIndex, IInv, Typed
    <3>3. N \in Indices /\ ~(N < N) /\ \A i \in Indices : i # N => i < N
      BY DatabaseAssumption DEF Indices
    <3>4. index'[N] = Started(before[N])
      BY <3>1, <3>2, <3>3
    <3>5. \A i \in Indices : i # N => index'[i] = Started(before[i])
      BY <3>1, <3>2, <3>3
    <3>. QED
      BY <3>4, <3>5
  <2> DEFINE f == Visible
             g == Visible'
  <2>4. Even(f) /\ Even(g) /\ \A i \in Indices : g[i] = Started(f[i])
    BY <1>4, <2>2, <2>3
  <2> HIDE DEF f, g
  <2>5. Contents(g) = Contents(f) /\ Snapshots(g) = Append(Snapshots(f), Contents(f))
    BY <2>4, StartedAll
  <2>. QED
    BY <1>3, <2>5, LogSteps DEF f, g
<1>15. CASE StartThrows
  <2>1. op.kind = "start" /\ op # Idle /\ op.kind # "damaged"
    BY <1>15 DEF StartThrows, Now, Idle
  <2>2. op'.kind = "unwind" /\ before' = before
    BY <1>15, <2>1, OpFacts DEF Begun, StartThrows
  <2>3. Visible' = Visible
    BY <2>1, <2>2 DEF Visible, Idle
  <2>. QED
    BY <1>5, <2>3
<1>16. CASE SetRevision
  <2>1. /\ op.kind = "set_revision" /\ op # Idle /\ op.kind # "damaged"
        /\ Visible = before
    BY <1>16 DEF SetRevision, Now, Idle, Visible
  <2>2. CASE More
    BY <1>5, <2>1, <2>2 DEF More, Visible, Idle
  <2>3. CASE Over
    <3>1. Visible' = index'
      BY <2>3 DEF Over, Visible
    <3>2. \A i \in Indices : Tame(before[i]) /\ Begun(op)
      BY <2>1, OpFacts
    <3>3. \A i \in Indices : index'[i].stack = before[i].stack
      <4>1. index \in [Indices -> Index] /\ op.at \in Indices
        BY <2>1, OpFacts DEF IInv, Typed
      <4>2. \A i \in Indices : index[i].stack = before[i].stack
        <5>1. \A i \in Indices :
                 index[i] = IF i < op.at THEN Revised(before[i], op.arg) ELSE before[i]
          BY <2>1, OpFacts, PartIs
        <5>2. \A i \in Indices : Revised(before[i], op.arg).stack = before[i].stack
          BY <3>2 DEF Revised, Tame, Index
        <5>. QED
          BY <5>1, <5>2
      <4>3. \/ index' = index
            \/ index' = [index EXCEPT ![op.at] = Revised(index[op.at], op.arg)]
        BY <1>16 DEF SetRevision, Revised
      <4>4. Revised(index[op.at], op.arg).stack = index[op.at].stack
        BY <4>1 DEF Revised, Index
      <4>5. \A i \in Indices : index'[i].stack = index[i].stack
        BY <4>1, <4>3, <4>4
      <4>. QED
        BY <4>2, <4>5
    <3>4. \A i \in Indices : Visible'[i].stack = Visible[i].stack
      BY <2>1, <3>1, <3>3
    <3>5. Snapshots(Visible') = Snapshots(Visible)
      <4>1. Len(Visible'[1].stack) = Len(Visible[1].stack)
        BY <3>4, DatabaseAssumption DEF Indices
      <4>2. \A d \in 1 .. Len(Visible[1].stack) : Snapshot(Visible', d) = Snapshot(Visible, d)
        BY <3>4 DEF Snapshot
      <4>. QED
        BY <1>4, <4>1, <4>2, EvenFacts, SeqEqual
    <3>. QED
      BY <1>3, <3>5, LogSteps
  <2>. QED
    BY <1>16, <2>2, <2>3 DEF SetRevision, Advance
<1>. QED
  BY <1>7, <1>8, <1>9, <1>10, <1>11, <1>12, <1>13, <1>14, <1>15, <1>16,
     <1>17, <1>18 DEF Next

(* A client that sees the database between operations sees one undo log    *)
(* over the contents of all indices: every session start takes a snapshot, *)
(* every undo brings the last one back, and a session that could not be    *)
(* started leaves no trace.  An exception at a later index or a death half *)
(* way spoils the log, and an undo_all() that returns starts a new one.    *)
THEOREM Refinement == NoSentinel => (Spec => ImplementsUndoLog)
<1> SUFFICES ASSUME NoSentinel PROVE Spec => ImplementsUndoLog
  OBVIOUS
<1>1. Init => Log!Init
  <2> SUFFICES ASSUME Init PROVE Log!Init
    OBVIOUS
  <2>1. Visible = index /\ torn = "no" /\ faulty = {} /\ Len(index[1].stack) = 0
    <3>1. 1 \in Indices /\ index[1].stack = <<>>
      BY DatabaseAssumption DEF Init, Indices
    <3>. QED
      BY <3>1 DEF Init, Visible
  <2>. QED
    BY <2>1 DEF Log!Init, Depth
<1>2. IInv /\ [Next]_vars => [Log!Next]_(Log!vars)
  <2> SUFFICES ASSUME IInv, [Next]_vars PROVE [Log!Next]_(Log!vars)
    OBVIOUS
  <2>1. CASE Next
    BY <2>1, StepRefines
  <2>2. CASE UNCHANGED vars
    <3>1. Visible' = Visible /\ torn' = torn /\ faulty' = faulty
      BY <2>2 DEF vars, Visible
    <3>. QED
      BY <3>1, LogState
  <2>. QED
    BY <2>1, <2>2
<1>. QED
  BY <1>1, <1>2, DatabaseInvariant, PTL DEF Spec, ImplementsUndoLog, Log!Spec

-----------------------------------------------------------------------------
(* The locks: until a writer gives up waiting, a write callback runs       *)
(* alone, for any number of readers and writers, of mutexes and of deaths, *)
(* and wherever the two counters wrap.                                     *)

(* The remainders that the counters use.                                   *)
LEMMA ModRange ==
    ASSUME NEW a \in Nat, NEW m \in Nat \ {0}
    PROVE  a % m \in 0 .. m - 1
BY SMT

LEMMA ModWrap ==
    ASSUME NEW m \in Nat \ {0}, NEW a \in 1 .. m
    PROVE  (a + m - 1) % m = a - 1
<1> DEFINE q == (a + m - 1) \div m
           r == (a + m - 1) % m
<1>1. q \in Int /\ r \in 0 .. m - 1 /\ a + m - 1 = m * q + r
  OBVIOUS
<1> HIDE DEF q, r
<1> DEFINE d == q - 1
<1>2. d \in Int /\ m * d = a - 1 - r
  BY <1>1
<1> HIDE DEF d
<1>3. d >= 1 => m * d >= m
  BY <1>2
<1>4. d <= -1 => m * d <= -m
  BY <1>2
<1>5. d = 0
  BY <1>1, <1>2, <1>3, <1>4
<1>. QED
  BY <1>1, <1>2, <1>5 DEF r

-----------------------------------------------------------------------------
(* The inductive invariant.  As long as no writer has given up there is    *)
(* one mutex, the first.  Its flag is up while a writer is inside, and its *)
(* count is at least the number of readers inside: readers that died leave *)
(* it too high, which keeps writers out and harms nobody.                  *)
ReadersInside == {r \in Readers : Locks!Inside(r)}

OneMutex ==
    /\ current = 0
    /\ \A t \in Locks!Threads : lock[t] = 0
    /\ \A w \in Writers : pc[w] \notin {"construct", "reload"}

Excluded ==
    /\ \A w \in Writers : Locks!Inside(w) => locks[0].exclusive
    /\ \A v, w \in Writers : Locks!Inside(v) /\ Locks!Inside(w) => v = w
    /\ \A w \in Writers : Locks!Inside(w) => ReadersInside = {}
    /\ IsFiniteSet(ReadersInside)
    /\ Cardinality(ReadersInside) <= locks[0].shared

LocksInv == Locks!TypeOK /\ (~moved => OneMutex /\ Excluded)

LEMMA CurrentSlot ==
    ASSUME Locks!LockAssumption, Locks!TypeOK
    PROVE  /\ Locks!current_lock \in Locks!Slots
           /\ (current + 1) % CounterMod \in 0 .. CounterMod - 1
           /\ current = 0 => Locks!current_lock = 0
<1>1. /\ NumLocks \in Nat \ {0} /\ CounterMod \in Nat \ {0}
      /\ current \in Nat /\ current + 1 \in Nat
  BY DEF Locks!LockAssumption, Locks!TypeOK
<1>2. 0 % NumLocks = 0
  BY <1>1, SMT
<1>. QED
  BY <1>1, <1>2, ModRange DEF Locks!current_lock, Locks!Slots

(* Types.  The slots that a step writes exist and their counts stay in     *)
(* range.                                                                  *)
LEMMA LockTypesNext ==
    ASSUME Locks!LockAssumption, Locks!TypeOK, [Locks!Next]_(Locks!vars)
    PROVE  Locks!TypeOK'
<1> USE DEF Locks!Goto, Locks!Threads
<1>1. /\ Locks!current_lock \in Locks!Slots
      /\ (current + 1) % CounterMod \in 0 .. CounterMod - 1
      /\ Locks!Free \in [exclusive : BOOLEAN, shared : 0 .. SharedMod - 1]
  BY CurrentSlot DEF Locks!Free, Locks!LockAssumption
<1>2. ASSUME NEW t \in Locks!Threads, NEW wait \in {"timed", "block"}, Locks!Begin(t, wait)
      PROVE  Locks!TypeOK'
  BY <1>1, <1>2 DEF Locks!Begin, Locks!TypeOK
<1>3. ASSUME NEW r \in Readers, Locks!ReadStep(r)
      PROVE  Locks!TypeOK'
  <2>1. lock[r] \in Locks!Slots /\ locks[lock[r]] \in [exclusive : BOOLEAN, shared : 0 .. SharedMod - 1]
    BY DEF Locks!TypeOK
  <2>2. CASE Locks!lock_sharable(r)
    <3>1. locks[lock[r]].shared + 1 \in 0 .. SharedMod - 1
      BY <2>1, <2>2
           DEF Locks!lock_sharable, Locks!Sharable, Locks!Mutex, Locks!LockAssumption
    <3>. QED
      BY <2>1, <2>2, <3>1 DEF Locks!lock_sharable, Locks!TypeOK
  <2>3. CASE Locks!ReadThrows(r)
    BY <2>3 DEF Locks!ReadThrows, Locks!TypeOK
  <2>4. CASE Locks!unlock_sharable(r)
    <3>1. locks[lock[r]].shared + SharedMod - 1 \in Nat
      BY <2>1 DEF Locks!LockAssumption
    <3>2. (locks[lock[r]].shared + SharedMod - 1) % SharedMod \in 0 .. SharedMod - 1
      BY <3>1, ModRange DEF Locks!LockAssumption
    <3>. QED
      BY <2>1, <2>4, <3>2 DEF Locks!unlock_sharable, Locks!TypeOK
  <2>. QED
    BY <1>3, <2>2, <2>3, <2>4 DEF Locks!ReadStep
<1>4. ASSUME NEW w \in Writers, Locks!WriteStep(w)
      PROVE  Locks!TypeOK'
  <2>1. /\ w \notin Readers
        /\ lock[w] \in Locks!Slots
        /\ locks[lock[w]] \in [exclusive : BOOLEAN, shared : 0 .. SharedMod - 1]
    BY DEF Locks!TypeOK, Locks!LockAssumption
  <2>2. CASE Locks!lock_exclusive(w)
    BY <2>1, <2>2 DEF Locks!lock_exclusive, Locks!TypeOK
  <2>3. CASE Locks!next_lock(w)
    BY <1>1, <2>1, <2>3 DEF Locks!next_lock, Locks!TypeOK
  <2>4. CASE Locks!Construct(w)
    BY <1>1, <2>1, <2>4 DEF Locks!Construct, Locks!TypeOK
  <2>5. CASE Locks!Reload(w)
    BY <1>1, <2>5 DEF Locks!Reload, Locks!TypeOK
  <2>6. CASE Locks!unlock(w)
    BY <2>1, <2>6 DEF Locks!unlock, Locks!TypeOK
  <2>. QED
    BY <1>4, <2>2, <2>3, <2>4, <2>5, <2>6 DEF Locks!WriteStep
<1>5. CASE Locks!Die
  BY <1>5 DEF Locks!Die, Locks!TypeOK, Locks!LockAssumption
<1>6. CASE UNCHANGED Locks!vars
  BY <1>6 DEF Locks!vars, Locks!TypeOK
<1>. QED
  BY <1>2, <1>3, <1>4, <1>5, <1>6 DEF Locks!Next

(* A step that lets nobody in and leaves the first mutex alone.           *)
LEMMA NobodyEnters ==
    ASSUME Locks!LockAssumption, Locks!TypeOK, Excluded,
           \A t \in Locks!Threads : Locks!Inside(t)' => Locks!Inside(t),
           locks'[0] = locks[0]
    PROVE  Excluded'
<1>1. ReadersInside' \subseteq ReadersInside
  BY DEF ReadersInside, Locks!Threads
<1>2. /\ IsFiniteSet(ReadersInside')
      /\ Cardinality(ReadersInside') <= Cardinality(ReadersInside)
      /\ Cardinality(ReadersInside) \in Nat /\ Cardinality(ReadersInside') \in Nat
  <2>1. IsFiniteSet(ReadersInside)
    BY DEF Excluded
  <2>. QED
    BY <1>1, <2>1, FS_Subset, FS_CardinalityType
<1>3. locks[0].shared \in Nat
  BY DEF Locks!TypeOK, Locks!Slots, Locks!LockAssumption
<1>4. Cardinality(ReadersInside') <= locks'[0].shared
  BY <1>2, <1>3 DEF Excluded
<1>. QED
  BY <1>1, <1>2, <1>4 DEF Excluded, Locks!Threads

(* With one mutex, each step that moves no writer on keeps both parts.     *)
LEMMA BeginExcluded ==
    ASSUME Locks!LockAssumption, LocksInv, ~moved,
           NEW t \in Locks!Threads, NEW wait \in {"timed", "block"}, Locks!Begin(t, wait)
    PROVE  (OneMutex /\ Excluded)'
<1>1. OneMutex'
  BY CurrentSlot
       DEF Locks!Begin, Locks!Goto, LocksInv, Locks!TypeOK, OneMutex, Locks!Threads
<1>2. \A u \in Locks!Threads : Locks!Inside(u)' => Locks!Inside(u)
  BY DEF Locks!Begin, Locks!Goto, Locks!Inside, LocksInv, Locks!TypeOK
<1>. QED
  BY <1>1, <1>2, NobodyEnters DEF Locks!Begin, LocksInv

LEMMA ReadStepExcluded ==
    ASSUME Locks!LockAssumption, LocksInv, ~moved, NEW r \in Readers, Locks!ReadStep(r)
    PROVE  (OneMutex /\ Excluded)'
<1>1. /\ r \in Locks!Threads /\ lock[r] = 0 /\ 0 \in Locks!Slots
      /\ \A w \in Writers : w # r /\ w \in Locks!Threads
  BY DEF LocksInv, OneMutex, Locks!Threads, Locks!LockAssumption, Locks!Slots
<1>2. /\ locks[0] \in [exclusive : BOOLEAN, shared : 0 .. SharedMod - 1]
      /\ pc = [t \in Locks!Threads |-> pc[t]]
  BY <1>1 DEF LocksInv, Locks!TypeOK
<1>3. OneMutex'
  BY <1>1
       DEF Locks!ReadStep, Locks!lock_sharable, Locks!ReadThrows,
           Locks!unlock_sharable, Locks!Goto,
              LocksInv, Locks!TypeOK, OneMutex
<1>4. IsFiniteSet(ReadersInside) /\ Cardinality(ReadersInside) \in Nat
  BY FS_CardinalityType DEF LocksInv, Excluded
<1>5. \A w \in Writers : Locks!Inside(w)' <=> Locks!Inside(w)
  BY <1>1, <1>2
       DEF Locks!ReadStep, Locks!lock_sharable, Locks!ReadThrows,
           Locks!unlock_sharable, Locks!Goto, Locks!Inside
<1>6. CASE Locks!lock_sharable(r)
  <2>1. ~locks[0].exclusive
    BY <1>1, <1>6 DEF Locks!lock_sharable, Locks!Sharable, Locks!Mutex
  <2>2. \A w \in Writers : ~Locks!Inside(w)
    BY <2>1 DEF LocksInv, Excluded
  <2>3. ReadersInside' = ReadersInside \cup {r} /\ r \notin ReadersInside
    BY <1>1, <1>2, <1>6
         DEF Locks!lock_sharable, Locks!Waiting, Locks!Goto, ReadersInside,
             Locks!Inside, Locks!Threads
  <2>4. /\ IsFiniteSet(ReadersInside')
        /\ Cardinality(ReadersInside') = Cardinality(ReadersInside) + 1
    BY <1>4, <2>3, FS_AddElement
  <2>5. locks'[0].shared = locks[0].shared + 1
    BY <1>1, <1>2, <1>6 DEF Locks!lock_sharable, LocksInv, Locks!TypeOK
  <2>6. Cardinality(ReadersInside') <= locks'[0].shared
    BY <1>2, <1>4, <2>4, <2>5 DEF LocksInv, Excluded
  <2>. QED
    BY <1>3, <1>5, <2>2, <2>4, <2>6 DEF Excluded
<1>7. CASE Locks!ReadThrows(r)
  <2>1. \A u \in Locks!Threads : Locks!Inside(u)' => Locks!Inside(u)
    BY <1>2, <1>7 DEF Locks!ReadThrows, Locks!Goto, Locks!Inside
  <2>. QED
    BY <1>3, <1>7, <2>1, NobodyEnters DEF Locks!ReadThrows, LocksInv
<1>8. CASE Locks!unlock_sharable(r)
  <2>1. ReadersInside' = ReadersInside \ {r} /\ r \in ReadersInside
    BY <1>1, <1>2, <1>8
         DEF Locks!unlock_sharable, Locks!Goto, ReadersInside, Locks!Inside,
             Locks!Threads
  <2>2. /\ IsFiniteSet(ReadersInside')
        /\ Cardinality(ReadersInside') = Cardinality(ReadersInside) - 1
    BY <1>4, <2>1, FS_RemoveElement
  <2>3. Cardinality(ReadersInside) # 0
    BY <1>4, <2>1, FS_EmptySet
  <2>4. locks[0].shared \in 1 .. SharedMod
    BY <1>2, <1>4, <2>3 DEF LocksInv, Excluded, Locks!LockAssumption
  <2>5. locks'[0].shared = locks[0].shared - 1
    <3>1. (locks[0].shared + SharedMod - 1) % SharedMod = locks[0].shared - 1
      BY <2>4, ModWrap DEF Locks!LockAssumption
    <3>. QED
      BY <1>1, <1>2, <1>8, <3>1 DEF Locks!unlock_sharable, LocksInv, Locks!TypeOK
  <2>6. Cardinality(ReadersInside') <= locks'[0].shared
    BY <1>4, <2>2, <2>4, <2>5 DEF LocksInv, Excluded, Locks!LockAssumption
  <2>7. \A w \in Writers : ~Locks!Inside(w)
    BY <2>1 DEF LocksInv, Excluded
  <2>. QED
    BY <1>3, <1>5, <2>2, <2>6, <2>7 DEF Excluded
<1>. QED
  BY <1>6, <1>7, <1>8 DEF Locks!ReadStep

LEMMA WriteStepExcluded ==
    ASSUME Locks!LockAssumption, LocksInv, ~moved, NEW w \in Writers, Locks!WriteStep(w), ~moved'
    PROVE  (OneMutex /\ Excluded)'
<1>1. /\ w \in Locks!Threads /\ w \notin Readers /\ lock[w] = 0 /\ 0 \in Locks!Slots
      /\ Writers \subseteq Locks!Threads
  BY DEF LocksInv, OneMutex, Locks!Threads, Locks!LockAssumption, Locks!Slots
<1>2. /\ locks[0] \in [exclusive : BOOLEAN, shared : 0 .. SharedMod - 1]
      /\ pc = [t \in Locks!Threads |-> pc[t]]
  BY <1>1 DEF LocksInv, Locks!TypeOK
<1>3. Locks!lock_exclusive(w) \/ Locks!unlock(w)
  <2>1. pc[w] \notin {"construct", "reload"}
    BY DEF LocksInv, OneMutex
  <2>. QED
    BY <2>1 DEF Locks!WriteStep, Locks!next_lock, Locks!Construct, Locks!Reload
<1>4. OneMutex'
  BY <1>1, <1>2, <1>3
       DEF Locks!lock_exclusive, Locks!unlock, Locks!Goto, LocksInv, OneMutex
<1>5. ReadersInside' = ReadersInside
  BY <1>1, <1>2, <1>3
       DEF Locks!lock_exclusive, Locks!unlock, Locks!Goto, ReadersInside,
           Locks!Inside, Locks!Threads
<1>6. IsFiniteSet(ReadersInside) /\ Cardinality(ReadersInside) \in Nat
  BY FS_CardinalityType DEF LocksInv, Excluded
<1>7. CASE Locks!lock_exclusive(w)
  <2>1. locks[0] = [exclusive |-> FALSE, shared |-> 0]
    BY <1>1, <1>7 DEF Locks!lock_exclusive, Locks!Lockable, Locks!Mutex, Locks!Free
  <2>2. \A v \in Writers : ~Locks!Inside(v)
    BY <2>1 DEF LocksInv, Excluded
  <2>3. ReadersInside = {}
    BY <1>6, <2>1, FS_EmptySet DEF LocksInv, Excluded
  <2>4. locks'[0].exclusive /\ locks'[0].shared = 0
    <3>1. locks'[0] = [locks[0] EXCEPT !.exclusive = TRUE]
      BY <1>1, <1>7 DEF Locks!lock_exclusive, LocksInv, Locks!TypeOK
    <3>. QED
      BY <1>2, <2>1, <3>1
  <2>5. \A v \in Writers : Locks!Inside(v)' => v = w
    BY <1>1, <1>2, <1>7, <2>2 DEF Locks!lock_exclusive, Locks!Goto, Locks!Inside
  <2>6. IsFiniteSet(ReadersInside') /\ Cardinality(ReadersInside') <= locks'[0].shared
    BY <1>5, <2>3, <2>4, FS_EmptySet
  <2>. QED
    BY <1>4, <1>5, <2>3, <2>4, <2>5, <2>6 DEF Excluded
<1>8. CASE Locks!unlock(w)
  <2>1. \A v \in Writers : ~Locks!Inside(v)'
    BY <1>1, <1>2, <1>8 DEF Locks!unlock, Locks!Goto, Locks!Inside, LocksInv, Excluded
  <2>2. locks'[0].shared = locks[0].shared
    BY <1>1, <1>2, <1>8 DEF Locks!unlock, LocksInv, Locks!TypeOK
  <2>3. IsFiniteSet(ReadersInside') /\ Cardinality(ReadersInside') <= locks'[0].shared
    BY <1>5, <2>2 DEF LocksInv, Excluded
  <2>. QED
    BY <1>4, <2>1, <2>3 DEF Excluded
<1>. QED
  BY <1>3, <1>7, <1>8

LEMMA DieExcluded ==
    ASSUME Locks!LockAssumption, LocksInv, ~moved, Locks!Die
    PROVE  (OneMutex /\ Excluded)'
<1>1. OneMutex'
  BY DEF Locks!Die, LocksInv, OneMutex, Locks!Threads
<1>2. \A u \in Locks!Threads : Locks!Inside(u)' => Locks!Inside(u)
  BY DEF Locks!Die, Locks!Inside
<1>. QED
  BY <1>1, <1>2, NobodyEnters DEF Locks!Die, LocksInv

LEMMA LocksInit ==
    ASSUME Locks!LockAssumption, Locks!Init
    PROVE  LocksInv
<1>1. Locks!TypeOK
  <2>1. 0 \in Locks!Slots /\ Locks!Free \in [exclusive : BOOLEAN, shared : 0 .. SharedMod - 1]
    BY DEF Locks!Free, Locks!Slots, Locks!LockAssumption
  <2>2. \A r \in Readers : pc[r] \notin {"construct", "reload"}
    BY DEF Locks!Init, Locks!Threads
  <2>3. current \in 0 .. CounterMod - 1 /\ deaths \in 0 .. MaxDeaths
    BY DEF Locks!Init, Locks!LockAssumption
  <2>4. moved \in BOOLEAN
    BY DEF Locks!Init
  <2>. QED
    BY <2>1, <2>2, <2>3, <2>4 DEF Locks!Init, Locks!TypeOK
<1>2. ReadersInside = {} /\ \A w \in Writers : ~Locks!Inside(w)
  BY DEF Locks!Init, ReadersInside, Locks!Inside, Locks!Threads
<1>3. 0 \in Locks!Slots /\ locks[0].shared = 0
  BY DEF Locks!Init, Locks!Free, Locks!Slots, Locks!LockAssumption
<1>4. Excluded
  BY <1>2, <1>3, FS_EmptySet DEF Excluded
<1>. QED
  BY <1>1, <1>4 DEF Locks!Init, LocksInv, OneMutex, Locks!Threads

LEMMA LocksNext ==
    ASSUME Locks!LockAssumption, LocksInv, [Locks!Next]_(Locks!vars)
    PROVE  LocksInv'
<1>1. Locks!TypeOK'
  BY LockTypesNext DEF LocksInv
<1>2. moved => moved'
  BY DEF Locks!Next, Locks!Begin, Locks!ReadStep, Locks!lock_sharable,
         Locks!ReadThrows, Locks!unlock_sharable, Locks!WriteStep,
         Locks!lock_exclusive, Locks!next_lock, Locks!Construct, Locks!Reload, Locks!unlock, Locks!Die, Locks!vars
<1>3. ASSUME ~moved, ~moved' PROVE (OneMutex /\ Excluded)'
  <2>1. CASE UNCHANGED Locks!vars
    BY <1>3, <2>1
         DEF Locks!vars, LocksInv, OneMutex, Excluded, ReadersInside, Locks!Inside
  <2>. QED
    BY <1>3, <2>1, BeginExcluded, ReadStepExcluded, WriteStepExcluded, DieExcluded
         DEF Locks!Next
<1>. QED
  BY <1>1, <1>2, <1>3 DEF LocksInv

(* The mutexes and the threads are always in a state the calls know, in    *)
(* the instance and beside it.                                             *)
LEMMA LocksInvariant == Locks!Spec => []LocksInv
<1>1. Locks!Init => LocksInv
  BY LocksInit, LocksAssumption
<1>2. LocksInv /\ [Locks!Next]_(Locks!vars) => LocksInv'
  BY LocksNext, LocksAssumption
<1>. QED
  BY <1>1, <1>2, PTL DEF Locks!Spec

LEMMA LocksSoundness == LocksInv => Locks!LocksSound
<1> SUFFICES ASSUME LocksInv, ~moved, NEW w \in Writers, NEW t \in Locks!Threads \ {w},
                    Locks!Inside(w), Locks!Inside(t)
             PROVE  FALSE
  BY DEF LocksInv, Locks!LocksSound, Locks!ExclusiveUntilTimeout
<1>1. CASE t \in Writers
  BY <1>1 DEF LocksInv, Excluded
<1>2. CASE t \in Readers
  BY <1>2 DEF LocksInv, Excluded, ReadersInside
<1>. QED
  BY <1>1, <1>2 DEF Locks!Threads

(* database::with_write_lock(): until some writer has given up waiting, no *)
(* callback runs next to a writer's, whoever dies while holding the mutex. *)
THEOREM WritersExclude == Locks!Spec => []Locks!LocksSound
BY LocksInvariant, LocksSoundness, PTL

(* with_read_lock() and with_write_lock() beside the sessions: a write     *)
(* callback is alone until some writer has given up waiting.               *)
THEOREM WritersAlone == SpecMC => []LocksSound
<1>1. InitMC => Locks!Init
  BY DEF InitMC
<1>2. [NextMC]_varsMC => [Locks!Next]_(Locks!vars)
  BY DEF NextMC, varsMC, locking, Locks!vars
<1>3. SpecMC => Locks!Spec
  BY <1>1, <1>2, PTL DEF SpecMC, Locks!Spec
<1>. QED
  BY <1>3, WritersExclude, PTL DEF LocksSound

(* What holds of the sessions holds of them in the instance.               *)
LEMMA SessionsOfInstance == SpecMC => Spec
<1>1. InitMC => Init
  BY DEF InitMC
<1>2. [NextMC]_varsMC => [Next]_vars
  BY DEF NextMC, varsMC, vars
<1>. QED
  BY <1>1, <1>2, PTL DEF SpecMC, Spec
=============================================================================
