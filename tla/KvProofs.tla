------------------------------ MODULE KvProofs ------------------------------
(***************************************************************************)
(* The replicated stores of KvApply, for every cluster, every command and  *)
(* every log: what replaying a log leaves in a map, what replaying a part  *)
(* of it again changes, and that stores that have caught up are equal.     *)
(***************************************************************************)
EXTENDS KvApply, RaftCommitProofs, FiniteSetTheorems

(* What a command and a sequence of commands do to a map *)

\* Induction as a statement about a set of numbers: one outside it would map the
\* numbers below it into themselves without 0, one to one.  What Store::apply does
\* entry by entry is proved with it.
LEMMA NatInd ==
  ASSUME NEW S \in SUBSET Nat, 0 \in S, \A n \in S : n + 1 \in S
  PROVE  S = Nat
<1>1. SUFFICES ASSUME NEW n \in Nat, n \notin S PROVE FALSE
  OBVIOUS
<1>2. PICK Z \in SUBSET (0 .. n) : Z = S \cap (0 .. n)
  OBVIOUS
<1>3. IsFiniteSet(Z)
  <2>1. IsFiniteSet(0 .. n)
    BY 0 \in Int, n \in Int, FS_Interval
  <2>2. QED
    BY <2>1, FS_Subset
<1>4. PICK Y : Y = Z \ {0}
  OBVIOUS
<1>5. 0 \in Z
  BY <1>2
<1>6. IsFiniteSet(Y) /\ Cardinality(Y) = Cardinality(Z) - 1
  BY <1>3, <1>4, <1>5, FS_RemoveElement
<1>7. PICK f : f = [k \in Z |-> k + 1]
  OBVIOUS
<1>8. f \in [Z -> Y]
  <2>1. ASSUME NEW k \in Z PROVE k + 1 \in Y
    <3>1. k \in S /\ k \in 0 .. n /\ k # n
      BY <1>1, <1>2, <2>1
    <3>2. QED
      BY <1>2, <1>4, <3>1
  <2>2. QED
    BY <1>7, <2>1
<1>9. Cardinality(Y) < Cardinality(Z)
  BY <1>3, <1>6, FS_CardinalityType
<1>10. \E x, y \in Z : x # y /\ f[x] = f[y]
  BY <1>3, <1>6, <1>8, <1>9, FS_PigeonHole
<1>11. QED
  BY <1>7, <1>10

\* Store::apply of each entry in turn: a map after every number of them exists,
\* and is the one after the entry before, changed by this entry.
LEMMA AppliedIsRecursive ==
  ASSUME NEW map, NEW entries, Len(entries) \in Nat
  PROVE  /\ Applied(map, entries)[0] = map
         /\ \A n \in 0 .. Len(entries) : n # 0 =>
              Applied(map, entries)[n] = ApplyEntry(Applied(map, entries)[n - 1], entries[n])
<1>1. PICK N \in Nat : N = Len(entries)
  OBVIOUS
<1> DEFINE IsAfter(g, n) ==
             g = [m \in 0 .. n |-> IF m = 0 THEN map ELSE ApplyEntry(g[m - 1], entries[m])]
           S == {n \in Nat : \E g : IsAfter(g, n)}
<1>2. 0 \in S
  <2>1. IsAfter([m \in 0 .. 0 |-> map], 0)
    OBVIOUS
  <2>2. QED
    BY <2>1
<1>3. ASSUME NEW n \in S PROVE n + 1 \in S
  <2>1. PICK g : IsAfter(g, n)
    OBVIOUS
  <2>2. PICK h : h = [m \in 0 .. n + 1 |-> IF m = n + 1 THEN ApplyEntry(g[n], entries[m]) ELSE g[m]]
    OBVIOUS
  <2>3. ASSUME NEW m \in 0 .. n + 1
        PROVE  h[m] = IF m = 0 THEN map ELSE ApplyEntry(h[m - 1], entries[m])
    <3>1. CASE m = n + 1
      <4>1. h[m] = ApplyEntry(g[n], entries[m]) /\ m # 0 /\ m - 1 = n /\ n # n + 1
        BY <2>2, <3>1
      <4>2. h[n] = g[n]
        BY <2>2, <4>1
      <4>3. QED
        BY <4>1, <4>2
    <3>2. CASE m # n + 1
      <4>1. m \in 0 .. n /\ h[m] = g[m]
        BY <2>2, <3>2
      <4>2. CASE m = 0
        BY <2>1, <4>1, <4>2
      <4>3. CASE m # 0
        <5>1. m - 1 \in 0 .. n + 1 /\ m - 1 # n + 1
          BY <4>1, <4>3
        <5>2. h[m - 1] = g[m - 1]
          BY <2>2, <5>1
        <5>3. g[m] = ApplyEntry(g[m - 1], entries[m])
          BY <2>1, <4>1, <4>3
        <5>4. QED
          BY <4>1, <4>3, <5>2, <5>3
      <4>4. QED
        BY <4>2, <4>3
    <3>3. QED
      BY <3>1, <3>2
  <2>4. IsAfter(h, n + 1)
    BY <2>2, <2>3
  <2>5. n + 1 \in Nat
    OBVIOUS
  <2>6. QED
    <3> HIDE DEF IsAfter
    <3>1. QED
      BY <2>4, <2>5
<1>4. S = Nat
  <2> HIDE DEF S
  <2>1. S \in SUBSET Nat
    BY DEF S
  <2>2. QED
    BY <1>2, <1>3, <2>1, NatInd
<1>5. \E g : IsAfter(g, N)
  BY <1>4
<1>6. Applied(map, entries) = CHOOSE g : IsAfter(g, N)
  BY <1>1 DEF Applied
<1>7. PICK f : f = Applied(map, entries)
  OBVIOUS
<1>8. IsAfter(f, N)
  BY <1>5, <1>6, <1>7
<1>9. QED
  BY <1>1, <1>7, <1>8

\* BTreeMap::insert sets one key and leaves the others.
LEMMA PutFacts ==
  ASSUME NEW map, NEW k, NEW v
  PROVE  /\ DOMAIN InsertKey(map, k, v) = DOMAIN map \cup {k}
         /\ InsertKey(map, k, v)[k] = v
         /\ \A x \in DOMAIN map : x # k => InsertKey(map, k, v)[x] = map[x]
         /\ IsMap(InsertKey(map, k, v))
BY DEF InsertKey, IsMap

\* BTreeMap::remove drops one key and leaves the others.
LEMMA DeleteFacts ==
  ASSUME NEW map, NEW k
  PROVE  /\ DOMAIN RemoveKey(map, k) = DOMAIN map \ {k}
         /\ \A x \in DOMAIN map : x # k => RemoveKey(map, k)[x] = map[x]
         /\ IsMap(RemoveKey(map, k))
BY DEF RemoveKey, Restrict, IsMap

\* Command::decode returns a put, a delete or nothing, with its fields.
LEMMA DecodeFacts ==
  ASSUME NEW bytes
  PROVE  LET c == DecodeCommand(bytes)
         IN /\ c.op \in {"Put", "Delete", "None"}
            /\ c.op = "Put" => c = Put(c.key, c.value)
            /\ c.op = "Delete" => c = Delete(c.key)
BY DEF DecodeCommand, Put, Delete, NoCommand

\* Some position is the last of those that write a key (the order of replay).
LEMMA HighestOf ==
  ASSUME NEW n \in Nat, NEW W \in SUBSET (1 .. n), W # {}
  PROVE  Max(W) \in W /\ \A w \in W : w <= Max(W)
<1> DEFINE S == {m \in Nat : \A V \in SUBSET (1 .. m) :
                   V # {} => \E x \in V : \A y \in V : x >= y}
<1>1. 0 \in S
  <2>1. \A V \in SUBSET (1 .. 0) : V = {}
    OBVIOUS
  <2>2. QED
    BY <2>1
<1>2. ASSUME NEW m \in S PROVE m + 1 \in S
  <2>1. ASSUME NEW V \in SUBSET (1 .. m + 1), V # {}
        PROVE  \E x \in V : \A y \in V : x >= y
    <3>1. CASE m + 1 \in V
      BY <3>1
    <3>2. CASE m + 1 \notin V
      <4>1. V \in SUBSET (1 .. m)
        BY <3>2
      <4>2. QED
        BY <2>1, <4>1
    <3>3. QED
      BY <3>1, <3>2
  <2>2. QED
    BY <2>1
<1>3. S = Nat
  <2>1. S \in SUBSET Nat
    OBVIOUS
  <2> HIDE DEF S
  <2>2. QED
    BY <1>1, <1>2, <2>1, NatInd
<1>4. \E x \in W : \A y \in W : x >= y
  BY <1>3
<1>5. Max(W) \in W /\ \A y \in W : Max(W) >= y
  BY <1>4 DEF Max
<1>6. QED
  BY <1>5

SameAt(f, g, k) ==
  /\ k \in DOMAIN f <=> k \in DOMAIN g
  /\ k \in DOMAIN f => f[k] = g[k]

\* f says of k what command c, a command on k, left there.
LeftBy(c, f, k) ==
  IF c.op = "Put" THEN k \in DOMAIN f /\ f[k] = c.value ELSE k \notin DOMAIN f

Writes(c, k) == c.op # "None" /\ c.key = k

CommandAt(entries, n) == DecodeCommand(entries[n].command)

\* Store::apply changes the key of its command, as the command says, and no other.
LEMMA ExecuteFacts ==
  ASSUME NEW map, IsMap(map), NEW bytes, NEW k
  PROVE  LET c == DecodeCommand(bytes)
         IN /\ IsMap(Execute(c, map))
            /\ ~Writes(c, k) => SameAt(Execute(c, map), map, k)
            /\ Writes(c, k) => LeftBy(c, Execute(c, map), k)
<1>1. PICK c : c = DecodeCommand(bytes)
  OBVIOUS
<1>2. c.op \in {"Put", "Delete", "None"}
  BY <1>1, DecodeFacts
<1>3. PICK f : f = Execute(c, map)
  OBVIOUS
<1>4. CASE c.op = "Put"
  <2>1. PICK x, v : x = c.key /\ v = c.value
    OBVIOUS
  <2>2. f = InsertKey(map, x, v)
    BY <1>3, <1>4, <2>1 DEF Execute
  <2>3. /\ DOMAIN f = DOMAIN map \cup {x} /\ f[x] = v
        /\ \A y \in DOMAIN map : y # x => f[y] = map[y]
        /\ IsMap(f)
    <3>1. /\ DOMAIN InsertKey(map, x, v) = DOMAIN map \cup {x}
          /\ InsertKey(map, x, v)[x] = v
          /\ \A y \in DOMAIN map : y # x => InsertKey(map, x, v)[y] = map[y]
          /\ IsMap(InsertKey(map, x, v))
      BY PutFacts
    <3>2. QED
      BY <2>2, <3>1
  <2>4. IsMap(f)
    BY <2>3
  <2>5. k # x => SameAt(f, map, k)
    BY <2>3 DEF SameAt
  <2>6. k = x => LeftBy(c, f, k)
    BY <1>4, <2>1, <2>3 DEF LeftBy
  <2>7. Writes(c, k) <=> k = x
    BY <1>4, <2>1 DEF Writes
  <2>8. QED
    BY <1>1, <1>3, <2>4, <2>5, <2>6, <2>7
<1>5. CASE c.op = "Delete"
  <2>1. PICK x, v : x = c.key /\ v = c.value
    OBVIOUS
  <2>2. f = RemoveKey(map, x)
    BY <1>3, <1>5, <2>1 DEF Execute
  <2>3. /\ DOMAIN f = DOMAIN map \ {x}
        /\ \A y \in DOMAIN map : y # x => f[y] = map[y]
        /\ IsMap(f)
    BY <2>2, DeleteFacts
  <2>4. IsMap(f)
    BY <2>3
  <2>5. k # x => SameAt(f, map, k)
    BY <2>3 DEF SameAt
  <2>6. k = x => LeftBy(c, f, k)
    BY <1>5, <2>1, <2>3 DEF LeftBy
  <2>7. Writes(c, k) <=> k = x
    BY <1>5, <2>1 DEF Writes
  <2>8. QED
    BY <1>1, <1>3, <2>4, <2>5, <2>6, <2>7
<1>6. CASE c.op = "None"
  <2>1. f = map
    BY <1>3, <1>6 DEF Execute
  <2>2. QED
    BY <1>1, <1>3, <1>6, <2>1 DEF SameAt, Writes
<1>7. QED
  BY <1>2, <1>4, <1>5, <1>6

\* The first n entries that Store::apply is given leave of a key what the last of
\* them on it wrote.
LEMMA AppliedAt ==
  ASSUME NEW map, IsMap(map), NEW entries, Len(entries) \in Nat, NEW k,
         NEW n \in 0 .. Len(entries)
  PROVE  LET f == Applied(map, entries)[n]
             W == Writers(entries, k)
         IN /\ IsMap(f)
            /\ (\A w \in 1 .. n : w \notin W) => SameAt(f, map, k)
            /\ \A m \in 1 .. n : m \in W /\ (\A w \in m + 1 .. n : w \notin W)
                 => LeftBy(CommandAt(entries, m), f, k)
<1>1. PICK N \in Nat : N = Len(entries)
  OBVIOUS
<1>2. PICK W : W = Writers(entries, k)
  OBVIOUS
<1>3. PICK A : A = Applied(map, entries)
  OBVIOUS
<1>4. \A w \in 1 .. N : w \in W <=> Writes(CommandAt(entries, w), k)
  BY <1>1, <1>2 DEF Writers, Writes, CommandAt
<1> DEFINE Good(x) ==
             /\ IsMap(A[x])
             /\ (\A w \in 1 .. x : w \notin W) => SameAt(A[x], map, k)
             /\ \A m \in 1 .. x : m \in W /\ (\A w \in m + 1 .. x : w \notin W)
                  => LeftBy(CommandAt(entries, m), A[x], k)
           S == {x \in Nat : x <= N => Good(x)}
<1>5. Good(0)
  <2>1. A[0] = map
    BY <1>1, <1>3, AppliedIsRecursive
  <2>2. SameAt(map, map, k)
    BY DEF SameAt
  <2>3. \A m \in 1 .. 0 : FALSE
    OBVIOUS
  <2>4. QED
    BY <2>1, <2>2, <2>3
<1>6. ASSUME NEW x \in Nat, x + 1 <= N, Good(x)
      PROVE  Good(x + 1)
  <2>1. PICK c : c = CommandAt(entries, x + 1)
    OBVIOUS
  <2>2. PICK f, g : f = A[x] /\ g = A[x + 1]
    OBVIOUS
  <2>3. g = Execute(c, f)
    <3>1. x + 1 \in 0 .. N /\ x + 1 # 0 /\ (x + 1) - 1 = x
      BY <1>6
    <3>2. A[x + 1] = ApplyEntry(A[(x + 1) - 1], entries[x + 1])
      BY <1>1, <1>3, <3>1, AppliedIsRecursive
    <3>3. QED
      BY <2>1, <2>2, <3>1, <3>2 DEF ApplyEntry, CommandAt
  <2>4. /\ IsMap(g)
        /\ ~Writes(c, k) => SameAt(g, f, k)
        /\ Writes(c, k) => LeftBy(c, g, k)
    BY <1>6, <2>1, <2>2, <2>3, ExecuteFacts DEF CommandAt
  <2>5. x + 1 \in W <=> Writes(c, k)
    BY <1>4, <1>6, <2>1
  <2>6. ASSUME \A w \in 1 .. x + 1 : w \notin W
        PROVE  SameAt(g, map, k)
    <3>1. SameAt(f, map, k)
      <4>1. \A w \in 1 .. x : w \in 1 .. x + 1
        OBVIOUS
      <4>2. QED
        BY <1>6, <2>2, <2>6, <4>1
    <3>2. SameAt(g, f, k)
      BY <2>4, <2>5, <2>6
    <3>3. QED
      BY <3>1, <3>2 DEF SameAt
  <2>7. ASSUME NEW m \in 1 .. x + 1, m \in W, \A w \in m + 1 .. x + 1 : w \notin W
        PROVE  LeftBy(CommandAt(entries, m), g, k)
    <3>1. CASE m = x + 1
      BY <2>1, <2>4, <2>5, <2>7, <3>1
    <3>2. CASE m # x + 1
      <4>1. m \in 1 .. x /\ x + 1 \in m + 1 .. x + 1
        BY <2>7, <3>2
      <4>2. \A w \in m + 1 .. x : w \in m + 1 .. x + 1
        BY <4>1
      <4>3. LeftBy(CommandAt(entries, m), f, k)
        BY <1>6, <2>2, <2>7, <4>1, <4>2
      <4>4. SameAt(g, f, k)
        BY <2>4, <2>5, <2>7, <4>1
      <4>5. QED
        BY <4>3, <4>4 DEF SameAt, LeftBy
    <3>3. QED
      BY <3>1, <3>2
  <2>8. QED
    BY <2>2, <2>4, <2>6, <2>7
<1>7. \A x \in S : x + 1 \in S
  <2> HIDE DEF Good
  <2>1. ASSUME NEW x \in S PROVE x + 1 \in S
    <3>1. x \in Nat /\ x + 1 \in Nat /\ (x + 1 <= N => x <= N)
      OBVIOUS
    <3>2. QED
      BY <1>6, <3>1
  <2>2. QED
    BY <2>1
<1>8. S = Nat
  <2> HIDE DEF Good
  <2>1. 0 \in S
    BY <1>5
  <2>2. S \in SUBSET Nat
    OBVIOUS
  <2> HIDE DEF S
  <2>3. QED
    BY <1>7, <2>1, <2>2, NatInd
<1>9. Good(n)
  <2> HIDE DEF Good
  <2>1. n \in Nat /\ n <= N
    BY <1>1
  <2>2. QED
    BY <1>8, <2>1
<1>10. QED
  BY <1>2, <1>3, <1>9

\* Maps that Store::get cannot tell apart are equal.
LEMMA SameMaps ==
  ASSUME NEW f, NEW g, IsMap(f), IsMap(g), \A k : SameAt(f, g, k)
  PROVE  f = g
<1>1. DOMAIN f = DOMAIN g
  BY DEF SameAt
<1>2. \A k \in DOMAIN f : f[k] = g[k]
  BY DEF SameAt
<1>3. QED
  BY <1>1, <1>2 DEF IsMap

\* Two maps that command c has written k in (Store::apply) say the same of it.
LEMMA LeftByOne ==
  ASSUME NEW c, NEW f, NEW g, NEW k, LeftBy(c, f, k), LeftBy(c, g, k)
  PROVE  SameAt(f, g, k)
BY DEF LeftBy, SameAt

\* Store::new is the map without keys.
LEMMA EmptyIsMap == IsMap(EmptyStore) /\ DOMAIN EmptyStore = {}
BY DEF IsMap, EmptyStore

\* What LastWrites says of one key: nothing if no command is on it, and otherwise
\* what the last one left there (the meaning of replay).
LEMMA LastWritesAt ==
  ASSUME NEW entries, Len(entries) \in Nat, NEW k
  PROVE  LET W == Writers(entries, k)
         IN /\ IsMap(LastWrites(entries))
            /\ W = {} => k \notin DOMAIN LastWrites(entries)
            /\ W # {} => LeftBy(LastWrite(entries, k), LastWrites(entries), k)
<1>1. PICK N \in Nat : N = Len(entries)
  OBVIOUS
<1>2. PICK W : W = Writers(entries, k)
  OBVIOUS
<1> DEFINE commands == {DecodeCommand(entries[n].command) : n \in 1 .. Len(entries)}
           keys     == {c.key : c \in {d \in commands : d.op # "None"}}
           present  == {x \in keys : LastWrite(entries, x).op = "Put"}
<1>3. PICK P : P = present
  OBVIOUS
<1>4. PICK f : f = LastWrites(entries)
  OBVIOUS
<1>5. f = [x \in P |-> LastWrite(entries, x).value]
  BY <1>3, <1>4 DEF LastWrites
<1>6. k \in keys <=> W # {}
  BY <1>2 DEF Writers
<1>7. k \in P <=> W # {} /\ LastWrite(entries, k).op = "Put"
  BY <1>3, <1>6
<1>8. DOMAIN f = P /\ (k \in P => f[k] = LastWrite(entries, k).value)
  BY <1>5
<1>9. IsMap(f)
  BY <1>5 DEF IsMap
<1>10. QED
  BY <1>2, <1>4, <1>7, <1>8, <1>9 DEF LeftBy

\* Replaying a log of any length from nothing maps each key to the last value put
\* on it, and no key deleted after it (Store::replay).
THEOREM ReplayIsLastWrites ==
  ASSUME NEW entries, Len(entries) \in Nat
  PROVE  ApplyAll(EmptyStore, entries) = LastWrites(entries)
<1>1. PICK N \in Nat : N = Len(entries)
  OBVIOUS
<1>2. PICK f, g : f = ApplyAll(EmptyStore, entries) /\ g = LastWrites(entries)
  OBVIOUS
<1>3. ASSUME NEW k
      PROVE  IsMap(f) /\ IsMap(g) /\ SameAt(f, g, k)
  <2>1. PICK W \in SUBSET (1 .. N) : W = Writers(entries, k)
    BY <1>1 DEF Writers
  <2>2. N \in 0 .. Len(entries) /\ f = Applied(EmptyStore, entries)[N]
    BY <1>1, <1>2 DEF ApplyAll
  <2>3. /\ IsMap(f)
        /\ (\A w \in 1 .. N : w \notin W) => SameAt(f, EmptyStore, k)
        /\ \A m \in 1 .. N : m \in W /\ (\A w \in m + 1 .. N : w \notin W)
             => LeftBy(CommandAt(entries, m), f, k)
    BY <2>1, <2>2, EmptyIsMap, AppliedAt
  <2>4. /\ IsMap(g)
        /\ W = {} => k \notin DOMAIN g
        /\ W # {} => LeftBy(LastWrite(entries, k), g, k)
    BY <1>1, <1>2, <2>1, LastWritesAt
  <2>5. CASE W = {}
    BY <2>3, <2>4, <2>5, EmptyIsMap DEF SameAt
  <2>6. CASE W # {}
    <3>1. PICK m : m = Max(W) /\ m \in W /\ \A w \in W : w <= m
      BY <1>1, <2>6, HighestOf
    <3>2. m \in 1 .. N /\ \A w \in m + 1 .. N : w \notin W
      BY <3>1
    <3>3. LeftBy(CommandAt(entries, m), f, k)
      BY <2>3, <3>1, <3>2
    <3>4. CommandAt(entries, m) = LastWrite(entries, k)
      BY <2>1, <3>1 DEF CommandAt, LastWrite
    <3>5. QED
      BY <2>3, <2>4, <2>6, <3>3, <3>4, LeftByOne
  <2>7. QED
    BY <2>5, <2>6
<1>4. QED
  BY <1>2, <1>3, SameMaps

-----------------------------------------------------------------------------
\* No command of l in first .. last is on k.
Quiet(l, k, first, last) ==
  \A w \in first .. last : ~Writes(CommandAt(l, w), k)

\* The entries that one take_committed returns, by their place in the log.
LEMMA SegmentFacts ==
  ASSUME NEW E, NEW l \in Seq(E), NEW x \in Nat, NEW y \in Nat, x <= y, y <= Len(l)
  PROVE  LET e == SubSeq(l, x + 1, y)
         IN /\ Len(e) = y - x
            /\ \A j \in 1 .. y - x : e[j] = l[x + j]
  OBVIOUS

\* Applied to a store, the entries x + 1 to y of l leave of a key what the last of
\* them on it wrote (Store::apply over one take_committed).
LEMMA SegmentAt ==
  ASSUME NEW E, NEW l \in Seq(E), NEW x \in Nat, NEW y \in Nat, x <= y, y <= Len(l),
         NEW map, IsMap(map), NEW k
  PROVE  LET f == ApplyAll(map, SubSeq(l, x + 1, y))
         IN /\ IsMap(f)
            /\ Quiet(l, k, x + 1, y) => SameAt(f, map, k)
            /\ \A m \in x + 1 .. y :
                 Writes(CommandAt(l, m), k) /\ Quiet(l, k, m + 1, y)
                   => LeftBy(CommandAt(l, m), f, k)
<1>1. PICK e : e = SubSeq(l, x + 1, y)
  OBVIOUS
<1>2. PICK N \in Nat : N = y - x
  BY y - x \in Nat
<1>3. Len(e) = N /\ \A j \in 1 .. N : e[j] = l[x + j]
  BY <1>1, <1>2, SegmentFacts
<1>4. PICK f : f = ApplyAll(map, e)
  OBVIOUS
<1>5. f = Applied(map, e)[N] /\ N \in 0 .. Len(e) /\ Len(e) \in Nat
  BY <1>3, <1>4 DEF ApplyAll
<1>6. PICK W : W = Writers(e, k)
  OBVIOUS
<1>7. \A j \in 1 .. N : CommandAt(e, j) = CommandAt(l, x + j)
  BY <1>3 DEF CommandAt
<1>8. \A j \in 1 .. N : j \in W <=> Writes(CommandAt(l, x + j), k)
  BY <1>3, <1>6, <1>7 DEF Writers, Writes, CommandAt
<1>9. /\ IsMap(f)
      /\ (\A w \in 1 .. N : w \notin W) => SameAt(f, map, k)
      /\ \A m \in 1 .. N : m \in W /\ (\A w \in m + 1 .. N : w \notin W)
           => LeftBy(CommandAt(e, m), f, k)
  BY <1>5, <1>6, AppliedAt
<1>10. ASSUME Quiet(l, k, x + 1, y)
       PROVE  SameAt(f, map, k)
  <2>1. ASSUME NEW w \in 1 .. N PROVE w \notin W
    <3>1. x + w \in x + 1 .. y
      BY <1>2
    <3>2. QED
      BY <1>8, <1>10, <3>1 DEF Quiet
  <2>2. QED
    BY <1>9, <2>1
<1>11. ASSUME NEW m \in x + 1 .. y, Writes(CommandAt(l, m), k), Quiet(l, k, m + 1, y)
       PROVE  LeftBy(CommandAt(l, m), f, k)
  <2>1. PICK j \in 1 .. N : m = x + j
    <3>1. m - x \in 1 .. N /\ m = x + (m - x)
      BY <1>2
    <3>2. QED
      BY <3>1
  <2>2. ASSUME NEW w \in j + 1 .. N PROVE w \notin W
    <3>1. x + w \in m + 1 .. y /\ w \in 1 .. N
      BY <1>2, <2>1
    <3>2. QED
      BY <1>8, <1>11, <3>1 DEF Quiet
  <2>3. j \in W
    BY <1>8, <1>11, <2>1
  <2>4. LeftBy(CommandAt(e, j), f, k)
    BY <1>9, <2>2, <2>3
  <2>5. QED
    BY <1>7, <2>1, <2>4
<1>12. QED
  BY <1>1, <1>4, <1>9, <1>10, <1>11

\* What the log up to y says of k: what the last command on it there wrote, or
\* nothing (replay of a prefix).
LEMMA PrefixAt ==
  ASSUME NEW E, NEW l \in Seq(E), NEW y \in Nat, y <= Len(l), NEW k
  PROVE  /\ IsMap(Meaning(l, y))
         /\ Quiet(l, k, 1, y) => SameAt(Meaning(l, y), EmptyStore, k)
         /\ \A m \in 1 .. y :
              Writes(CommandAt(l, m), k) /\ Quiet(l, k, m + 1, y)
                => LeftBy(CommandAt(l, m), Meaning(l, y), k)
<1>1. 0 + 1 = 1 /\ 0 <= y /\ 0 \in Nat
  OBVIOUS
<1>2. PICK f : f = ApplyAll(EmptyStore, SubSeq(l, 1, y))
  OBVIOUS
<1>3. /\ IsMap(f)
      /\ Quiet(l, k, 1, y) => SameAt(f, EmptyStore, k)
      /\ \A m \in 1 .. y : Writes(CommandAt(l, m), k) /\ Quiet(l, k, m + 1, y)
           => LeftBy(CommandAt(l, m), f, k)
  <2>1. LET g == ApplyAll(EmptyStore, SubSeq(l, 0 + 1, y))
        IN /\ IsMap(g)
           /\ Quiet(l, k, 0 + 1, y) => SameAt(g, EmptyStore, k)
           /\ \A m \in 0 + 1 .. y : Writes(CommandAt(l, m), k) /\ Quiet(l, k, m + 1, y)
                => LeftBy(CommandAt(l, m), g, k)
    BY <1>1, EmptyIsMap, SegmentAt
  <2>2. QED
    BY <1>1, <1>2, <2>1
<1>4. Len(SubSeq(l, 1, y)) \in Nat
  OBVIOUS
<1>5. f = Meaning(l, y)
  BY <1>2, <1>4, ReplayIsLastWrites DEF Meaning
<1>6. QED
  BY <1>3, <1>5

\* If a command of a segment is on k, one of them is the last (the order of replay).
LEMMA LastOn ==
  ASSUME NEW l, NEW k, NEW x \in Nat, NEW y \in Nat, ~Quiet(l, k, x + 1, y)
  PROVE  \E m \in x + 1 .. y : Writes(CommandAt(l, m), k) /\ Quiet(l, k, m + 1, y)
<1>1. PICK W \in SUBSET (1 .. y) :
        W = {w \in x + 1 .. y : Writes(CommandAt(l, w), k)}
  <2>1. {w \in x + 1 .. y : Writes(CommandAt(l, w), k)} \in SUBSET (1 .. y)
    OBVIOUS
  <2>2. QED
    BY <2>1
<1>2. W # {}
  BY <1>1 DEF Quiet
<1>3. PICK m : m = Max(W) /\ m \in W /\ \A w \in W : w <= m
  BY <1>2, HighestOf
<1>4. m \in x + 1 .. y /\ Writes(CommandAt(l, m), k)
  BY <1>1, <1>3
<1>5. ASSUME NEW w \in m + 1 .. y PROVE ~Writes(CommandAt(l, w), k)
  <2>1. w \in x + 1 .. y /\ ~(w <= m)
    BY <1>4
  <2>2. QED
    BY <1>1, <1>3, <2>1
<1>6. QED
  BY <1>4, <1>5 DEF Quiet

\* The map after what TakeCommitted hands out, entries a + 1 to c.
AfterBatch(map, l, a, c) ==
  IF a <= c THEN ApplyAll(map, SubSeq(l, a + 1, c)) ELSE map

\* A batch of take_committed that ends with entry c, which may be below a, leaves
\* a map that what follows c brings to what the log says.
LEMMA ReplayKept ==
  ASSUME NEW E, NEW l \in Seq(E), NEW a \in Nat, NEW c \in Nat, NEW r \in Nat,
         NEW q \in Nat, a <= r, r <= q, c <= q, q <= Len(l), q \in {r, c},
         NEW map, IsMap(map), Replays(map, l, a, r)
  PROVE  IsMap(AfterBatch(map, l, a, c)) /\ Replays(AfterBatch(map, l, a, c), l, c, q)
<1>1. PICK f : f = AfterBatch(map, l, a, c)
  OBVIOUS
<1>2. f = IF a <= c THEN ApplyAll(map, SubSeq(l, a + 1, c)) ELSE map
  BY <1>1 DEF AfterBatch
<1>3. Len(l) \in Nat /\ c <= Len(l) /\ r <= Len(l)
  BY LenProperties
<1>4. IsMap(f)
  <2>1. CASE a <= c
    <3>1. IsMap(ApplyAll(map, SubSeq(l, a + 1, c)))
      BY <1>3, <2>1, SegmentAt
    <3>2. QED
      BY <1>2, <2>1, <3>1
  <2>2. QED
    BY <1>2, <2>1
<1>5. PICK g, h : g = ApplyAll(f, SubSeq(l, c + 1, q)) /\ h = Meaning(l, q)
  OBVIOUS
<1>6. ASSUME NEW k
      PROVE  IsMap(g) /\ IsMap(h) /\ SameAt(g, h, k)
  <2>1. /\ IsMap(g)
        /\ Quiet(l, k, c + 1, q) => SameAt(g, f, k)
        /\ \A m \in c + 1 .. q : Writes(CommandAt(l, m), k) /\ Quiet(l, k, m + 1, q)
             => LeftBy(CommandAt(l, m), g, k)
    BY <1>4, <1>5, SegmentAt
  <2>2. /\ IsMap(h)
        /\ \A m \in 1 .. q : Writes(CommandAt(l, m), k) /\ Quiet(l, k, m + 1, q)
             => LeftBy(CommandAt(l, m), h, k)
    BY <1>5, PrefixAt
  <2>3. CASE ~Quiet(l, k, c + 1, q)
    <3>1. PICK m \in c + 1 .. q : Writes(CommandAt(l, m), k) /\ Quiet(l, k, m + 1, q)
      BY <2>3, LastOn
    <3>2. m \in 1 .. q
      OBVIOUS
    <3>3. QED
      BY <2>1, <2>2, <3>1, <3>2, LeftByOne
  <2>4. CASE Quiet(l, k, c + 1, q)
    <3>1. SameAt(g, f, k)
      BY <2>1, <2>4
    <3>2. CASE ~Quiet(l, k, a + 1, q)
      <4>1. PICK m \in a + 1 .. q : Writes(CommandAt(l, m), k) /\ Quiet(l, k, m + 1, q)
        BY <3>2, LastOn
      <4>2. m \in 1 .. q /\ m \notin c + 1 .. q
        BY <2>4, <4>1 DEF Quiet
      <4>3. m \in a + 1 .. c /\ a <= c
        BY <4>2
      <4>4. Quiet(l, k, m + 1, c)
        BY <4>1 DEF Quiet
      <4>5. LeftBy(CommandAt(l, m), f, k)
        BY <1>3, <1>2, <4>1, <4>3, <4>4, SegmentAt
      <4>6. LeftBy(CommandAt(l, m), h, k)
        BY <2>2, <4>1, <4>2
      <4>7. SameAt(f, h, k)
        BY <4>5, <4>6, LeftByOne
      <4>8. QED
        BY <2>1, <2>2, <3>1, <4>7 DEF SameAt
    <3>3. CASE Quiet(l, k, a + 1, q)
      <4>1. SameAt(f, map, k)
        <5>1. CASE a <= c
          <6>1. Quiet(l, k, a + 1, c)
            BY <3>3 DEF Quiet
          <6>2. SameAt(ApplyAll(map, SubSeq(l, a + 1, c)), map, k)
            BY <1>3, <5>1, <6>1, SegmentAt
          <6>3. QED
            BY <1>2, <5>1, <6>2
        <5>2. CASE ~(a <= c)
          BY <1>2, <5>2 DEF SameAt
        <5>3. QED
          BY <5>1, <5>2
      <4>2. SameAt(Meaning(l, r), map, k)
        <5>1. Quiet(l, k, a + 1, r)
          BY <3>3 DEF Quiet
        <5>2. SameAt(ApplyAll(map, SubSeq(l, a + 1, r)), map, k)
          BY <1>3, <5>1, SegmentAt
        <5>3. QED
          BY <5>2 DEF Replays
      <4>3. SameAt(h, Meaning(l, r), k)
        <5>1. Quiet(l, k, r + 1, q)
          BY <3>3 DEF Quiet
        <5>2. CASE Quiet(l, k, 1, r)
          <6>1. Quiet(l, k, 1, q)
            BY <5>1, <5>2 DEF Quiet
          <6>2. SameAt(Meaning(l, r), EmptyStore, k) /\ SameAt(h, EmptyStore, k)
            BY <1>3, <1>5, <5>2, <6>1, PrefixAt
          <6>3. QED
            BY <6>2 DEF SameAt
        <5>3. CASE ~Quiet(l, k, 1, r)
          <6>1. PICK m \in 1 .. r : Writes(CommandAt(l, m), k) /\ Quiet(l, k, m + 1, r)
            <7>1. 0 + 1 = 1 /\ 0 \in Nat
              OBVIOUS
            <7>2. QED
              BY <5>3, <7>1, LastOn
          <6>2. m \in 1 .. q /\ Quiet(l, k, m + 1, q)
            BY <5>1, <6>1 DEF Quiet
          <6>3. LeftBy(CommandAt(l, m), Meaning(l, r), k)
            BY <1>3, <6>1, PrefixAt
          <6>4. LeftBy(CommandAt(l, m), h, k)
            BY <2>2, <6>1, <6>2
          <6>5. QED
            BY <6>3, <6>4, LeftByOne
        <5>4. QED
          BY <5>2, <5>3
      <4>4. QED
        BY <2>1, <2>2, <3>1, <4>1, <4>2, <4>3 DEF SameAt
    <3>4. QED
      BY <3>2, <3>3
  <2>5. QED
    BY <2>3, <2>4
<1>7. g = h
  BY <1>6, SameMaps
<1>8. QED
  BY <1>4, <1>5, <1>7, <1>1 DEF Replays

-----------------------------------------------------------------------------
(* The stores of a cluster *)

\* What take_committed hands to the store: the entries after applied_index, and
\* nothing when commit_index has fallen below it.
LEMMA HandedEntries ==
  ASSUME TypeOK, NEW j \in Node
  PROVE  \E a \in Nat, c \in Nat :
           /\ a = applied_index[j] /\ c = commit_index[j]
           /\ a <= c => EntriesHanded(j) = SubSeq(log[j], a + 1, c)
           /\ a > c => Len(EntriesHanded(j)) = 0
<1>1. PICK a \in Nat, c \in Nat : a = applied_index[j] /\ c = commit_index[j]
  BY DEF TypeOK, Index
<1>2. PICK l \in Seq(Entry) : l = log[j]
  BY DEF TypeOK
<1>3. PICK N : N = (c + 1) - (a + 1) /\ N \in Int
  OBVIOUS
<1>4. Handed(j) = [k \in 1 .. N |-> [index |-> (a + 1) + k - 1,
                                     entry |-> l[(a + 1) + k - 1]]]
  BY <1>1, <1>2, <1>3 DEF Handed
<1>5. EntriesHanded(j) = [k \in 1 .. N |-> l[(a + 1) + k - 1]]
  BY <1>4 DEF EntriesHanded
<1>6. ASSUME a <= c PROVE EntriesHanded(j) = SubSeq(l, a + 1, c)
  <2>1. SubSeq(l, a + 1, c) = [k \in 1 .. c - a |-> l[(a + 1) + k - 1]]
    OBVIOUS
  <2>2. N = c - a
    BY <1>3
  <2>3. QED
    BY <1>5, <2>1, <2>2
<1>7. ASSUME a > c PROVE Len(EntriesHanded(j)) = 0
  <2>1. 1 .. N = {} /\ 1 .. 0 = {}
    BY <1>3, <1>7
  <2>2. EntriesHanded(j) = [k \in 1 .. 0 |-> l[(a + 1) + k - 1]]
    BY <1>5, <2>1
  <2>3. QED
    BY <2>2
<1>8. QED
  BY <1>1, <1>2, <1>6, <1>7

\* take_committed returns the same of logs that agree up to r.
LEMMA SamePieces ==
  ASSUME NEW E, NEW l \in Seq(E), NEW l2 \in Seq(E), NEW x \in Nat, NEW r \in Nat,
         SamePrefix(l, l2, r)
  PROVE  SubSeq(l, x + 1, r) = SubSeq(l2, x + 1, r)
<1>1. /\ SubSeq(l, x + 1, r) = [k \in 1 .. r - x |-> l[(x + 1) + k - 1]]
      /\ SubSeq(l2, x + 1, r) = [k \in 1 .. r - x |-> l2[(x + 1) + k - 1]]
  OBVIOUS
<1>2. ASSUME NEW k \in 1 .. r - x PROVE l[(x + 1) + k - 1] = l2[(x + 1) + k - 1]
  <2>1. (x + 1) + k - 1 \in 1 .. r
    OBVIOUS
  <2>2. QED
    BY <2>1 DEF SamePrefix
<1>3. QED
  BY <1>1, <1>2

\* Replaying logs that agree up to r gives the same map.
LEMMA SameMeaning ==
  ASSUME NEW E, NEW l \in Seq(E), NEW l2 \in Seq(E), NEW r \in Nat, SamePrefix(l, l2, r)
  PROVE  Meaning(l, r) = Meaning(l2, r)
<1>1. 0 + 1 = 1 /\ 0 \in Nat
  OBVIOUS
<1>2. SubSeq(l, 0 + 1, r) = SubSeq(l2, 0 + 1, r)
  BY <1>1, SamePieces
<1>3. QED
  BY <1>1, <1>2 DEF Meaning

\* A store goes on replaying when only what follows r changes in the log (a
\* truncation of entries that are not committed).
LEMMA ReplaysWithPrefix ==
  ASSUME NEW E, NEW l \in Seq(E), NEW l2 \in Seq(E), NEW a \in Nat, NEW r \in Nat,
         SamePrefix(l, l2, r), NEW map, Replays(map, l, a, r)
  PROVE  Replays(map, l2, a, r)
BY SamePieces, SameMeaning DEF Replays

\* Store::new is right about the empty log.
LEMMA EmptyReplays ==
  ASSUME NEW E, NEW l \in Seq(E)
  PROVE  Replays(EmptyStore, l, 0, 0)
<1>1. 0 + 1 = 1 /\ Len(SubSeq(l, 1, 0)) = 0
  OBVIOUS
<1>2. QED
  BY <1>1, ReplayIsLastWrites DEF Replays, Meaning

\* What commit_index covers is in the log.
LEMMA DecidedIsInLog ==
  ASSUME NEW led, NEW l \in Seq(Entry), NEW n \in Nat, NEW t, Decided(led, l, n, t)
  PROVE  n <= Len(l) /\ Len(l) \in Nat
<1>1. Len(l) \in Nat
  BY LenProperties
<1>2. QED
  BY <1>1 DEF Decided, SamePrefix

\* The store of a node that did not apply: whatever the step did to the disks, what
\* the store has reached is still decided and in its log (take_committed).
LEMMA StoreStands ==
  ASSUME NEW led \in [Term -> Seq(Entry)], NEW led2 \in [Term -> Seq(Entry)],
         NEW i \in Node, StepFrom(led, led2, i), NEW p \in Node,
         NEW map, NEW a \in Nat, NEW r \in Nat,
         Decided(led, disk[p].log, r, disk[p].term), Replays(map, disk[p].log, a, r)
  PROVE  /\ Decided(led2, disk[p].log, r, disk[p].term)'
         /\ Replays(map, disk'[p].log, a, r)
<1>1. PICK l \in Seq(Entry), l2 \in Seq(Entry) : l = disk[p].log /\ l2 = disk'[p].log
  BY StepBasics
<1>2. Decided(led2, disk[p].log, r, disk[p].term)' /\ SamePrefix(l, l2, r)
  BY <1>1, PrefixForGood
<1>3. Replays(map, l2, a, r)
  BY <1>1, <1>2, ReplaysWithPrefix
<1>4. QED
  BY <1>1, <1>2, <1>3

\* No step but take_committed touches a store, except that a crash drops it and
\* that a restarted node, which has applied nothing, starts from an empty one.
LEMMA StoresElsewhere ==
  ASSUME NEW led \in [Term -> Seq(Entry)], NEW led2 \in [Term -> Seq(Entry)],
         NEW i \in Node, StepFrom(led, led2, i), StepOf(i), StoreInv(led), KeepStores
  PROVE  StoreInv(led2)'
<1>1. TypeOK /\ TypeOK' /\ live \subseteq Node /\ live' \subseteq Node
  BY StepBasics DEF TypeOK
<1>2. IsMap(store)' /\ (DOMAIN store = Node)'
  BY DEF KeepStores, IsMap
<1>3. reached' \in [Node -> Nat]
  BY DEF KeepStores, StoreInv
<1>4. ASSUME NEW p \in live'
      PROVE  /\ applied_index'[p] <= reached'[p]
             /\ Decided(led2, disk[p].log, reached[p], disk[p].term)'
             /\ IsMap(store'[p])
             /\ Replays(store'[p], disk'[p].log, applied_index'[p], reached'[p])
  <2>1. /\ p \in Node /\ store'[p] = store[p] /\ reached'[p] = reached[p]
        /\ applied_index'[p] = applied_index[p]
    BY <1>1, <1>4 DEF KeepStores
  <2>2. PICK map : map = store[p]
    OBVIOUS
  <2>3. PICK a \in Nat, r \in Nat : a = applied_index[p] /\ r = reached[p]
    BY <1>1, <2>1 DEF TypeOK, Index, StoreInv
  <2>4. /\ a <= r /\ Decided(led, disk[p].log, r, disk[p].term)
        /\ IsMap(map) /\ Replays(map, disk[p].log, a, r)
    <3>1. CASE p \in live
      BY <2>2, <2>3, <3>1 DEF StoreInv
    <3>2. CASE p \notin live
      <4>1. map = EmptyStore /\ r = 0
        BY <2>1, <2>2, <2>3, <3>2 DEF StoreInv
      <4>2. a = 0
        BY <1>1, <1>4, <2>1, <2>3, <3>2, RestartForgets
      <4>3. disk[p].log \in Seq(Entry)
        BY <2>1, StepBasics
      <4>4. Replays(EmptyStore, disk[p].log, 0, 0)
        BY <4>3, EmptyReplays
      <4>5. QED
        BY <4>1, <4>2, <4>4, EmptyIsMap DEF Decided
    <3>3. QED
      BY <3>1, <3>2
  <2>5. /\ Decided(led2, disk[p].log, r, disk[p].term)'
        /\ Replays(map, disk'[p].log, a, r)
    BY <2>1, <2>4, StoreStands
  <2>6. QED
    BY <2>1, <2>2, <2>3, <2>4, <2>5 DEF Decided
<1>5. ASSUME NEW p \in Node \ live' PROVE store'[p] = EmptyStore /\ reached'[p] = 0
  BY <1>5 DEF KeepStores
<1>6. QED
  BY <1>2, <1>3, <1>4, <1>5 DEF StoreInv

\* take_committed leaves a store that replays.
LEMMA StoreAfterApply ==
  ASSUME ElectionInv, NEW led \in [Term -> Seq(Entry)], LogInv(led), CommitInv(led),
         StoreInv(led), NEW j \in Node, Apply(j)
  PROVE  /\ applied_index'[j] \in Nat /\ reached'[j] \in Nat
         /\ applied_index'[j] <= reached'[j]
         /\ Decided(led, disk[j].log, reached'[j], disk[j].term)
         /\ IsMap(store'[j])
         /\ Replays(store'[j], disk[j].log, applied_index'[j], reached'[j])
<1>1. j \in live /\ TypeOK /\ disk[j].log = log[j]
  BY NodeFacts DEF Apply, TakeCommitted, ElectionInv
<1>2. PICK l \in Seq(Entry) : l = log[j] /\ l = disk[j].log
  BY <1>1 DEF TypeOK
<1>3. PICK a \in Nat, c \in Nat :
        /\ a = applied_index[j] /\ c = commit_index[j]
        /\ a <= c => EntriesHanded(j) = SubSeq(log[j], a + 1, c)
        /\ a > c => Len(EntriesHanded(j)) = 0
  BY <1>1, HandedEntries
<1>4. PICK r \in Nat : r = reached[j]
  BY DEF StoreInv
<1>5. PICK map, t : map = store[j] /\ t = disk[j].term
  OBVIOUS
<1>6. PICK q \in Nat : q = Higher(r, c)
  BY DEF Higher
<1>7. q \in {r, c} /\ r <= q /\ c <= q
  BY <1>6 DEF Higher
<1>8. PICK f : f = ApplyAll(map, EntriesHanded(j))
  OBVIOUS
<1>9. f = AfterBatch(map, l, a, c)
  <2>1. CASE a <= c
    BY <1>2, <1>3, <1>8, <2>1 DEF AfterBatch
  <2>2. CASE ~(a <= c)
    <3>1. Len(EntriesHanded(j)) = 0
      BY <1>3, <2>2
    <3>2. ApplyAll(map, EntriesHanded(j)) = map
      BY <3>1, AppliedIsRecursive DEF ApplyAll
    <3>3. QED
      BY <1>8, <2>2, <3>2 DEF AfterBatch
  <2>3. QED
    BY <2>1, <2>2
<1>10. store'[j] = f /\ reached'[j] = q /\ applied_index'[j] = c
  BY <1>1, <1>3, <1>4, <1>5, <1>6, <1>8 DEF Apply, TakeCommitted, TypeOK, StoreInv
<1>11. a <= r /\ Decided(led, l, r, t) /\ IsMap(map) /\ Replays(map, l, a, r)
  BY <1>1, <1>2, <1>3, <1>4, <1>5 DEF StoreInv
<1>12. Decided(led, l, c, t)
  BY <1>2, <1>3, <1>5 DEF CommitInv, CommitsDecided
<1>13. Decided(led, l, q, t)
  BY <1>7, <1>11, <1>12
<1>14. q <= Len(l)
  BY <1>13, DecidedIsInLog
<1>15. IsMap(f) /\ Replays(f, l, c, q)
  <2>1. IsMap(AfterBatch(map, l, a, c)) /\ Replays(AfterBatch(map, l, a, c), l, c, q)
    BY <1>7, <1>11, <1>14, ReplayKept
  <2>2. QED
    BY <1>9, <2>1
<1>16. QED
  BY <1>2, <1>5, <1>7, <1>10, <1>13, <1>15

\* take_committed on one node leaves every store with what it needs to replay.
LEMMA StoresApplied ==
  ASSUME NEW led \in [Term -> Seq(Entry)], NEW led2 \in [Term -> Seq(Entry)],
         NEW i \in Node, StepFrom(led, led2, i), StoreInv(led), NEW j \in Node, Apply(j)
  PROVE  StoreInv(led2)'
<1>1. ElectionInv /\ LogInv(led) /\ CommitInv(led) /\ TypeOK
  BY DEF StepFrom, ElectionInv
<1>2. /\ j \in live /\ live' = live /\ disk' = disk
      /\ applied_index' = [applied_index EXCEPT ![j] = commit_index[j]]
      /\ \E x : store' = [store EXCEPT ![j] = x]
      /\ \E x : reached' = [reached EXCEPT ![j] = x]
  BY DEF Apply, TakeCommitted
<1>3. IsMap(store)' /\ (DOMAIN store = Node)'
  <2>1. PICK x : store' = [store EXCEPT ![j] = x]
    BY <1>2
  <2>2. QED
    BY <2>1 DEF StoreInv, IsMap
<1>4. PICK a \in Nat, r \in Nat : a = applied_index'[j] /\ r = reached'[j]
  BY <1>1, StoreAfterApply
<1>5. PICK map : map = store'[j]
  OBVIOUS
<1>6. reached' \in [Node -> Nat]
  BY <1>2, <1>4 DEF StoreInv
<1>7. ASSUME NEW p \in live
      PROVE  /\ applied_index'[p] <= reached'[p]
             /\ Decided(led2, disk[p].log, reached[p], disk[p].term)'
             /\ IsMap(store'[p])
             /\ Replays(store'[p], disk'[p].log, applied_index'[p], reached'[p])
  <2>1. p \in Node
    BY <1>1 DEF TypeOK
  <2>2. CASE p = j
    <3>1. /\ a <= r /\ Decided(led, disk[p].log, r, disk[p].term)
          /\ IsMap(map) /\ Replays(map, disk[p].log, a, r)
      BY <1>1, <1>4, <1>5, <2>2, StoreAfterApply
    <3>2. /\ Decided(led2, disk[p].log, r, disk[p].term)'
          /\ Replays(map, disk'[p].log, a, r)
      BY <2>1, <3>1, StoreStands
    <3>3. QED
      BY <1>4, <1>5, <2>2, <3>1, <3>2 DEF Decided
  <2>3. CASE p # j
    <3>1. /\ store'[p] = store[p] /\ reached'[p] = reached[p]
          /\ applied_index'[p] = applied_index[p]
      BY <1>1, <1>2, <2>1, <2>3 DEF StoreInv, TypeOK
    <3>2. PICK m : m = store[p]
      OBVIOUS
    <3>3. PICK b \in Nat, s \in Nat : b = applied_index[p] /\ s = reached[p]
      BY <1>1, <2>1 DEF StoreInv, TypeOK, Index
    <3>4. /\ b <= s /\ Decided(led, disk[p].log, s, disk[p].term)
          /\ IsMap(m) /\ Replays(m, disk[p].log, b, s)
      BY <1>7, <3>3, <3>2 DEF StoreInv
    <3>5. /\ Decided(led2, disk[p].log, s, disk[p].term)'
          /\ Replays(m, disk'[p].log, b, s)
      BY <2>1, <3>4, StoreStands
    <3>6. QED
      BY <3>1, <3>3, <3>2, <3>4, <3>5 DEF Decided
  <2>4. QED
    BY <2>2, <2>3
<1>8. ASSUME NEW p \in Node \ live PROVE store'[p] = EmptyStore /\ reached'[p] = 0
  <2>1. store'[p] = store[p] /\ reached'[p] = reached[p]
    BY <1>2, <1>8 DEF StoreInv
  <2>2. QED
    BY <1>8, <2>1 DEF StoreInv
<1>9. QED
  BY <1>2, <1>3, <1>6, <1>7, <1>8 DEF StoreInv

\* A store only watches the node it belongs to (take_committed is a step of it).
LEMMA KvNextIsNext ==
  ASSUME KvNext
  PROVE  Next
BY DEF KvNext, Apply, Next

\* Every call of a node, and every take_committed that feeds its store, keeps the
\* stores' invariant, for the log that the step leaves decided.
LEMMA StoresStep ==
  ASSUME ElectionInv, StoreHistory, KvNext
  PROVE  StoreHistory'
<1>1. PICK led \in [Term -> Seq(Entry)] :
        LogInv(led) /\ CommitInv(led) /\ StoreInv(led)
  BY DEF StoreHistory
<1>2. PICK i \in Node, led2 \in [Term -> Seq(Entry)] :
        StepOf(i) /\ StepFrom(led, led2, i)
  BY <1>1, KvNextIsNext, NextIsStepFrom
<1>3. CommitInv(led2)'
  BY <1>2, CommitInvKept
<1>4. StoreInv(led2)'
  <2>1. CASE KeepStores
    BY <1>1, <1>2, <2>1, StoresElsewhere
  <2>2. ASSUME NEW j \in Node, Apply(j) PROVE StoreInv(led2)'
    BY <1>1, <1>2, <2>2, StoresApplied
  <2>3. QED
    BY <2>1, <2>2 DEF KvNext
<1>5. QED
  BY <1>2, <1>3, <1>4 DEF StepFrom, StoreHistory

\* A step of something else keeps it: nothing it speaks of has changed.
LEMMA StoresStutter ==
  ASSUME StoreHistory, UNCHANGED <<vars, store, reached>>
  PROVE  StoreHistory'
<1>1. PICK led \in [Term -> Seq(Entry)] :
        LogInv(led) /\ CommitInv(led) /\ StoreInv(led)
  BY DEF StoreHistory
<1>2. /\ disk' = disk /\ wire' = wire /\ live' = live
      /\ applied_index' = applied_index /\ store' = store /\ reached' = reached
  BY DEF vars, indices
<1>3. \A l, n, t : Decided(led, l, n, t)' <=> Decided(led, l, n, t)
  BY <1>2, DecidedStutters
<1>4. StoreInv(led)'
  BY <1>1, <1>2, <1>3 DEF StoreInv
<1>5. LogInv(led)' /\ CommitInv(led)'
  BY <1>1, LogInvStutters, CommitInvStutters
<1>6. QED
  BY <1>4, <1>5 DEF StoreHistory

\* Node::new on an empty disk, with Store::new, starts with it.
LEMMA EmptyStores ==
  ASSUME Init, KvInit
  PROVE  StoreHistory
<1>1. PICK led \in [Term -> Seq(Entry)] : LogInv(led) /\ CommitInv(led)
  BY HistoryStarts DEF History
<1>2. /\ IsMap(store) /\ DOMAIN store = Node /\ reached \in [Node -> Nat]
      /\ \A i \in Node : store[i] = EmptyStore /\ reached[i] = 0
  BY DEF KvInit, IsMap
<1>3. ASSUME NEW i \in live
      PROVE  /\ applied_index[i] <= reached[i]
             /\ Decided(led, disk[i].log, reached[i], disk[i].term)
             /\ IsMap(store[i])
             /\ Replays(store[i], disk[i].log, applied_index[i], reached[i])
  <2>1. i \in Node /\ applied_index[i] = 0 /\ disk[i].log \in Seq(Entry)
    BY EmptySeq DEF Init, Blank
  <2>2. store[i] = EmptyStore /\ reached[i] = 0
    BY <1>2, <2>1
  <2>3. Replays(EmptyStore, disk[i].log, 0, 0)
    BY <2>1, EmptyReplays
  <2>4. QED
    BY <2>1, <2>2, <2>3, EmptyIsMap DEF Decided
<1>4. \A i \in Node \ live : store[i] = EmptyStore /\ reached[i] = 0
  BY <1>2
<1>5. QED
  BY <1>1, <1>2, <1>3, <1>4 DEF StoreInv, StoreHistory

\* Whatever was applied is decided, and each store is only as far off as its
\* commit index fell back: replaying what it applied beyond it is enough
\* (Store::apply of what take_committed returns).
THEOREM StoreHistoryHolds == KvSpec => [](ElectionInv /\ StoreHistory)
<1>1. Init /\ KvInit => ElectionInv /\ StoreHistory
  BY InitIsInvariant, EmptyStores
<1>2. ElectionInv /\ StoreHistory /\ [KvNext]_<<vars, store, reached>>
        => (ElectionInv /\ StoreHistory)'
  <2>1. SUFFICES ASSUME ElectionInv, StoreHistory, [KvNext]_<<vars, store, reached>>
                 PROVE  ElectionInv' /\ StoreHistory'
    OBVIOUS
  <2>2. CASE KvNext
    BY <2>1, <2>2, KvNextIsNext, NextKeepsInvariant, StoresStep
  <2>3. CASE UNCHANGED <<vars, store, reached>>
    BY <2>1, <2>3, StutterKeepsInvariant, StoresStutter
  <2>4. QED
    BY <2>1, <2>2, <2>3
<1>3. QED
  BY <1>1, <1>2, PTL DEF KvSpec

\* A store that has nothing left to replay is what its log means (Store::replay).
LEMMA CaughtUpReplays ==
  ASSUME ElectionInv, NEW led \in [Term -> Seq(Entry)], LogInv(led), StoreInv(led),
         NEW i \in Node, CaughtUp(i)
  PROVE  /\ disk[i].log = log[i] /\ applied_index[i] = reached[i]
         /\ Decided(led, log[i], reached[i], disk[i].term)
         /\ store[i] = Meaning(log[i], reached[i])
<1>1. i \in live /\ disk[i].log = log[i] /\ applied_index[i] = reached[i]
  BY NodeFacts DEF CaughtUp
<1>2. PICK l \in Seq(Entry) : l = log[i]
  BY DEF ElectionInv, TypeOK
<1>3. PICK r \in Nat : r = reached[i]
  BY DEF StoreInv
<1>4. PICK t, map : t = disk[i].term /\ map = store[i]
  OBVIOUS
<1>5. Decided(led, l, r, t) /\ Replays(map, l, r, r)
  BY <1>1, <1>2, <1>3, <1>4 DEF StoreInv
<1>6. Len(SubSeq(l, r + 1, r)) = 0
  OBVIOUS
<1>7. ApplyAll(map, SubSeq(l, r + 1, r)) = map
  BY <1>6, AppliedIsRecursive DEF ApplyAll
<1>8. map = Meaning(l, r)
  BY <1>5, <1>7 DEF Replays
<1>9. QED
  BY <1>1, <1>2, <1>3, <1>4, <1>5, <1>8

\* However often take_committed hands an entry out again, a store that has caught
\* up maps each key to the last value its log puts, and no deleted key, on every
\* node of any cluster and with any commands (Store::apply over take_committed).
THEOREM StoresCatchUp == KvSpec => []CaughtUpStores
<1>1. ElectionInv /\ StoreHistory => CaughtUpStores
  <2>1. SUFFICES ASSUME ElectionInv, StoreHistory, NEW i \in Node, CaughtUp(i)
                 PROVE  store[i] = LastWrites(SubSeq(log[i], 1, applied_index[i]))
    BY DEF CaughtUpStores
  <2>2. PICK led \in [Term -> Seq(Entry)] : LogInv(led) /\ StoreInv(led)
    BY <2>1 DEF StoreHistory
  <2>3. QED
    BY <2>1, <2>2, CaughtUpReplays DEF Meaning
<1>2. QED
  BY <1>1, StoreHistoryHolds, PTL

\* Nodes that have applied as much hold the same map, whatever they were handed
\* in between and however often they were restarted (crates/kv/src/lib.rs,
\* "Applying the same committed log always yields the same map, on every node").
THEOREM StoresAgree == KvSpec => []SameStores
<1>1. ElectionInv /\ StoreHistory => SameStores
  <2>1. SUFFICES ASSUME ElectionInv, StoreHistory, NEW i \in Node, NEW j \in Node,
                        CaughtUp(i), CaughtUp(j), reached[i] = reached[j]
                 PROVE  store[i] = store[j]
    BY DEF SameStores
  <2>2. PICK led \in [Term -> Seq(Entry)] :
          LogInv(led) /\ CommitInv(led) /\ StoreInv(led)
    BY <2>1 DEF StoreHistory
  <2>3. PICK a \in Seq(Entry), b \in Seq(Entry) : a = log[i] /\ b = log[j]
    BY <2>1 DEF ElectionInv, TypeOK
  <2>4. PICK r \in Nat : r = reached[i]
    BY <2>2 DEF StoreInv
  <2>5. PICK t, u : t = disk[i].term /\ u = disk[j].term
    OBVIOUS
  <2>6. /\ Decided(led, a, r, t) /\ store[i] = Meaning(a, r)
        /\ Decided(led, b, r, u) /\ store[j] = Meaning(b, r)
    BY <2>1, <2>2, <2>3, <2>4, <2>5, CaughtUpReplays
  <2>7. SamePrefix(a, b, r)
    BY <2>2, <2>6, DecidedAgree DEF CommitInv
  <2>8. Meaning(a, r) = Meaning(b, r)
    BY <2>7, SameMeaning
  <2>9. QED
    BY <2>6, <2>8
<1>2. QED
  BY <1>1, StoreHistoryHolds, PTL
=============================================================================
