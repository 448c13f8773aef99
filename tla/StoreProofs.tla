----------------------------- MODULE StoreProofs -----------------------------
(***************************************************************************)
(* The shared connection keeps its promises for any number of calls.  What *)
(* call k has yet to run, Rest(k), is the end of its method.  The tables   *)
(* hold the effect of the statements it has behind it, and the disk does   *)
(* from its commit on, unless another call writes the same rows.           *)
(***************************************************************************)
EXTENDS StoreProps, QueueLemmas, FiniteSetTheorems

Ops == {"create", "get", "update", "delete", "prefer", "begin", "advance", "end", "log"}
Reading == {"select_program", "select_steps"}
Verbs == Reading \cup {"insert_program", "set", "delete_steps", "insert_step", "delete_program",
                       "set_preference", "delete_active", "insert_active", "move_active",
                       "insert_telemetry", "commit"}

Statements == [verb : Verbs, arg : Columns \cup Keys \cup Nat]

\* The order of the statements of a method, its reads aside.
Rank(v) == IF v \in {"insert_program", "set", "delete_program"} THEN 0
           ELSE IF v \in {"delete_steps", "delete_active"} THEN 1
           ELSE IF v = "commit" THEN 3 ELSE 2

Finish == Stmt("commit", 0)
Inserting(n) == {Stmt("insert_step", i) : i \in 0 .. n - 1}
Reads == {Stmt("select_program", 0), Stmt("select_steps", 0)}

\* x is a statement of call k.
Belongs(x, k) ==
  \/ x = Finish /\ k.op # "get"
  \/ x \in Reads /\ k.op \in {"create", "get", "update"}
  \/ x = Stmt("insert_program", 0) /\ k.op = "create"
  \/ x \in Inserting(k.steps) /\ (k.op = "create" \/ (k.op = "update" /\ k.steps # Null))
  \/ x = Stmt("delete_steps", 0) /\ k.op = "update" /\ k.steps # Null
  \/ k.op = "update" /\ \E f \in k.fields : x = Stmt("set", f)
  \/ x = Stmt("delete_program", 0) /\ k.op = "delete"
  \/ k.op = "prefer" /\ \E f \in k.fields : x = Stmt("set_preference", f)
  \/ x = Stmt("delete_active", 0) /\ k.op \in {"begin", "end"}
  \/ x = Stmt("insert_active", 0) /\ k.op = "begin"
  \/ x = Stmt("move_active", 0) /\ k.op = "advance"
  \/ x = Stmt("insert_telemetry", 0) /\ k.op = "log"

Entries(s) == {s[i] : i \in 1 .. Len(s)}

\* y may come after x in a method.
MayFollow(x, y) ==
  \/ x.verb \in Reading \/ y.verb \in Reading
  \/ Rank(x.verb) < Rank(y.verb)
  \/ x.verb = y.verb /\ x.arg # y.arg

Ordered(s) == \A i, j \in 1 .. Len(s) : i < j => MayFollow(s[i], s[j])

\* After its commit a method reads the whole program for the answer.
ReadsAfter(s) ==
  \A i \in 1 .. Len(s) : s[i] = Finish =>
    \A x \in Reads : \E j \in 1 .. Len(s) : i < j /\ s[j] = x

-----------------------------------------------------------------------------
\* The methods as lists of statements.

LEMMA Entered ==
  ASSUME NEW S, NEW s \in Seq(S)
  PROVE  Len(s) \in Nat /\ Entries(s) \subseteq S /\ (s = <<>> <=> Entries(s) = {})
<1>1. Len(s) \in Nat /\ \A i \in 1 .. Len(s) : s[i] \in S
  BY LenProperties, ElementOfSeq
<1>2. s = <<>> <=> Len(s) = 0
  BY EmptySeq
<1>3. Len(s) # 0 => s[1] \in Entries(s)
  BY <1>1 DEF Entries
<1> QED BY <1>1, <1>2, <1>3 DEF Entries

LEMMA Joined ==
  ASSUME NEW S, NEW s \in Seq(S), NEW t \in Seq(S)
  PROVE  /\ s \o t \in Seq(S) /\ Len(s \o t) = Len(s) + Len(t)
         /\ Entries(s \o t) = Entries(s) \cup Entries(t)
         /\ \A i \in 1 .. Len(s) : (s \o t)[i] = s[i]
         /\ \A i \in 1 .. Len(t) : (s \o t)[Len(s) + i] = t[i]
         /\ Ordered(s) /\ Ordered(t) /\ (\A x \in Entries(s), y \in Entries(t) : MayFollow(x, y))
              => Ordered(s \o t)
<1> DEFINE u == s \o t
<1>1. /\ u \in Seq(S) /\ Len(s) \in Nat /\ Len(t) \in Nat /\ Len(u) = Len(s) + Len(t)
      /\ \A i \in 1 .. Len(s) : u[i] = s[i]
      /\ \A i \in 1 .. Len(t) : u[Len(s) + i] = t[i]
  BY ConcatProperties, LenProperties
<1>2. \A i \in 1 .. Len(u) : \/ i \in 1 .. Len(s)
                             \/ i - Len(s) \in 1 .. Len(t) /\ i = Len(s) + (i - Len(s))
  BY <1>1
<1> HIDE DEF u
<1>3. Entries(u) = Entries(s) \cup Entries(t)
  <2>1. ASSUME NEW x \in Entries(u)  PROVE x \in Entries(s) \cup Entries(t)
    <3>1. PICK i \in 1 .. Len(u) : x = u[i]
      BY DEF Entries
    <3>2. CASE i \in 1 .. Len(s)
      BY <3>1, <3>2, <1>1 DEF Entries
    <3>3. CASE i - Len(s) \in 1 .. Len(t) /\ i = Len(s) + (i - Len(s))
      <4>1. x = t[i - Len(s)]
        BY <3>1, <3>3, <1>1
      <4> QED BY <4>1, <3>3 DEF Entries
    <3> QED BY <3>2, <3>3, <1>2
  <2>2. Entries(s) \subseteq Entries(u)
    BY <1>1 DEF Entries
  <2>3. ASSUME NEW x \in Entries(t)  PROVE x \in Entries(u)
    <3>1. PICK i \in 1 .. Len(t) : x = t[i]
      BY DEF Entries
    <3>2. Len(s) + i \in 1 .. Len(u) /\ u[Len(s) + i] = x
      BY <1>1, <3>1
    <3> QED BY <3>2 DEF Entries
  <2> QED BY <2>1, <2>2, <2>3
<1>4. ASSUME Ordered(s), Ordered(t), \A x \in Entries(s), y \in Entries(t) : MayFollow(x, y)
      PROVE  Ordered(u)
  <2> SUFFICES ASSUME NEW i \in 1 .. Len(u), NEW j \in 1 .. Len(u), i < j
               PROVE  MayFollow(u[i], u[j])
    BY DEF Ordered
  <2>1. CASE j \in 1 .. Len(s)
    <3>1. i \in 1 .. Len(s) /\ u[i] = s[i] /\ u[j] = s[j]
      BY <1>1, <2>1
    <3> QED BY <3>1, <2>1, <1>4 DEF Ordered
  <2>2. CASE i \in 1 .. Len(s) /\ j \notin 1 .. Len(s)
    <3>1. j - Len(s) \in 1 .. Len(t) /\ u[j] = t[j - Len(s)]
      BY <2>2, <1>1, <1>2
    <3>2. u[i] \in Entries(s) /\ u[j] \in Entries(t)
      BY <3>1, <2>2, <1>1 DEF Entries
    <3> QED BY <3>2, <1>4
  <2>3. CASE i \notin 1 .. Len(s)
    <3>1. i - Len(s) \in 1 .. Len(t) /\ i = Len(s) + (i - Len(s))
      BY <2>3, <1>2
    <3>2. j - Len(s) \in 1 .. Len(t) /\ j = Len(s) + (j - Len(s)) /\ i - Len(s) < j - Len(s)
      BY <3>1, <1>1
    <3>3. u[i] = t[i - Len(s)] /\ u[j] = t[j - Len(s)]
      BY <3>1, <3>2, <1>1
    <3> QED BY <3>1, <3>2, <3>3, <1>4 DEF Ordered
  <2> QED BY <2>1, <2>2, <2>3
<1> QED BY <1>1, <1>3, <1>4 DEF u

LEMMA Single ==
  ASSUME NEW S, NEW x \in S
  PROVE  <<x>> \in Seq(S) /\ Entries(<<x>>) = {x} /\ Ordered(<<x>>) /\ Len(<<x>>) = 1
<1>1. <<x>> \in Seq(S) /\ Len(<<x>>) = 1 /\ <<x>>[1] = x
  OBVIOUS
<1>2. Entries(<<x>>) = {<<x>>[i] : i \in {1}}
  BY <1>1 DEF Entries
<1> QED BY <1>1, <1>2 DEF Ordered

LEMMA Nothing ==
  ASSUME NEW S
  PROVE  <<>> \in Seq(S) /\ Entries(<<>>) = {} /\ Ordered(<<>>)
<1>1. <<>> \in Seq(S) /\ Len(<<>>) = 0
  BY EmptySeq
<1> QED BY <1>1 DEF Entries, Ordered

\* s lists the statements P in an order that a method may have.
Lists(s, P) == s \in Seq(Statements) /\ Entries(s) = P /\ Ordered(s)

LEMMA ListsJoin ==
  ASSUME NEW s, NEW P, Lists(s, P), NEW t, NEW Q, Lists(t, Q),
         \A x \in P, y \in Q : MayFollow(x, y)
  PROVE  Lists(s \o t, P \cup Q)
BY Joined DEF Lists

LEMMA ListsOne ==
  ASSUME NEW x \in Statements
  PROVE  Lists(<<x>>, {x})
BY Single DEF Lists

LEMMA ListsNone == Lists(<<>>, {})
BY Nothing DEF Lists

LEMMA Follows ==
  /\ \A x, y : x.verb \in Reading \/ y.verb \in Reading => MayFollow(x, y)
  /\ \A x, y : x.verb # "commit" /\ y.verb = "commit" => MayFollow(x, y)
BY DEF MayFollow, Rank, Reading

LEMMA ListsReads == Lists(Gets, Reads) /\ Lists(Commit, {Finish})
<1> DEFINE a == Stmt("select_program", 0)
           b == Stmt("select_steps", 0)
<1>1. a \in Statements /\ b \in Statements /\ Finish \in Statements
  BY DEF Stmt, Statements, Verbs, Reading, Finish
<1>2. Gets = <<a>> \o <<b>> /\ Reads = {a} \cup {b} /\ Commit = <<Finish>>
  BY DEF Gets, Reads, Commit, Finish
<1>3. MayFollow(a, b)
  BY Follows DEF Reading, Stmt
<1>4. Lists(<<a>> \o <<b>>, {a} \cup {b})
  BY <1>1, <1>3, ListsOne, ListsJoin
<1>5. Lists(<<Finish>>, {Finish})
  BY <1>1, ListsOne
<1> QED BY <1>2, <1>4, <1>5

LEMMA ListsInserts ==
  ASSUME NEW n \in Nat
  PROVE  Lists(Inserts(n), Inserting(n))
<1> DEFINE s == Inserts(n)
<1>1. \A i \in 1 .. n : Stmt("insert_step", i - 1) \in Statements
  BY DEF Stmt, Statements, Verbs, Reading
<1>2. s \in Seq(Statements) /\ Len(s) = n
      /\ \A i \in 1 .. n : s[i] = Stmt("insert_step", i - 1)
  <2>1. s = [i \in 1 .. n |-> Stmt("insert_step", i - 1)]
    BY DEF Inserts
  <2> HIDE DEF s
  <2>2. s \in [1 .. n -> Statements]
    BY <2>1, <1>1
  <2>3. s \in Seq(Statements)
    BY <2>2, SeqDef
  <2>4. Len(s) = n
    BY <2>2, <2>3, LenProperties
  <2> QED BY <2>1, <2>3, <2>4
<1> HIDE DEF s
<1>3. Entries(s) = Inserting(n)
  <2>1. ASSUME NEW x \in Entries(s)  PROVE x \in Inserting(n)
    <3>1. PICK i \in 1 .. n : x = Stmt("insert_step", i - 1)
      BY <1>2 DEF Entries
    <3> QED BY <3>1 DEF Inserting
  <2>2. ASSUME NEW x \in Inserting(n)  PROVE x \in Entries(s)
    <3>1. PICK i \in 0 .. n - 1 : x = Stmt("insert_step", i)
      BY DEF Inserting
    <3>2. i + 1 \in 1 .. n /\ (i + 1) - 1 = i
      BY <3>1
    <3> QED BY <3>1, <3>2, <1>2 DEF Entries
  <2> QED BY <2>1, <2>2
<1>4. Ordered(s)
  BY <1>2 DEF Ordered, MayFollow, Stmt
<1> QED BY <1>2, <1>3, <1>4 DEF Lists, s

\* Whatever comes before the commit, the reads come after it.
LEMMA ReadsBehind ==
  ASSUME NEW s, NEW P, Lists(s, P), Finish \notin P
  PROVE  ReadsAfter(s \o Commit \o Gets) /\ Len(s \o Commit \o Gets) = Len(s) + 3
<1> DEFINE u == s \o Commit
           w == u \o Gets
<1>1. /\ s \in Seq(Statements) /\ Commit \in Seq(Statements) /\ Gets \in Seq(Statements)
      /\ Entries(s) = P
  BY ListsReads DEF Lists
<1>2. Len(Commit) = 1 /\ Len(Gets) = 2 /\ Len(s) \in Nat
      /\ Gets[1] = Stmt("select_program", 0) /\ Gets[2] = Stmt("select_steps", 0)
  BY <1>1, LenProperties DEF Commit, Gets
<1>3. /\ u \in Seq(Statements) /\ Len(u) = Len(s) + 1
      /\ \A i \in 1 .. Len(s) : u[i] = s[i]
  <2>1. /\ s \o Commit \in Seq(Statements) /\ Len(s \o Commit) = Len(s) + Len(Commit)
        /\ \A i \in 1 .. Len(s) : (s \o Commit)[i] = s[i]
    BY <1>1, ConcatProperties
  <2> QED BY <2>1, <1>2
<1> HIDE DEF u
<1>4. /\ Len(w) = Len(s) + 3
      /\ \A i \in 1 .. Len(u) : w[i] = u[i]
      /\ w[Len(u) + 1] = Gets[1] /\ w[Len(u) + 2] = Gets[2]
  <2>1. /\ Len(w) = Len(u) + Len(Gets)
        /\ \A i \in 1 .. Len(u) : w[i] = u[i]
        /\ \A i \in 1 .. Len(Gets) : w[Len(u) + i] = Gets[i]
    <3>1. /\ Len(w) = Len(u) + Len(Gets)
          /\ \A i \in 1 .. Len(u) + Len(Gets) : w[i] = IF i <= Len(u) THEN u[i] ELSE Gets[i - Len(u)]
      BY <1>1, <1>3, ConcatProperties
    <3> HIDE DEF w
    <3> QED BY <3>1, <1>2, <1>3
  <2>2. 1 \in 1 .. Len(Gets) /\ 2 \in 1 .. Len(Gets)
    BY <1>2
  <2> QED BY <2>1, <2>2, <1>2, <1>3
<1> HIDE DEF w
<1>5. ASSUME NEW i \in 1 .. Len(w), w[i] = Finish  PROVE i = Len(u)
  <2>1. i \notin 1 .. Len(s)
    <3>1. i \in 1 .. Len(s) => w[i] = s[i] /\ w[i] \in Entries(s)
      BY <1>2, <1>3, <1>4 DEF Entries
    <3> QED BY <3>1, <1>1, <1>5
  <2>2. w[Len(u) + 1] # Finish /\ w[Len(u) + 2] # Finish
    BY <1>2, <1>4 DEF Finish, Stmt
  <2>3. i \in {Len(s) + 1, Len(s) + 2, Len(s) + 3}
    BY <2>1, <1>2, <1>4
  <2> QED BY <2>2, <2>3, <1>2, <1>3, <1>5
<1>6. ReadsAfter(w)
  <2>1. /\ Len(u) + 1 \in 1 .. Len(w) /\ Len(u) + 2 \in 1 .. Len(w)
        /\ Len(u) < Len(u) + 1 /\ Len(u) < Len(u) + 2
    BY <1>2, <1>3, <1>4
  <2> QED BY <2>1, <1>2, <1>4, <1>5 DEF ReadsAfter, Reads
<1> QED BY <1>4, <1>6 DEF w, u

LEMMA FirstStays ==
  ASSUME NEW S, NEW s \in Seq(S), NEW t \in Seq(S), 1 \in 1 .. Len(s)
  PROVE  1 \in 1 .. Len(s \o t) /\ (s \o t)[1] = s[1]
<1>1. /\ Len(s) \in Nat /\ Len(t) \in Nat /\ Len(s \o t) = Len(s) + Len(t)
      /\ \A i \in 1 .. Len(s) : (s \o t)[i] = s[i]
  BY Joined, LenProperties
<1> QED BY <1>1

LEMMA CreatesOK ==
  ASSUME NEW n \in Nat
  PROVE  /\ Lists(Creates(n),
                  {Stmt("insert_program", 0), Finish} \cup Inserting(n) \cup Reads)
         /\ ReadsAfter(Creates(n)) /\ Creates(n) # <<>>
         /\ Head(Creates(n)) = Stmt("insert_program", 0)
<1> DEFINE a == Stmt("insert_program", 0)
           s == <<a>> \o Inserts(n)
<1>1. a \in Statements
  BY DEF Stmt, Statements, Verbs, Reading
<1>2. \A y \in Inserting(n) : MayFollow(a, y)
  BY DEF Inserting, Stmt, MayFollow, Rank
<1>3. Lists(s, {a} \cup Inserting(n))
  <2>1. Lists(<<a>>, {a}) /\ Lists(Inserts(n), Inserting(n))
    BY <1>1, ListsOne, ListsInserts
  <2> QED BY <1>2, <2>1, ListsJoin
<1>4. \A x \in {a} \cup Inserting(n) : x.verb # "commit" /\ x # Finish
  BY DEF Inserting, Stmt, Finish
<1> HIDE DEF s
<1>5. Lists(s \o Commit, {a} \cup Inserting(n) \cup {Finish})
  <2>1. Finish.verb = "commit"
    BY DEF Finish, Stmt
  <2> QED BY <1>3, <1>4, <2>1, ListsReads, ListsJoin, Follows
<1>6. Lists(s \o Commit \o Gets, {a} \cup Inserting(n) \cup {Finish} \cup Reads)
  <2>1. \A y \in Reads : y.verb \in Reading
    BY DEF Reads, Stmt, Reading
  <2> QED BY <1>5, <2>1, ListsReads, ListsJoin, Follows
<1>7. ReadsAfter(s \o Commit \o Gets) /\ Len(s \o Commit \o Gets) = Len(s) + 3
  BY <1>3, <1>4, ReadsBehind
<1>8. Creates(n) = s \o Commit \o Gets
  BY DEF Creates, s
<1>9. {a} \cup Inserting(n) \cup {Finish} \cup Reads = {a, Finish} \cup Inserting(n) \cup Reads
  OBVIOUS
<1>10. Creates(n) # <<>>
  <2>1. Finish \in Entries(Creates(n)) /\ Creates(n) \in Seq(Statements)
    BY <1>6, <1>8 DEF Lists
  <2> QED BY <2>1, Entered
<1>11. Head(Creates(n)) = a
  <2>1. <<a>> \in Seq(Statements) /\ 1 \in 1 .. Len(<<a>>) /\ <<a>>[1] = a
    BY <1>1
  <2>2. Inserts(n) \in Seq(Statements) /\ Commit \in Seq(Statements) /\ Gets \in Seq(Statements)
    BY ListsInserts, ListsReads DEF Lists
  <2>3. s \in Seq(Statements) /\ 1 \in 1 .. Len(s) /\ s[1] = a
    BY <2>1, <2>2, FirstStays, ConcatProperties DEF s
  <2>4. /\ s \o Commit \in Seq(Statements) /\ 1 \in 1 .. Len(s \o Commit)
        /\ (s \o Commit)[1] = a
    BY <2>2, <2>3, FirstStays, ConcatProperties
  <2>5. Creates(n)[1] = a
    BY <1>8, <2>2, <2>4, FirstStays
  <2>6. Creates(n) \in Seq(Statements)
    BY <1>6, <1>8 DEF Lists
  <2> QED BY <1>10, <2>5, <2>6, HeadTailProperties
<1> QED BY <1>6, <1>7, <1>8, <1>9, <1>10, <1>11

Setting(fields) == {Stmt("set", f) : f \in fields}
Deleting(n) == IF n = Null THEN {} ELSE {Stmt("delete_steps", 0)} \cup Inserting(n)

LEMMA ListsSets ==
  ASSUME NEW fields \in SUBSET Columns
  PROVE  Lists(Sets(fields), Setting(fields))
<1> DEFINE P(f) == Setting(fields \cap {f})
<1>1. ASSUME NEW f \in Columns  PROVE Lists(SetIf(f, fields), P(f))
  <2>1. CASE f \in fields
    <3>1. Stmt("set", f) \in Statements
      BY DEF Stmt, Statements, Verbs, Reading
    <3>2. SetIf(f, fields) = <<Stmt("set", f)>> /\ P(f) = {Stmt("set", f)}
      BY <2>1 DEF SetIf, Setting
    <3> QED BY <3>1, <3>2, ListsOne
  <2>2. CASE f \notin fields
    <3>1. SetIf(f, fields) = <<>> /\ P(f) = {}
      BY <2>2 DEF SetIf, Setting
    <3> QED BY <3>1, ListsNone
  <2> QED BY <2>1, <2>2
<1>2. ASSUME NEW f, NEW g, f # g, NEW x \in P(f), NEW y \in P(g)  PROVE MayFollow(x, y)
  BY <1>2 DEF Setting, Stmt, MayFollow
<1>3. Columns = {"name", "start", "days"}
  BY DEF Columns
<1>4. Lists(SetIf("name", fields) \o SetIf("start", fields), P("name") \cup P("start"))
  <2>1. \A x \in P("name"), y \in P("start") : MayFollow(x, y)
    BY <1>2
  <2>2. Lists(SetIf("name", fields), P("name")) /\ Lists(SetIf("start", fields), P("start"))
    BY <1>1, <1>3
  <2> HIDE DEF P
  <2> QED BY <2>1, <2>2, ListsJoin
<1>5. Lists(Sets(fields), P("name") \cup P("start") \cup P("days"))
  <2>1. \A x \in P("name") \cup P("start"), y \in P("days") : MayFollow(x, y)
    BY <1>2
  <2>2. Lists(SetIf("days", fields), P("days"))
    BY <1>1, <1>3
  <2> HIDE DEF P
  <2> QED BY <1>4, <2>1, <2>2, ListsJoin DEF Sets
<1>6. P("name") \cup P("start") \cup P("days") = Setting(fields)
  <2>1. ASSUME NEW f \in fields  PROVE Stmt("set", f) \in P("name") \cup P("start") \cup P("days")
    BY <1>3 DEF Setting
  <2> QED BY <2>1 DEF Setting
<1> QED BY <1>5, <1>6

LEMMA ListsReplaces ==
  ASSUME NEW n \in 0 .. Null
  PROVE  Lists(Replaces(n), Deleting(n))
<1>1. CASE n = Null
  BY <1>1, ListsNone DEF Replaces, Deleting
<1>2. CASE n # Null
  <2> DEFINE a == Stmt("delete_steps", 0)
  <2>1. a \in Statements
    BY DEF Stmt, Statements, Verbs, Reading
  <2>2. \A y \in Inserting(n) : MayFollow(a, y)
    BY DEF Inserting, Stmt, MayFollow, Rank
  <2>3. Lists(<<a>>, {a}) /\ Lists(Inserts(n), Inserting(n))
    BY <2>1, ListsOne, ListsInserts
  <2> HIDE DEF a
  <2>4. Lists(<<a>> \o Inserts(n), {a} \cup Inserting(n))
    BY <2>2, <2>3, ListsJoin
  <2> QED BY <1>2, <2>4 DEF a, Replaces, Deleting
<1> QED BY <1>1, <1>2

LEMMA UpdatesOK ==
  ASSUME NEW fields \in SUBSET Columns, NEW n \in 0 .. Null
  PROVE  /\ Lists(Updates(fields, n), Reads \cup Setting(fields) \cup Deleting(n) \cup {Finish})
         /\ ReadsAfter(Updates(fields, n)) /\ Updates(fields, n) # <<>>
         /\ Head(Updates(fields, n)) = Stmt("select_program", 0)
<1> DEFINE A == Gets \o Sets(fields)
           B == A \o Replaces(n)
           C == B \o Commit
<1>1. \A x \in Reads : x.verb \in Reading
  BY DEF Reads, Stmt, Reading
<1>2. \A x \in Setting(fields) : x.verb = "set"
  BY DEF Setting, Stmt
<1>3. \A x \in Deleting(n) : x.verb \in {"delete_steps", "insert_step"}
  BY DEF Deleting, Inserting, Stmt
<1>4. Finish.verb = "commit"
  BY DEF Finish, Stmt
<1>5. Lists(A, Reads \cup Setting(fields))
  BY <1>1, ListsReads, ListsSets, ListsJoin, Follows
<1> HIDE DEF A
<1>6. Lists(B, Reads \cup Setting(fields) \cup Deleting(n))
  <2>1. \A x \in Setting(fields), y \in Deleting(n) : MayFollow(x, y)
    BY <1>2, <1>3 DEF MayFollow, Rank
  <2>2. \A x \in Reads, y \in Deleting(n) : MayFollow(x, y)
    BY <1>1, Follows
  <2> QED BY <1>5, <2>1, <2>2, ListsReplaces, ListsJoin
<1> HIDE DEF B
<1>7. \A x \in Reads \cup Setting(fields) \cup Deleting(n) : x.verb # "commit"
  BY <1>1, <1>2, <1>3 DEF Reading
<1>8. Lists(C, Reads \cup Setting(fields) \cup Deleting(n) \cup {Finish})
  BY <1>4, <1>6, <1>7, ListsReads, ListsJoin, Follows
<1> HIDE DEF C
<1>9. Lists(C \o Gets, (Reads \cup Setting(fields) \cup Deleting(n) \cup {Finish}) \cup Reads)
  BY <1>1, <1>8, ListsReads, ListsJoin, Follows
<1>10. ReadsAfter(C \o Gets)
  <2>1. Finish \notin Reads \cup Setting(fields) \cup Deleting(n)
    BY <1>4, <1>7
  <2> QED BY <1>6, <2>1, ReadsBehind DEF C
<1>11. Updates(fields, n) = C \o Gets
  BY DEF Updates, A, B, C
<1>12. (Reads \cup Setting(fields) \cup Deleting(n) \cup {Finish}) \cup Reads
       = Reads \cup Setting(fields) \cup Deleting(n) \cup {Finish}
  OBVIOUS
<1>13. C \o Gets # <<>> /\ Head(C \o Gets) = Stmt("select_program", 0)
  <2>1. /\ Gets \in Seq(Statements) /\ A \in Seq(Statements) /\ B \in Seq(Statements)
        /\ C \in Seq(Statements)
    BY <1>5, <1>6, <1>8, ListsReads DEF Lists
  <2>2. Sets(fields) \in Seq(Statements) /\ Replaces(n) \in Seq(Statements) /\ Commit \in Seq(Statements)
    BY ListsSets, ListsReplaces, ListsReads DEF Lists
  <2>3. 1 \in 1 .. Len(Gets) /\ Gets[1] = Stmt("select_program", 0)
    BY DEF Gets
  <2>4. 1 \in 1 .. Len(A) /\ A[1] = Gets[1]
    BY <2>1, <2>2, <2>3, FirstStays DEF A
  <2>5. 1 \in 1 .. Len(B) /\ B[1] = A[1]
    BY <2>1, <2>2, <2>4, FirstStays DEF B
  <2>6. 1 \in 1 .. Len(C) /\ C[1] = B[1]
    BY <2>1, <2>2, <2>5, FirstStays DEF C
  <2>7. 1 \in 1 .. Len(C \o Gets) /\ (C \o Gets)[1] = C[1] /\ C \o Gets \in Seq(Statements)
    BY <2>1, <2>6, FirstStays, ConcatProperties
  <2>8. C \o Gets # <<>>
    BY <2>7, EmptySeq, LenProperties
  <2>9. Head(C \o Gets) = (C \o Gets)[1]
    BY <2>7, <2>8, HeadTailProperties
  <2> QED BY <2>3, <2>4, <2>5, <2>6, <2>7, <2>8, <2>9
<1> QED BY <1>9, <1>10, <1>11, <1>12, <1>13

\* SetToSeq enumerates a set of keys.
LEMMA Enumerates ==
  ASSUME NEW keys \in SUBSET Keys
  PROVE  /\ SetToSeq(keys) \in Seq(keys)
         /\ \A k \in keys : \E i \in 1 .. Len(SetToSeq(keys)) : SetToSeq(keys)[i] = k
         /\ \A i, j \in 1 .. Len(SetToSeq(keys)) : i # j => SetToSeq(keys)[i] # SetToSeq(keys)[j]
<1> DEFINE C == Cardinality(keys)
           f == SetToSeq(keys)
<1>1. IsFiniteSet(keys)
  BY StoreAssumption, FS_Subset
<1>2. C \in Nat /\ ExistsBijection(1 .. C, keys)
  BY <1>1, FS_CardinalityType
<1>3. \E g \in [1 .. C -> keys] : IsInjective(g)
  BY <1>2 DEF ExistsBijection, Bijection, Injection
<1>4. f \in [1 .. C -> keys] /\ IsInjective(f)
  BY <1>3 DEF SetToSeq
<1> HIDE DEF f
<1>5. f \in Injection(1 .. C, keys)
  BY <1>4 DEF Injection
<1>6. IsFiniteSet(1 .. C) /\ Cardinality(1 .. C) = C
  BY <1>2, FS_Interval
<1> HIDE DEF C
<1>7. f \in Surjection(1 .. C, keys)
  BY <1>1, <1>5, <1>6, FS_Injection DEF C
<1>8. f \in Seq(keys) /\ Len(f) = C
  <2>1. f \in Seq(keys)
    BY <1>2, <1>4, SeqDef
  <2> QED BY <1>2, <1>4, <2>1, LenProperties
<1>9. \A k \in keys : \E i \in 1 .. C : f[i] = k
  BY <1>7 DEF Surjection
<1>10. \A i, j \in 1 .. C : i # j => f[i] # f[j]
  BY <1>4 DEF IsInjective
<1> QED BY <1>8, <1>9, <1>10 DEF f

LEMMA PrefersOK ==
  ASSUME NEW keys \in SUBSET Keys
  PROVE  /\ Lists(Prefers(keys), {Stmt("set_preference", k) : k \in keys} \cup {Finish})
         /\ Prefers(keys) # <<>>
<1> DEFINE f == SetToSeq(keys)
           s == Each("set_preference", f)
           P == {Stmt("set_preference", k) : k \in keys}
<1>1. /\ f \in Seq(keys) /\ Len(f) \in Nat
      /\ \A k \in keys : \E i \in 1 .. Len(f) : f[i] = k
      /\ \A i, j \in 1 .. Len(f) : i # j => f[i] # f[j]
  BY Enumerates, LenProperties
<1> HIDE DEF f
<1>2. \A i \in 1 .. Len(f) : f[i] \in keys
  BY <1>1
<1>3. s = [i \in 1 .. Len(f) |-> Stmt("set_preference", f[i])]
  BY DEF Each
<1> HIDE DEF s
<1>4. \A k \in keys : Stmt("set_preference", k) \in Statements
  BY DEF Stmt, Statements, Verbs, Reading
<1>5. s \in Seq(Statements) /\ Len(s) = Len(f)
  <2>1. s \in [1 .. Len(f) -> Statements]
    BY <1>2, <1>3, <1>4
  <2>2. s \in Seq(Statements)
    BY <1>1, <2>1, SeqDef
  <2> QED BY <1>1, <2>1, <2>2, LenProperties
<1>6. \A i \in 1 .. Len(f) : s[i] = Stmt("set_preference", f[i])
  BY <1>3
<1>7. Entries(s) = P
  <2>1. ASSUME NEW k \in keys  PROVE Stmt("set_preference", k) \in Entries(s)
    BY <1>1, <1>5, <1>6 DEF Entries
  <2> QED BY <1>2, <1>5, <1>6, <2>1 DEF Entries
<1>8. Ordered(s)
  <2> SUFFICES ASSUME NEW i \in 1 .. Len(f), NEW j \in 1 .. Len(f), i < j
               PROVE  MayFollow(s[i], s[j])
    BY <1>5 DEF Ordered
  <2>1. f[i] # f[j]
    BY <1>1
  <2>2. s[i] = Stmt("set_preference", f[i]) /\ s[j] = Stmt("set_preference", f[j])
    BY <1>6
  <2> QED BY <2>1, <2>2 DEF MayFollow, Stmt
<1>9. Lists(s, P)
  BY <1>5, <1>7, <1>8 DEF Lists
<1>10. (\A x \in P : x.verb # "commit") /\ Finish.verb = "commit"
  BY DEF Stmt, Finish
<1> HIDE DEF P
<1>11. Lists(s \o Commit, P \cup {Finish})
  BY <1>9, <1>10, ListsReads, ListsJoin, Follows
<1>12. s \o Commit # <<>>
  BY <1>11, Entered DEF Lists
<1> QED BY <1>11, <1>12 DEF Prefers, s, f, P

\* One or two statements before a commit.
LEMMA WritesOne ==
  ASSUME NEW a \in Statements, a.verb # "commit"
  PROVE  Lists(<<a>> \o Commit, {a, Finish}) /\ <<a>> \o Commit # <<>>
<1>1. Finish.verb = "commit"
  BY DEF Finish, Stmt
<1>2. Lists(<<a>> \o Commit, {a} \cup {Finish})
  BY <1>1, ListsOne, ListsReads, ListsJoin, Follows
<1>3. <<a>> \o Commit # <<>>
  BY <1>2, Entered DEF Lists
<1>4. {a} \cup {Finish} = {a, Finish}
  OBVIOUS
<1> QED BY <1>2, <1>3, <1>4

LEMMA BeginsOK ==
  /\ Lists(Begins, {Stmt("delete_active", 0), Stmt("insert_active", 0), Finish})
  /\ Begins # <<>>
<1> DEFINE a == Stmt("delete_active", 0)
           b == Stmt("insert_active", 0)
<1>1. a \in Statements /\ b \in Statements /\ MayFollow(a, b)
      /\ a.verb # "commit" /\ b.verb # "commit" /\ Finish.verb = "commit"
  BY DEF Stmt, Statements, Verbs, Reading, MayFollow, Rank, Finish
<1>2. <<a, b>> = <<a>> \o <<b>>
  OBVIOUS
<1> HIDE DEF a, b
<1>3. Lists(<<a, b>>, {a} \cup {b})
  <2>1. Lists(<<a>>, {a}) /\ Lists(<<b>>, {b}) /\ \A x \in {a}, y \in {b} : MayFollow(x, y)
    BY <1>1, ListsOne
  <2>2. Lists(<<a>> \o <<b>>, {a} \cup {b})
    BY <2>1, ListsJoin
  <2> QED BY <1>2, <2>2
<1>4. Lists(<<a, b>> \o Commit, ({a} \cup {b}) \cup {Finish})
  BY <1>1, <1>3, ListsReads, ListsJoin, Follows
<1>5. <<a, b>> \o Commit # <<>>
  BY <1>4, Entered DEF Lists
<1>6. ({a} \cup {b}) \cup {Finish} = {a, b, Finish}
  OBVIOUS
<1> QED BY <1>4, <1>5, <1>6 DEF Begins, a, b

-----------------------------------------------------------------------------
(***************************************************************************)
(* The calls: what is left of each is the end of its method.               *)
(***************************************************************************)
States == {"running", "done", "missing", "refused", "killed"}
Columned == [Columns -> 0 .. MaxCalls]
StepRows == [program : Programs \cup {None}, position : Nat, by : Nat]

CallType ==
  [op : Ops, program : Programs \cup {None}, fields : SUBSET (Columns \cup Keys),
   steps : 0 .. Null, todo : Seq(Statements), state : States, answer : {"done", "missing"},
   row : Columned \cup {<<>>}, got : SUBSET StepRows, before : SUBSET Nat]

Rest(k) == Entries(k.todo)

\* An update that has not looked for its program yet.
AtFirst(k) == k.op = "update" /\ k.todo = Updates(k.fields, k.steps)

\* With a statement, all those of later ranks are left, the commit among them.
Closed(k) ==
  \A x \in Rest(k) : \A y :
    /\ x.verb \notin Reading
    /\ Belongs(y, k) /\ y.verb \notin Reading
    /\ Rank(x.verb) < Rank(y.verb)
    => y \in Rest(k)

Asks(k) ==
  /\ k.op \in {"create", "update"} => k.program \in Programs /\ k.fields \subseteq Columns
  /\ k.op = "create" => k.steps # Null
  /\ k.op = "prefer" => k.fields \subseteq Keys

CallOK(k) ==
  /\ k \in CallType /\ Asks(k)
  /\ \A x \in Rest(k) : Belongs(x, k)
  /\ Ordered(k.todo)
  /\ Closed(k)
  /\ k.op \in {"create", "update"} => ReadsAfter(k.todo)
  /\ k.op = "update" => Len(k.todo) =< Len(Updates(k.fields, k.steps))
  /\ k.state = "running" <=> k.todo # <<>>
  /\ k.state = "done" => k.answer = "done"
  /\ k.answer = "missing" => k.op = "delete"
  /\ Stmt("insert_program", 0) \in Rest(k) => Head(k.todo) = Stmt("insert_program", 0)

\* The same call, further on.
Same(j, k) ==
  /\ j.op = k.op /\ j.program = k.program /\ j.fields = k.fields
  /\ j.steps = k.steps /\ j.before = k.before

-----------------------------------------------------------------------------
(***************************************************************************)
(* The tables.                                                             *)
(***************************************************************************)
RowSets == UNION {[P -> Columned] : P \in SUBSET Programs}
ActiveRows == [by : 1 .. MaxCalls, at : 1 .. MaxCalls]
Tables ==
  [rows : RowSets, steps : SUBSET StepRows, prefs : [Keys -> 0 .. MaxCalls],
   active : SUBSET ActiveRows, telemetry : SUBSET (1 .. MaxCalls)]

AtMostOne(S) == \A x, y \in S : x = y

\* Rows and steps are those of programs that were stored or created.
Known(t) ==
  /\ DOMAIN t.rows \subseteq Used
  /\ \A s \in t.steps : s.program \in Used

Calling ==
  /\ call \in Seq(CallType) /\ Len(call) =< MaxCalls
  /\ \A c \in DOMAIN call :
       /\ CallOK(call[c])
       /\ \A d \in call[c].before : d \in DOMAIN call /\ d # c /\ ~Running(d)

Tabled ==
  /\ table \in Tables /\ disk \in Tables
  /\ AtMostOne(table.active) /\ AtMostOne(disk.active)
  /\ Known(table) /\ Known(disk)

\* Every program is created once; an update that found its program found one
\* that was stored or created.
CreatedOnce ==
  \A c, d \in DOMAIN call :
    /\ call[c].op = "create" => call[c].program \notin Stored
    /\ call[c].op = "create" /\ call[d].op = "create" /\ c # d
         => call[c].program # call[d].program
    /\ call[c].op = "update" /\ Running(c) /\ ~AtFirst(call[c]) => call[c].program \in Used

Base == Calling /\ Tabled /\ CreatedOnce

-----------------------------------------------------------------------------
(***************************************************************************)
(* What the statements have done that call k, number c, has behind it.     *)
(***************************************************************************)
Inserted(k, c) ==
  {StepRow(k.program, i, c) : i \in {j \in 0 .. k.steps - 1 : Stmt("insert_step", j) \notin Rest(k)}}

Effect(t, k, c) ==
  /\ k.op = "create" =>
       /\ Stmt("insert_program", 0) \notin Rest(k) =>
            k.program \in DOMAIN t.rows /\ \A f \in k.fields : t.rows[k.program][f] = c
       /\ StepsIn(t, k.program) = Inserted(k, c)
  /\ k.op = "update" /\ ~AtFirst(k) =>
       /\ k.program \in DOMAIN t.rows
       /\ \A f \in k.fields : Stmt("set", f) \notin Rest(k) => t.rows[k.program][f] = c
       /\ k.steps # Null /\ Stmt("delete_steps", 0) \notin Rest(k)
            => StepsIn(t, k.program) = Inserted(k, c)
  /\ k.op = "delete" /\ Stmt("delete_program", 0) \notin Rest(k) => k.program \notin DOMAIN t.rows
  /\ k.op = "prefer" =>
       \A f \in k.fields : Stmt("set_preference", f) \notin Rest(k) => t.prefs[f] = c
  /\ k.op = "begin" /\ Stmt("insert_active", 0) \notin Rest(k) => t.active = {[by |-> c, at |-> c]}
  /\ k.op = "advance" /\ Stmt("move_active", 0) \notin Rest(k) => \A r \in t.active : r.at = c
  /\ k.op = "end" /\ Stmt("delete_active", 0) \notin Rest(k) => t.active = {}
  /\ k.op = "log" /\ Stmt("insert_telemetry", 0) \notin Rest(k) => c \in t.telemetry

Live(k) == k.state \in {"running", "done"}
Committed(k) == Finish \notin Rest(k)

\* The tables hold what nobody else writes; the disk what was committed of it.
InTables ==
  \A c \in DOMAIN call : Live(call[c]) /\ LastAlone(c) =>
    /\ Effect(table, call[c], c)
    /\ Committed(call[c]) => Effect(disk, call[c], c)

\* What reader j has behind it shows what writer k, number c, wrote.
Shows(j, k, c) ==
  /\ Stmt("select_program", 0) \notin Rest(j) => \A f \in k.fields : j.row[f] = c
  /\ Stmt("select_steps", 0) \notin Rest(j) /\ k.steps # Null
       => j.got = {StepRow(k.program, i, c) : i \in 0 .. k.steps - 1}

ReadsIt(c, d) ==
  \/ d = c
  \/ call[d].op = "get" /\ call[d].program = call[c].program /\ c \in call[d].before

Answered ==
  \A c, d \in DOMAIN call :
    /\ Live(call[c]) /\ call[c].op \in {"create", "update"} /\ Committed(call[c])
    /\ LastAlone(c) /\ ReadsIt(c, d) /\ Live(call[d])
    => Shows(call[d], call[c], c)

\* Nobody will insert a program that is there or that was there when a delete
\* took it away.
Pending(p) ==
  \E c \in DOMAIN call : /\ call[c].op = "create" /\ call[c].program = p
                         /\ Stmt("insert_program", 0) \in Rest(call[c])

Gone(p) == p \in Used /\ ~Pending(p) /\ p \notin DOMAIN table.rows

Deleted ==
  /\ \A p \in DOMAIN table.rows \cup DOMAIN disk.rows : ~Pending(p)
  /\ \A p \in Programs \cup {None} : \A c \in DOMAIN call :
       /\ call[c].op = "delete" /\ call[c].program = p
       /\ Live(call[c]) /\ call[c].answer = "done"
       /\ Stmt("delete_program", 0) \notin Rest(call[c])
       => Gone(p) /\ (Committed(call[c]) => p \notin DOMAIN disk.rows)

\* The calls that replace, or will replace, the steps of p.
Replacing(c, p) ==
  /\ call[c].op \in {"create", "update"} /\ call[c].program = p
  /\ call[c].steps # Null /\ call[c].state # "missing" /\ ~AtFirst(call[c])

Undeleted(p) == \A d \in DOMAIN call : call[d].op = "delete" => call[d].program # p

Untroubled(p) ==
  /\ Undeleted(p)
  /\ \A c \in DOMAIN call : Replacing(c, p) => Live(call[c])

\* The last one to empty the steps of p has all of its own in the table that
\* it has inserted.
LastEmptied(p) ==
  \A d \in DOMAIN call :
    Replacing(d, p) /\ Stmt("delete_steps", 0) \notin Rest(call[d]) =>
      \E c \in DOMAIN call :
        /\ Replacing(c, p) /\ Stmt("delete_steps", 0) \notin Rest(call[c])
        /\ Inserted(call[c], c) \subseteq table.steps

\* When all have committed, so has the disk.
AllOnDisk(p) ==
  (\A c \in DOMAIN call : Replacing(c, p) => Committed(call[c])) =>
    \A d \in DOMAIN call : Replacing(d, p) =>
      \E c \in DOMAIN call : Replacing(c, p) /\ StepsBy(c) \subseteq disk.steps

Whole == \A p \in Programs : Untroubled(p) => LastEmptied(p) /\ AllOnDisk(p)

\* An update that found its program, and a create that inserted it, will find
\* it again for the answer, if nobody deletes it.
RowStays ==
  \A p \in Programs : Undeleted(p) =>
    \A c \in DOMAIN call :
      /\ Running(c) /\ call[c].op \in {"create", "update"} /\ call[c].program = p
      /\ ~AtFirst(call[c]) /\ Stmt("insert_program", 0) \notin Rest(call[c])
      => p \in DOMAIN table.rows

-----------------------------------------------------------------------------
\* The call k2 is k without its first statement.
LEMMA NextOK ==
  ASSUME NEW k, CallOK(k), k.todo # <<>>,
         NEW k2 \in CallType, Same(k2, k), k2.todo = Tail(k.todo),
         k2.state = "running" <=> k2.todo # <<>>, k2.state = "done" => k2.answer = "done",
         k2.answer = "missing" => k2.op = "delete"
  PROVE  /\ CallOK(k2)
         /\ Head(k.todo) \in Statements /\ Belongs(Head(k.todo), k)
         /\ Rest(k) = {Head(k.todo)} \cup Rest(k2)
         /\ Head(k.todo).verb \notin Reading => Head(k.todo) \notin Rest(k2)
         /\ Head(k.todo) = Finish /\ k.op \in {"create", "update"} => Reads \subseteq Rest(k2)
         /\ ~AtFirst(k2)
<1> DEFINE s == k.todo
           t == Tail(s)
           h == Head(s)
<1>1. /\ s \in Seq(Statements) /\ t \in Seq(Statements) /\ h \in Statements
      /\ h = s[1] /\ Len(s) \in Nat \ {0} /\ Len(t) = Len(s) - 1
      /\ \A i \in 1 .. Len(s) - 1 : t[i] = s[i + 1]
  <2>1. s \in Seq(Statements)
    BY DEF CallOK, CallType
  <2> QED BY <2>1, TailShifts
<1> HIDE DEF s, t, h
<1>2. \A i \in 1 .. Len(s) : i = 1 \/ (i - 1 \in 1 .. Len(t) /\ s[i] = t[i - 1] /\ i = (i - 1) + 1)
  BY <1>1
<1>3. \A i \in 1 .. Len(t) : i + 1 \in 1 .. Len(s) /\ t[i] = s[i + 1]
  BY <1>1
<1>4. 1 \in 1 .. Len(s)
  BY <1>1
<1>5. Entries(s) = {h} \cup Entries(t)
  <2>1. ASSUME NEW x \in Entries(s)  PROVE x \in {h} \cup Entries(t)
    <3>1. PICK i \in 1 .. Len(s) : x = s[i]
      BY DEF Entries
    <3> QED BY <3>1, <1>1, <1>2 DEF Entries
  <2>2. h \in Entries(s)
    BY <1>1, <1>4 DEF Entries
  <2>3. Entries(t) \subseteq Entries(s)
    BY <1>3 DEF Entries
  <2> QED BY <2>1, <2>2, <2>3
<1>6. Ordered(s)
  BY DEF CallOK, s
<1>7. \A y \in Entries(t) : MayFollow(h, y)
  <2> SUFFICES ASSUME NEW i \in 1 .. Len(t)  PROVE MayFollow(h, t[i])
    BY DEF Entries
  <2>1. i + 1 \in 1 .. Len(s) /\ t[i] = s[i + 1] /\ 1 < i + 1
    BY <1>1, <1>3
  <2> QED BY <2>1, <1>1, <1>4, <1>6 DEF Ordered
<1>8. h.verb \notin Reading => h \notin Entries(t)
  <2>1. ~(Rank(h.verb) < Rank(h.verb))
    BY DEF Rank
  <2> QED BY <1>7, <2>1 DEF MayFollow
<1>9. Rest(k) = Entries(s) /\ Rest(k2) = Entries(t) /\ k2.todo = t
  BY DEF Rest, s, t
<1>10. Ordered(t)
  <2> SUFFICES ASSUME NEW i \in 1 .. Len(t), NEW j \in 1 .. Len(t), i < j
               PROVE  MayFollow(t[i], t[j])
    BY DEF Ordered
  <2>1. i + 1 < j + 1
    OBVIOUS
  <2> QED BY <1>3, <1>6, <2>1 DEF Ordered
<1>11. \A x : Belongs(x, k) <=> Belongs(x, k2)
  BY DEF Belongs, Same
<1>12. Closed(k2)
  <2> SUFFICES ASSUME NEW x \in Entries(t), NEW y, x.verb \notin Reading, y.verb \notin Reading,
                      Belongs(y, k), Rank(x.verb) < Rank(y.verb)
               PROVE  y \in Entries(t)
    BY <1>9, <1>11 DEF Closed
  <2>1. y \in Entries(s)
    BY <1>5, <1>9 DEF CallOK, Closed
  <2>2. y # h
    <3> SUFFICES ASSUME y = h  PROVE FALSE
      OBVIOUS
    <3>1. Rank(y.verb) < Rank(x.verb) \/ y.verb = x.verb
      BY <1>7 DEF MayFollow
    <3>2. Rank(x.verb) \in Nat /\ Rank(y.verb) \in Nat
      BY DEF Rank
    <3> QED BY <3>1, <3>2
  <2> QED BY <2>1, <2>2, <1>5
<1>13. ReadsAfter(s) => ReadsAfter(t)
  <2> SUFFICES ASSUME ReadsAfter(s), NEW i \in 1 .. Len(t), t[i] = Finish, NEW x \in Reads
               PROVE  \E j \in 1 .. Len(t) : i < j /\ t[j] = x
    BY DEF ReadsAfter
  <2>1. i + 1 \in 1 .. Len(s) /\ s[i + 1] = Finish
    BY <1>3
  <2>2. PICK j \in 1 .. Len(s) : i + 1 < j /\ s[j] = x
    BY <2>1 DEF ReadsAfter
  <2>3. j - 1 \in 1 .. Len(t) /\ t[j - 1] = x /\ i < j - 1
    BY <2>2, <1>2
  <2> QED BY <2>3
<1>14. ReadsAfter(s) /\ h = Finish => Reads \subseteq Entries(t)
  <2> SUFFICES ASSUME ReadsAfter(s), h = Finish, NEW x \in Reads  PROVE x \in Entries(t)
    OBVIOUS
  <2>1. PICK j \in 1 .. Len(s) : 1 < j /\ s[j] = x
    BY <1>1, <1>4 DEF ReadsAfter
  <2>2. j - 1 \in 1 .. Len(t) /\ t[j - 1] = x
    BY <2>1, <1>2
  <2> QED BY <2>2 DEF Entries
<1>15. Asks(k2) /\ (k2.op = k.op)
  BY DEF CallOK, Asks, Same
<1>16. k2.op = "update" => /\ Len(t) < Len(Updates(k2.fields, k2.steps))
                           /\ Len(t) =< Len(Updates(k2.fields, k2.steps))
  <2>1. k.op = "update" => Len(s) =< Len(Updates(k.fields, k.steps))
    BY DEF CallOK, s
  <2>2. k.op = "update" => Len(Updates(k.fields, k.steps)) \in Nat
    <3>1. k.op = "update" => k.fields \in SUBSET Columns /\ k.steps \in 0 .. Null
      BY DEF CallOK, CallType, Asks
    <3>2. k.op = "update" => Updates(k.fields, k.steps) \in Seq(Statements)
      BY <3>1, UpdatesOK DEF Lists
    <3> QED BY <3>2, LenProperties
  <2> QED BY <1>1, <1>15, <2>1, <2>2 DEF Same
<1>17. ~AtFirst(k2)
  <2>1. Len(t) \in Nat
    BY <1>1, LenProperties
  <2>2. k2.op = "update" => t # Updates(k2.fields, k2.steps)
    BY <1>16, <2>1
  <2> QED BY <1>9, <2>2 DEF AtFirst
<1>18. CallOK(k2)
  <2>1. \A x \in Rest(k2) : Belongs(x, k2)
    BY <1>5, <1>9, <1>11 DEF CallOK
  <2>2. k2.op \in {"create", "update"} => ReadsAfter(k2.todo)
    BY <1>9, <1>13, <1>15 DEF CallOK, s
  <2>3. k2.op = "update" => Len(k2.todo) =< Len(Updates(k2.fields, k2.steps))
    BY <1>9, <1>16
  <2>4. Stmt("insert_program", 0) \notin Rest(k2)
    <3>1. Stmt("insert_program", 0) \in Rest(k) => h = Stmt("insert_program", 0)
      BY DEF CallOK, h, s
    <3>2. Stmt("insert_program", 0).verb \notin Reading
      BY DEF Stmt, Reading
    <3> QED BY <3>1, <3>2, <1>5, <1>8, <1>9
  <2> QED BY <2>1, <2>2, <2>3, <2>4, <1>9, <1>10, <1>12, <1>15 DEF CallOK
<1>19. Belongs(h, k)
  BY <1>5, <1>9 DEF CallOK
<1>20. h = Finish /\ k.op \in {"create", "update"} => Reads \subseteq Rest(k2)
  BY <1>9, <1>14 DEF CallOK, s
<1> QED BY <1>1, <1>5, <1>8, <1>9, <1>17, <1>18, <1>19, <1>20 DEF s, t, h

\* The call k2 is k, ended.
LEMMA EndOK ==
  ASSUME NEW k, CallOK(k), NEW k2 \in CallType, Same(k2, k), k2.todo = <<>>,
         k2.state \notin {"running", "done"}, k2.answer = "missing" => k2.op = "delete"
  PROVE  CallOK(k2) /\ Rest(k2) = {} /\ ~AtFirst(k2)
<1>1. Rest(k2) = {} /\ Ordered(k2.todo) /\ Len(k2.todo) = 0
  BY Nothing DEF Rest
<1>2. Asks(k2) /\ k2.op = k.op
  BY DEF CallOK, Asks, Same
<1>3. k2.op = "update" => /\ Len(Updates(k2.fields, k2.steps)) \in Nat
                          /\ Updates(k2.fields, k2.steps) # <<>>
  <2>1. k2.op = "update" => k2.fields \in SUBSET Columns /\ k2.steps \in 0 .. Null
    BY <1>2 DEF CallType, Asks
  <2> QED BY <2>1, UpdatesOK, LenProperties DEF Lists
<1>4. ReadsAfter(k2.todo)
  BY <1>1 DEF ReadsAfter
<1> QED BY <1>1, <1>2, <1>3, <1>4 DEF CallOK, AtFirst, Closed

-----------------------------------------------------------------------------
(***************************************************************************)
(* The steps: a call is added, or one call goes on, or all of them end.    *)
(***************************************************************************)
\* The next call is k.
Added(k) ==
  /\ CallOK(k) /\ k.state = "running" /\ k.before = DOMAIN call \ Busy
  /\ \A x : Belongs(x, k) => x \in Rest(k)
  /\ k.op = "update" => AtFirst(k)
  /\ k.op = "create" => k.program \notin Used
  /\ Len(call) < MaxCalls /\ call' = Append(call, k)
  /\ UNCHANGED <<table, disk, wide, crashes>>

NewCall(op, p, fields, n, todo) ==
  [op |-> op, program |-> p, fields |-> fields, steps |-> n, todo |-> todo,
   state |-> "running", answer |-> "done", row |-> <<>>, got |-> {},
   before |-> DOMAIN call \ Busy]

LEMMA CallAdds ==
  ASSUME Base, NEW op \in Ops, NEW p \in Programs \cup {None},
         NEW fields \in SUBSET (Columns \cup Keys), NEW n \in 0 .. Null, NEW todo, NEW P,
         Lists(todo, P), todo # <<>>,
         \A x : Belongs(x, NewCall(op, p, fields, n, todo)) <=> x \in P,
         Asks(NewCall(op, p, fields, n, todo)), op \in {"create", "update"} => ReadsAfter(todo),
         op = "create" => Head(todo) = Stmt("insert_program", 0),
         op = "update" => todo = Updates(fields, n), op = "create" => p \notin Used,
         Call(op, p, fields, n, todo)
  PROVE  \E k : Added(k)
<1> DEFINE k == NewCall(op, p, fields, n, todo)
<1>1. call \in Seq(CallType) /\ DOMAIN call \ Busy \in SUBSET Nat
  <2>1. call \in Seq(CallType)
    BY DEF Base, Calling
  <2>2. DOMAIN call = 1 .. Len(call) /\ Len(call) \in Nat
    BY <2>1, LenProperties
  <2> QED BY <2>1, <2>2
<1>2. /\ k.op = op /\ k.program = p /\ k.fields = fields /\ k.steps = n /\ k.todo = todo
      /\ k.state = "running" /\ k.answer = "done" /\ k.before = DOMAIN call \ Busy
  BY DEF NewCall
<1>3. k \in CallType
  BY <1>1 DEF CallType, Lists, States, NewCall
<1> HIDE DEF k
<1>4. \A x : x \in Rest(k) <=> Belongs(x, k)
  BY <1>2 DEF Rest, Lists, k
<1>5. Closed(k)
  BY <1>4 DEF Closed
<1>6. op = "update" => Len(todo) \in Nat
  BY LenProperties DEF Lists
<1>7. op = "update" => Len(k.todo) =< Len(Updates(k.fields, k.steps))
  BY <1>2, <1>6
<1>8. Stmt("insert_program", 0) \in Rest(k) => Head(k.todo) = Stmt("insert_program", 0)
  <2>1. Belongs(Stmt("insert_program", 0), k) => op = "create"
    BY <1>2 DEF Belongs, Stmt, Finish, Reads, Inserting
  <2> QED BY <1>2, <1>4, <2>1
<1>9. CallOK(k)
  BY <1>2, <1>3, <1>4, <1>5, <1>7, <1>8 DEF CallOK, Lists, k
<1>10. call' = Append(call, k) /\ Len(call) < MaxCalls /\ UNCHANGED <<table, disk, wide, crashes>>
  BY DEF Call, k, NewCall
<1> QED BY <1>2, <1>4, <1>9, <1>10 DEF Added, AtFirst

LEMMA CallsAdd ==
  ASSUME Base, Calls
  PROVE  \E k : Added(k)
<1>1. Null \in Nat /\ Null \in 0 .. Null /\ \A n \in 0 .. MaxSteps : n \in 0 .. Null /\ n # Null
  BY StoreAssumption DEF Null
<1>2. \A p \in Programs : p \in Programs \cup {None}
  OBVIOUS
<1>3. /\ \A f \in Asked : f \subseteq Columns /\ {"name"} \cup f \subseteq Columns
      /\ \A f \in SUBSET Columns : f \in SUBSET (Columns \cup Keys)
      /\ \A f \in SUBSET Keys : f \in SUBSET (Columns \cup Keys)
      /\ {} \in SUBSET (Columns \cup Keys)
  BY StoreAssumption DEF Columns
<1>4. ASSUME NEW p \in Programs \ Used, NEW f \in Asked, NEW n \in 0 .. MaxSteps,
             Call("create", p, {"name"} \cup f, n, Creates(n))
      PROVE  \E k : Added(k)
  <2> DEFINE k == NewCall("create", p, {"name"} \cup f, n, Creates(n))
             P == {Stmt("insert_program", 0), Finish} \cup Inserting(n) \cup Reads
  <2>1. /\ n \in Nat /\ Lists(Creates(n), P) /\ ReadsAfter(Creates(n)) /\ Creates(n) # <<>>
        /\ Head(Creates(n)) = Stmt("insert_program", 0)
    BY CreatesOK
  <2>2. \A x : Belongs(x, k) <=> x \in P
    BY DEF Belongs, NewCall
  <2>3. Asks(k)
    BY <1>1, <1>3 DEF Asks, NewCall
  <2> HIDE DEF P
  <2> QED BY <1>1, <1>2, <1>3, <1>4, <2>1, <2>2, <2>3, CallAdds DEF Ops
<1>5. ASSUME NEW p \in Programs, Call("get", p, {}, Null, Gets)
      PROVE  \E k : Added(k)
  <2> DEFINE k == NewCall("get", p, {}, Null, Gets)
  <2>1. Lists(Gets, Reads) /\ Gets # <<>>
    BY ListsReads DEF Gets
  <2>2. \A x : Belongs(x, k) <=> x \in Reads
    BY DEF Belongs, NewCall
  <2>3. Asks(k)
    BY DEF Asks, NewCall
  <2> QED BY <1>1, <1>2, <1>3, <1>5, <2>1, <2>2, <2>3, CallAdds DEF Ops
<1>6. ASSUME NEW p \in Programs, NEW f \in Asked, NEW n \in 0 .. Null,
             Call("update", p, f, n, Updates(f, n))
      PROVE  \E k : Added(k)
  <2> DEFINE k == NewCall("update", p, f, n, Updates(f, n))
             P == Reads \cup Setting(f) \cup Deleting(n) \cup {Finish}
  <2>1. Lists(Updates(f, n), P) /\ ReadsAfter(Updates(f, n)) /\ Updates(f, n) # <<>>
    BY <1>3, UpdatesOK
  <2>2. \A x : Belongs(x, k) <=> x \in P
    BY DEF Belongs, NewCall, Setting, Deleting
  <2>3. Asks(k)
    BY <1>1, <1>3 DEF Asks, NewCall
  <2> HIDE DEF P
  <2> QED BY <1>1, <1>2, <1>3, <1>6, <2>1, <2>2, <2>3, CallAdds DEF Ops
<1>7. ASSUME NEW p \in Programs, Call("delete", p, {}, Null, Deletes)
      PROVE  \E k : Added(k)
  <2> DEFINE k == NewCall("delete", p, {}, Null, Deletes)
             P == {Stmt("delete_program", 0), Finish}
  <2>1. Lists(Deletes, P) /\ Deletes # <<>>
    BY WritesOne DEF Deletes, Stmt, Statements, Verbs
  <2>2. \A x : Belongs(x, k) <=> x \in P
    BY DEF Belongs, NewCall
  <2>3. Asks(k)
    BY DEF Asks, NewCall
  <2> HIDE DEF P
  <2> QED BY <1>1, <1>2, <1>3, <1>7, <2>1, <2>2, <2>3, CallAdds DEF Ops
<1>8. ASSUME NEW f \in SUBSET Keys, Call("prefer", None, f, Null, Prefers(f))
      PROVE  \E k : Added(k)
  <2> DEFINE k == NewCall("prefer", None, f, Null, Prefers(f))
             P == {Stmt("set_preference", x) : x \in f} \cup {Finish}
  <2>1. Lists(Prefers(f), P) /\ Prefers(f) # <<>>
    BY PrefersOK
  <2>2. \A x : Belongs(x, k) <=> x \in P
    BY DEF Belongs, NewCall
  <2>3. Asks(k)
    BY DEF Asks, NewCall
  <2> HIDE DEF P
  <2> QED BY <1>1, <1>3, <1>8, <2>1, <2>2, <2>3, CallAdds DEF Ops
\* The calls of the scheduler and the telemetry loop.
<1>9. ASSUME NEW op \in {"begin", "advance", "end", "log"}, NEW todo, NEW P,
             Call(op, None, {}, Null, todo), Lists(todo, P), todo # <<>>,
             \A x : Belongs(x, NewCall(op, None, {}, Null, todo)) <=> x \in P
      PROVE  \E k : Added(k)
  <2> DEFINE k == NewCall(op, None, {}, Null, todo)
  <2>3. Asks(k)
    BY DEF Asks, NewCall
  <2> QED BY <1>1, <1>3, <1>9, <2>3, CallAdds DEF Ops
<1>10. CASE CallBegin
  <2> DEFINE P == {Stmt("delete_active", 0), Stmt("insert_active", 0), Finish}
  <2>1. Lists(Begins, P) /\ Begins # <<>>
    BY BeginsOK
  <2>2. \A x : Belongs(x, NewCall("begin", None, {}, Null, Begins)) <=> x \in P
    BY DEF Belongs, NewCall
  <2>3. Call("begin", None, {}, Null, Begins)
    BY <1>10 DEF CallBegin
  <2> HIDE DEF P
  <2> QED BY <1>9, <2>1, <2>2, <2>3
<1>11. CASE CallAdvance
  <2> DEFINE P == {Stmt("move_active", 0), Finish}
  <2>1. Lists(Advances, P) /\ Advances # <<>>
    BY WritesOne DEF Advances, Stmt, Statements, Verbs
  <2>2. \A x : Belongs(x, NewCall("advance", None, {}, Null, Advances)) <=> x \in P
    BY DEF Belongs, NewCall
  <2>3. Call("advance", None, {}, Null, Advances)
    BY <1>11 DEF CallAdvance
  <2> HIDE DEF P
  <2> QED BY <1>9, <2>1, <2>2, <2>3
<1>12. CASE CallEnd
  <2> DEFINE P == {Stmt("delete_active", 0), Finish}
  <2>1. Lists(Ends, P) /\ Ends # <<>>
    BY WritesOne DEF Ends, Stmt, Statements, Verbs
  <2>2. \A x : Belongs(x, NewCall("end", None, {}, Null, Ends)) <=> x \in P
    BY DEF Belongs, NewCall
  <2>3. Call("end", None, {}, Null, Ends)
    BY <1>12 DEF CallEnd
  <2> HIDE DEF P
  <2> QED BY <1>9, <2>1, <2>2, <2>3
<1>13. CASE CallLog
  <2> DEFINE P == {Stmt("insert_telemetry", 0), Finish}
  <2>1. Lists(Logs, P) /\ Logs # <<>>
    BY WritesOne DEF Logs, Stmt, Statements, Verbs
  <2>2. \A x : Belongs(x, NewCall("log", None, {}, Null, Logs)) <=> x \in P
    BY DEF Belongs, NewCall
  <2>3. Call("log", None, {}, Null, Logs)
    BY <1>13 DEF CallLog
  <2> HIDE DEF P
  <2> QED BY <1>9, <2>1, <2>2, <2>3
<1> QED BY <1>4, <1>5, <1>6, <1>7, <1>8, <1>10, <1>11, <1>12, <1>13
        DEF Calls, CallCreate, CallGet, CallUpdate, CallDelete, CallPrefer

-----------------------------------------------------------------------------
\* Whose statement x of call k can be.
LEMMA Whose ==
  ASSUME NEW x, NEW k, Belongs(x, k)
  PROVE  /\ x.verb = "insert_program" => k.op = "create" /\ x = Stmt("insert_program", 0)
         /\ x.verb = "set" => k.op = "update" /\ x.arg \in k.fields /\ x = Stmt("set", x.arg)
         /\ x.verb = "delete_steps" =>
              k.op = "update" /\ k.steps # Null /\ x = Stmt("delete_steps", 0)
         /\ x.verb = "insert_step" =>
              /\ k.op \in {"create", "update"} /\ (k.op = "update" => k.steps # Null)
              /\ x.arg \in 0 .. k.steps - 1 /\ x = Stmt("insert_step", x.arg)
         /\ x.verb = "delete_program" => k.op = "delete" /\ x = Stmt("delete_program", 0)
         /\ x.verb = "set_preference" =>
              k.op = "prefer" /\ x.arg \in k.fields /\ x = Stmt("set_preference", x.arg)
         /\ x.verb = "delete_active" => k.op \in {"begin", "end"} /\ x = Stmt("delete_active", 0)
         /\ x.verb = "insert_active" => k.op = "begin" /\ x = Stmt("insert_active", 0)
         /\ x.verb = "move_active" => k.op = "advance" /\ x = Stmt("move_active", 0)
         /\ x.verb = "insert_telemetry" => k.op = "log" /\ x = Stmt("insert_telemetry", 0)
         /\ x.verb = "commit" => k.op # "get" /\ x = Finish
         /\ x.verb = "select_program" =>
              k.op \in {"create", "get", "update"} /\ x = Stmt("select_program", 0)
         /\ x.verb = "select_steps" =>
              k.op \in {"create", "get", "update"} /\ x = Stmt("select_steps", 0)
  BY DEF Belongs, Stmt, Finish, Reads, Inserting

\* A call goes on, or is refused or finds nothing.
Onward(j, k) ==
  /\ j.todo = Tail(k.todo)
  /\ j.state = IF j.todo = <<>> THEN j.answer ELSE "running"

Stopped(j) == j.todo = <<>> /\ j.state \in {"refused", "missing"}

Moves(c) ==
  /\ call' \in Seq(CallType) /\ Len(call') = Len(call) /\ DOMAIN call' = DOMAIN call
  /\ \A d \in DOMAIN call : d # c => call'[d] = call[d]
  /\ CallOK(call[c]) /\ call[c].todo # <<>> /\ Running(c)
  /\ Same(call'[c], call[c]) /\ CallOK(call'[c]) /\ ~AtFirst(call'[c])
  /\ Onward(call'[c], call[c]) \/ Stopped(call'[c])

LEMMA MovesTo ==
  ASSUME Base, NEW c \in DOMAIN call, Running(c), NEW k2 \in CallType,
         call' = [call EXCEPT ![c] = k2], Same(k2, call[c]),
         Onward(k2, call[c]) \/ Stopped(k2), k2.answer = "missing" => k2.op = "delete"
  PROVE  Moves(c) /\ call'[c] = k2
<1>1. call \in Seq(CallType) /\ CallOK(call[c])
  BY DEF Base, Calling
<1>2. /\ Len(call) \in Nat /\ DOMAIN call = 1 .. Len(call)
      /\ call \in [1 .. Len(call) -> CallType]
  BY <1>1, LenProperties
<1>3. call' \in [1 .. Len(call) -> CallType]
  BY <1>2
<1>4. call' \in Seq(CallType)
  BY <1>2, <1>3, SeqDef
<1>5. Len(call') = Len(call) /\ DOMAIN call' = DOMAIN call
  BY <1>2, <1>3, <1>4, LenProperties
<1>6. call'[c] = k2 /\ \A d \in DOMAIN call : d # c => call'[d] = call[d]
  BY <1>2
<1>7. call[c].todo # <<>>
  BY <1>1 DEF CallOK, Running
<1>8. CallOK(k2) /\ ~AtFirst(k2)
  <2>1. CASE Onward(k2, call[c])
    <3>1. k2.todo = Tail(call[c].todo) /\ k2.answer # "running"
      BY <2>1 DEF Onward, CallType
    <3>2. /\ k2.state = "running" <=> k2.todo # <<>>
          /\ k2.state = "done" => k2.answer = "done"
      BY <2>1, <3>1 DEF Onward
    <3> QED BY <1>1, <1>7, <3>1, <3>2, NextOK
  <2>2. CASE Stopped(k2)
    BY <1>1, <2>2, EndOK DEF Stopped
  <2> QED BY <2>1, <2>2
<1> QED BY <1>1, <1>4, <1>5, <1>6, <1>7, <1>8 DEF Moves

\* What WithNext makes of a call.
LEMMA GoesOn ==
  ASSUME Base, NEW c \in DOMAIN call, Running(c)
  PROVE  /\ CallOK(call[c]) /\ call[c] \in CallType /\ call[c].todo # <<>>
         /\ WithNext(c) \in CallType /\ Same(WithNext(c), call[c])
         /\ Onward(WithNext(c), call[c])
         /\ WithNext(c).answer = call[c].answer
         /\ WithNext(c).row = call[c].row /\ WithNext(c).got = call[c].got
         /\ call[c].op # "delete" => call[c].answer = "done"
<1> DEFINE k == call[c]
<1>1. k \in CallType /\ CallOK(k) /\ k.todo # <<>> /\ k.todo \in Seq(Statements) /\ k.state = "running"
  BY DEF Base, Calling, CallOK, CallType, Running
<1>2. /\ Tail(k.todo) \in Seq(Statements) /\ Len(k.todo) \in Nat \ {0}
      /\ Len(Tail(k.todo)) = Len(k.todo) - 1
  BY <1>1, TailShifts
<1>3. Len(k.todo) = 1 <=> Tail(k.todo) = <<>>
  <2>1. Tail(k.todo) = <<>> <=> Len(Tail(k.todo)) = 0
    BY <1>2, EmptySeq
  <2> QED BY <1>2, <2>1
<1>4. k.answer \in {"done", "missing"}
  BY <1>1 DEF CallType
<1> HIDE DEF k
<1>5. WithNext(c) = [k EXCEPT !.todo = Tail(k.todo),
                              !.state = IF Tail(k.todo) = <<>> THEN k.answer ELSE k.state]
  BY <1>3 DEF WithNext, k
<1>6. WithNext(c) \in CallType
  BY <1>1, <1>2, <1>4, <1>5 DEF CallType, States
<1>7. /\ WithNext(c).todo = Tail(k.todo) /\ WithNext(c).answer = k.answer
      /\ WithNext(c).state = IF Tail(k.todo) = <<>> THEN k.answer ELSE k.state
      /\ Same(WithNext(c), k) /\ WithNext(c).row = k.row /\ WithNext(c).got = k.got
  BY <1>1, <1>5 DEF CallType, Same
<1>8. k.op # "delete" => k.answer = "done"
  BY <1>1, <1>4 DEF CallOK
<1> QED BY <1>1, <1>6, <1>7, <1>8 DEF k, Onward

LEMMA HeadOK ==
  ASSUME NEW k, CallOK(k), k.todo # <<>>
  PROVE  Head(k.todo) \in Rest(k) /\ Head(k.todo) \in Statements /\ Belongs(Head(k.todo), k)
<1>1. k.todo \in Seq(Statements)
  BY DEF CallOK, CallType
<1>2. Head(k.todo) \in Statements /\ Head(k.todo) = k.todo[1] /\ 1 \in 1 .. Len(k.todo)
  BY <1>1, TailShifts
<1>3. Head(k.todo) \in Rest(k)
  BY <1>2 DEF Rest, Entries
<1> QED BY <1>2, <1>3 DEF CallOK

\* What is left of a call that goes on.
LEMMA Heads ==
  ASSUME NEW c, Moves(c), Onward(call'[c], call[c])
  PROVE  LET h == Head(call[c].todo)
         IN  /\ Rest(call[c]) = {h} \cup Rest(call'[c])
             /\ h.verb \notin Reading => h \notin Rest(call'[c])
             /\ h = Finish /\ call[c].op \in {"create", "update"} => Reads \subseteq Rest(call'[c])
<1>1. CallOK(call'[c]) /\ CallOK(call[c]) /\ call[c].todo # <<>> /\ Same(call'[c], call[c])
  BY DEF Moves
<1>2. call'[c] \in CallType /\ call'[c].todo = Tail(call[c].todo)
  BY <1>1 DEF CallOK, Onward
<1>3. /\ call'[c].state = "running" <=> call'[c].todo # <<>>
      /\ call'[c].state = "done" => call'[c].answer = "done"
      /\ call'[c].answer = "missing" => call'[c].op = "delete"
  BY <1>1 DEF CallOK
<1> QED BY <1>1, <1>2, <1>3, NextOK

\* The rows of the program of call c are found in the table.
LEMMA TableParts ==
  ASSUME NEW t \in Tables
  PROVE  /\ DOMAIN t.rows \subseteq Programs
         /\ \A p \in DOMAIN t.rows : t.rows[p] \in Columned
         /\ t.rows \in [DOMAIN t.rows -> Columned]
         /\ t.steps \subseteq StepRows /\ t.prefs \in [Keys -> 0 .. MaxCalls]
         /\ t.active \subseteq ActiveRows /\ t.telemetry \subseteq 1 .. MaxCalls
<1>1. PICK P \in SUBSET Programs : t.rows \in [P -> Columned]
  BY DEF Tables, RowSets
<1> QED BY <1>1 DEF Tables

LEMMA EndedIs ==
  ASSUME NEW c, call[c] \in CallType, NEW s \in {"refused", "missing", "killed"}
  PROVE  /\ Ended(c, s) \in CallType /\ Same(Ended(c, s), call[c])
         /\ Ended(c, s).todo = <<>> /\ Ended(c, s).state = s
         /\ Ended(c, s).answer = call[c].answer
<1>1. <<>> \in Seq(Statements)
  BY Nothing
<1> QED BY <1>1 DEF Ended, CallType, States, Same

LEMMA StatementMoves ==
  ASSUME Base, NEW c \in DOMAIN call, Statement(c)
  PROVE  Moves(c)
<1>1. Running(c)
  BY DEF Statement, InsertProgram, SetColumn, DeleteSteps, InsertStep, RefuseStep, DeleteProgram,
         SetPreference, DeleteActive, InsertActive, MoveActive, InsertTelemetry, Commits,
         SelectProgram, SelectSteps, Runs
<1> DEFINE k == call[c]
           h == Head(call[c].todo)
<1>2. /\ CallOK(k) /\ k \in CallType /\ k.todo # <<>>
      /\ WithNext(c) \in CallType /\ Same(WithNext(c), k) /\ Onward(WithNext(c), k)
      /\ WithNext(c).answer = k.answer /\ (k.op # "delete" => k.answer = "done")
  BY <1>1, GoesOn
<1>3. Belongs(h, k) /\ h \in Rest(k)
  BY <1>2, HeadOK
<1>4. Ended(c, "refused") \in CallType /\ Same(Ended(c, "refused"), k)
      /\ Ended(c, "missing") \in CallType /\ Same(Ended(c, "missing"), k)
      /\ Stopped(Ended(c, "refused")) /\ Stopped(Ended(c, "missing"))
      /\ Ended(c, "refused").answer = k.answer /\ Ended(c, "missing").answer = k.answer
  BY <1>2, EndedIs DEF Stopped
<1>5. k.answer = "missing" => k.op = "delete"
  BY <1>2
<1>6. CASE call' = [call EXCEPT ![c] = WithNext(c)]
  <2>1. WithNext(c).answer = "missing" => WithNext(c).op = "delete"
    BY <1>2, <1>5 DEF Same
  <2> QED BY <1>1, <1>2, <1>6, <2>1, MovesTo
<1>7. CASE call' = [call EXCEPT ![c] = Ended(c, "refused")]
  <2>1. Ended(c, "refused").answer = "missing" => Ended(c, "refused").op = "delete"
    BY <1>4, <1>5 DEF Same
  <2> QED BY <1>1, <1>4, <1>7, <2>1, MovesTo
<1>8. CASE call' = [call EXCEPT ![c] = Ended(c, "missing")]
  <2>1. Ended(c, "missing").answer = "missing" => Ended(c, "missing").op = "delete"
    BY <1>4, <1>5 DEF Same
  <2> QED BY <1>1, <1>4, <1>8, <2>1, MovesTo
<1>9. CASE /\ k.op = "delete" /\ h = Stmt("delete_program", 0)
           /\ call' = [call EXCEPT ![c] = [WithNext(c) EXCEPT !.answer = "missing"]]
  <2> DEFINE k1 == WithNext(c)
             k2 == [k1 EXCEPT !.answer = "missing"]
  <2>1. k2 \in CallType /\ Same(k2, k) /\ k2.todo = k1.todo /\ k2.state = k1.state /\ k2.op = k.op
    BY <1>2 DEF CallType, Same
  <2>2. k1.todo = Tail(k.todo) /\ (k1.state = "running" <=> k1.todo # <<>>)
        /\ (k1.state = "done" => k1.answer = "done")
        /\ (k1.answer = "missing" => k1.op = "delete")
    BY <1>2, <1>5 DEF Onward, CallType, Same
  <2>3. Rest(k) = {h} \cup Rest(k1)
    BY <1>2, <2>2, NextOK
  <2>4. Finish \in Rest(k)
    <3>1. Belongs(Finish, k)
      BY <1>9 DEF Belongs
    <3>2. h.verb \notin Reading /\ Finish.verb \notin Reading /\ Rank(h.verb) < Rank(Finish.verb)
      BY <1>9 DEF Stmt, Finish, Reading, Rank
    <3> QED BY <1>2, <1>3, <3>1, <3>2 DEF CallOK, Closed
  <2>5. k1.todo # <<>>
    <3>1. Finish # h
      BY <1>9 DEF Finish, Stmt
    <3> QED BY <2>3, <2>4, <3>1, Nothing DEF Rest
  <2>6. Onward(k2, k)
    BY <2>1, <2>2, <2>5 DEF Onward
  <2> QED BY <1>1, <1>9, <2>1, <2>6, MovesTo
<1>10. ASSUME NEW r \in Columned, call' = [call EXCEPT ![c] = [WithNext(c) EXCEPT !.row = r]]
       PROVE  Moves(c)
  <2> DEFINE k2 == [WithNext(c) EXCEPT !.row = r]
  <2>1. /\ k2 \in CallType /\ Same(k2, k) /\ Onward(k2, k)
        /\ k2.answer = "missing" => k2.op = "delete"
    BY <1>2, <1>5 DEF CallType, Same, Onward
  <2> QED BY <1>1, <1>10, <2>1, MovesTo
<1>11. ASSUME NEW g \in SUBSET StepRows, call' = [call EXCEPT ![c] = [WithNext(c) EXCEPT !.got = g]]
       PROVE  Moves(c)
  <2> DEFINE k2 == [WithNext(c) EXCEPT !.got = g]
  <2>1. /\ k2 \in CallType /\ Same(k2, k) /\ Onward(k2, k)
        /\ k2.answer = "missing" => k2.op = "delete"
    BY <1>2, <1>5 DEF CallType, Same, Onward
  <2> QED BY <1>1, <1>11, <2>1, MovesTo
<1>12. table \in Tables
  BY DEF Base, Tabled
<1>13. CASE SelectProgram(c)
  <2>1. CASE k.program \in DOMAIN table.rows
    <3>1. table.rows[k.program] \in Columned
      BY <1>12, <2>1, TableParts
    <3> QED BY <1>10, <1>13, <2>1, <3>1 DEF SelectProgram
  <2> QED BY <1>8, <1>13, <2>1 DEF SelectProgram
<1>14. CASE SelectSteps(c)
  <2>1. {s \in table.steps : s.program = k.program} \in SUBSET StepRows
    BY <1>12, TableParts
  <2> QED BY <1>11, <1>14, <2>1 DEF SelectSteps
<1>15. CASE DeleteProgram(c)
  <2>1. k.op = "delete" /\ h = Stmt("delete_program", 0)
    BY <1>3, <1>15, Whose DEF DeleteProgram, Runs
  <2> QED BY <1>6, <1>9, <1>15, <2>1 DEF DeleteProgram, Writes
<1>16. CASE InsertActive(c)
  BY <1>6, <1>7, <1>16 DEF InsertActive, Writes, Refused
<1>17. CASE RefuseStep(c)
  BY <1>7, <1>17 DEF RefuseStep, Refused
<1>18. CASE InsertProgram(c) \/ SetColumn(c) \/ DeleteSteps(c) \/ InsertStep(c) \/ SetPreference(c)
            \/ DeleteActive(c) \/ MoveActive(c) \/ InsertTelemetry(c) \/ Commits(c)
  BY <1>6, <1>18 DEF InsertProgram, SetColumn, DeleteSteps, InsertStep, SetPreference,
                     DeleteActive, MoveActive, InsertTelemetry, Commits, Writes
<1> QED BY <1>13, <1>14, <1>15, <1>16, <1>17, <1>18 DEF Statement

-----------------------------------------------------------------------------
\* What the next statement of call c does to the tables, by its verb v.
WritesRows(c, v) ==
  LET q == call[c].program
      a == Head(call[c].todo).arg
  IN  /\ \A p : p # q => /\ p \in DOMAIN table'.rows <=> p \in DOMAIN table.rows
                         /\ p \in DOMAIN table.rows => table'.rows[p] = table.rows[p]
      /\ v = "insert_program" =>
           /\ DOMAIN table'.rows = DOMAIN table.rows \cup {q}
           /\ \A f \in call[c].fields \cap Columns : table'.rows[q][f] = c
      /\ v = "set" =>
           /\ DOMAIN table'.rows = DOMAIN table.rows
           /\ q \in DOMAIN table.rows =>
                \A f \in Columns : table'.rows[q][f] = IF f = a THEN c ELSE table.rows[q][f]
      /\ v = "delete_program" =>
           /\ q \notin DOMAIN table'.rows
           /\ q \in DOMAIN table.rows \/ call'[c].answer = "missing"
      /\ v \notin {"insert_program", "set", "delete_program"} => table'.rows = table.rows

WritesSteps(c, v) ==
  LET q == call[c].program
      a == Head(call[c].todo).arg
  IN  /\ v = "delete_steps" => table'.steps = {s \in table.steps : s.program # q}
      /\ v = "insert_step" =>
           \/ table'.steps = table.steps \cup {StepRow(q, a, c)}
           \/ table'.steps = table.steps /\ call'[c].state = "refused"
      /\ v \notin {"delete_steps", "insert_step"} => table'.steps = table.steps

WritesRest(c, v) ==
  LET a == Head(call[c].todo).arg
  IN  /\ v = "set_preference" =>
           \A x \in Keys : table'.prefs[x] = IF x = a THEN c ELSE table.prefs[x]
      /\ v # "set_preference" => table'.prefs = table.prefs
      /\ v = "delete_active" => table'.active = {}
      /\ v = "insert_active" =>
           \/ table'.active = {[by |-> c, at |-> c]}
           \/ table'.active = table.active /\ call'[c].state = "refused"
      /\ v = "move_active" => \A r \in table'.active : r.at = c
      /\ v \notin {"delete_active", "insert_active", "move_active"} => table'.active = table.active
      /\ v = "insert_telemetry" => table'.telemetry = table.telemetry \cup {c}
      /\ v # "insert_telemetry" => table'.telemetry = table.telemetry
      /\ v = "commit" => disk' = table
      /\ v # "commit" => disk' = disk

ReadsRows(c, v) ==
  LET q == call[c].program
  IN  /\ v = "select_program" =>
           \/ /\ q \in DOMAIN table.rows /\ call'[c].row = table.rows[q]
              /\ call'[c].state # "missing"
           \/ q \notin DOMAIN table.rows /\ call'[c].state = "missing"
      /\ v = "select_steps" => call'[c].got = StepsIn(table, q)
      /\ v # "select_program" => call'[c].row = call[c].row
      /\ v # "select_steps" => call'[c].got = call[c].got
      /\ call'[c].state = "missing" => v = "select_program" \/ call[c].op = "delete"
      /\ call'[c].answer # "missing" => call[c].answer # "missing"

Does(c) ==
  LET v == Head(call[c].todo).verb
  IN  WritesRows(c, v) /\ WritesSteps(c, v) /\ WritesRest(c, v) /\ ReadsRows(c, v)

Silent(c) ==
  /\ call'[c].row = call[c].row /\ call'[c].got = call[c].got
  /\ call'[c].state = "missing" => call[c].op = "delete"
  /\ call'[c].answer # "missing" => call[c].answer # "missing"

\* A call without a read keeps what it read.
LEMMA SilentOK ==
  ASSUME Base, NEW c \in DOMAIN call, Running(c),
         \/ call' = [call EXCEPT ![c] = WithNext(c)]
         \/ call' = [call EXCEPT ![c] = Ended(c, "refused")]
         \/ /\ call' = [call EXCEPT ![c] = [WithNext(c) EXCEPT !.answer = "missing"]]
            /\ call[c].op = "delete"
  PROVE  /\ Silent(c)
         /\ call' = [call EXCEPT ![c] = Ended(c, "refused")] => call'[c].state = "refused"
         /\ call' = [call EXCEPT ![c] = [WithNext(c) EXCEPT !.answer = "missing"]]
              => call'[c].answer = "missing"
<1>1. call \in Seq(CallType) /\ DOMAIN call = 1 .. Len(call)
  BY LenProperties DEF Base, Calling
<1>2. call \in [1 .. Len(call) -> CallType]
  BY <1>1, LenProperties
<1>3. /\ call[c] \in CallType /\ WithNext(c) \in CallType /\ Onward(WithNext(c), call[c])
      /\ WithNext(c).answer = call[c].answer
      /\ WithNext(c).row = call[c].row /\ WithNext(c).got = call[c].got
      /\ call[c].op # "delete" => call[c].answer = "done"
  BY GoesOn
<1>4. CASE call' = [call EXCEPT ![c] = WithNext(c)]
  <2>1. call'[c] = WithNext(c)
    BY <1>2, <1>4
  <2>2. WithNext(c).state = "missing" => call[c].op = "delete"
    BY <1>3 DEF Onward
  <2>3. WithNext(c) = Ended(c, "refused") => WithNext(c).state = "refused"
    BY <1>3, EndedIs
  <2>4. call'[c] = [WithNext(c) EXCEPT !.answer = "missing"] => call'[c].answer = "missing"
    BY <1>3 DEF CallType
  <2> QED BY <1>1, <1>3, <2>1, <2>2, <2>3, <2>4 DEF Silent
<1>5. CASE call' = [call EXCEPT ![c] = Ended(c, "refused")]
  <2>1. call'[c] = Ended(c, "refused")
    BY <1>2, <1>5
  <2>2. /\ Ended(c, "refused").row = call[c].row /\ Ended(c, "refused").got = call[c].got
        /\ Ended(c, "refused").answer = call[c].answer /\ Ended(c, "refused").state = "refused"
    BY <1>3 DEF Ended, CallType
  <2>3. call'[c] = [WithNext(c) EXCEPT !.answer = "missing"] => call'[c].answer = "missing"
    BY <1>3 DEF CallType
  <2>4. call' = [call EXCEPT ![c] = [WithNext(c) EXCEPT !.answer = "missing"]]
          => call'[c] = [WithNext(c) EXCEPT !.answer = "missing"]
    BY <1>2
  <2> QED BY <2>1, <2>2, <2>3, <2>4 DEF Silent
<1>6. CASE /\ call' = [call EXCEPT ![c] = [WithNext(c) EXCEPT !.answer = "missing"]]
           /\ call[c].op = "delete"
  <2>1. call'[c] = [WithNext(c) EXCEPT !.answer = "missing"]
    BY <1>2, <1>6
  <2>2. /\ call'[c].row = call[c].row /\ call'[c].got = call[c].got
        /\ call'[c].answer = "missing"
    BY <1>3, <2>1 DEF CallType
  <2>3. call' = [call EXCEPT ![c] = Ended(c, "refused")] => call'[c] = Ended(c, "refused")
    BY <1>2
  <2>4. Ended(c, "refused").state = "refused"
    BY <1>3, EndedIs
  <2> QED BY <1>6, <2>2, <2>3, <2>4 DEF Silent
<1> QED BY <1>4, <1>5, <1>6

\* The tables with one of them written.
LEMMA TableWith ==
  ASSUME NEW t \in Tables
  PROVE  /\ \A x \in RowSets : LET u == [t EXCEPT !.rows = x]
              IN  u \in Tables /\ u.rows = x /\ u.steps = t.steps /\ u.prefs = t.prefs
                  /\ u.active = t.active /\ u.telemetry = t.telemetry
         /\ \A x \in SUBSET StepRows : LET u == [t EXCEPT !.steps = x]
              IN  u \in Tables /\ u.rows = t.rows /\ u.steps = x /\ u.prefs = t.prefs
                  /\ u.active = t.active /\ u.telemetry = t.telemetry
         /\ \A x \in [Keys -> 0 .. MaxCalls] : LET u == [t EXCEPT !.prefs = x]
              IN  u \in Tables /\ u.rows = t.rows /\ u.steps = t.steps /\ u.prefs = x
                  /\ u.active = t.active /\ u.telemetry = t.telemetry
         /\ \A x \in SUBSET ActiveRows : LET u == [t EXCEPT !.active = x]
              IN  u \in Tables /\ u.rows = t.rows /\ u.steps = t.steps /\ u.prefs = t.prefs
                  /\ u.active = x /\ u.telemetry = t.telemetry
         /\ \A x \in SUBSET (1 .. MaxCalls) : LET u == [t EXCEPT !.telemetry = x]
              IN  u \in Tables /\ u.rows = t.rows /\ u.steps = t.steps /\ u.prefs = t.prefs
                  /\ u.active = t.active /\ u.telemetry = x
  BY DEF Tables

LEMMA InRowSets ==
  ASSUME NEW D \in SUBSET Programs, NEW f \in [D -> Columned]
  PROVE  f \in RowSets
  BY DEF RowSets

LEMMA UsedKept ==
  ASSUME DOMAIN call' = DOMAIN call, \A d \in DOMAIN call : Same(call'[d], call[d])
  PROVE  Used' = Used
  BY DEF Used, Same

LEMMA StatementDoes ==
  ASSUME Base, NEW c \in DOMAIN call, Statement(c)
  PROVE  Does(c) /\ Tabled'
<1> DEFINE k == call[c]
           h == Head(call[c].todo)
           q == call[c].program
<1>1. Moves(c) /\ Running(c)
  BY StatementMoves DEF Moves
<1>2. /\ CallOK(k) /\ k \in CallType /\ Belongs(h, k) /\ Asks(k) /\ q \in Programs \cup {None}
      /\ k.fields \subseteq Columns \cup Keys /\ k.steps \in 0 .. Null
  BY <1>1, HeadOK DEF Moves, CallOK, CallType
<1>3. /\ table \in Tables /\ disk \in Tables /\ Known(table) /\ Known(disk)
      /\ AtMostOne(table.active) /\ AtMostOne(disk.active)
  BY DEF Base, Tabled
<1>4. c \in 1 .. MaxCalls /\ c \in Nat
  <2>1. call \in Seq(CallType) /\ Len(call) =< MaxCalls
    BY DEF Base, Calling
  <2> QED BY <2>1, LenProperties, StoreAssumption
<1>5. Used' = Used
  <2>1. \A d \in DOMAIN call : Same(call'[d], call[d])
    BY <1>1 DEF Moves, Same
  <2> QED BY <1>1, <2>1, UsedKept DEF Moves
<1>6. k.op = "create" \/ (k.op = "update" /\ ~AtFirst(k)) => q \in Used
  BY <1>1 DEF Base, CreatedOnce, Used
<1>7. h.verb = "insert_step" => q \in Used
  <2>1. k.op = "update" /\ AtFirst(k) => h.verb = "select_program"
    <3>1. k.op = "update" => k.fields \in SUBSET Columns
      BY <1>2 DEF Asks
    <3>2. k.op = "update" /\ AtFirst(k) => h = Stmt("select_program", 0)
      BY <1>2, <3>1, UpdatesOK DEF AtFirst
    <3> QED BY <3>2 DEF Stmt
  <2> QED BY <1>2, <1>6, <2>1, Whose
<1>8. /\ DOMAIN table.rows \subseteq Programs /\ \A p \in DOMAIN table.rows : table.rows[p] \in Columned
      /\ table.steps \subseteq StepRows /\ table.prefs \in [Keys -> 0 .. MaxCalls]
      /\ table.active \subseteq ActiveRows /\ table.telemetry \subseteq 1 .. MaxCalls
  BY <1>3, TableParts
<1>9. h.verb \in Verbs
  BY <1>1, HeadOK DEF Moves, Statements
\* The calls whose statements read nothing.
<1>10. ASSUME call' = [call EXCEPT ![c] = WithNext(c)]
       PROVE  Silent(c)
  BY <1>1, <1>10, SilentOK
<1>11. CASE InsertProgram(c)
  <2> DEFINE R == [p \in DOMAIN table.rows \cup {q} |->
                     IF p # q THEN table.rows[p]
                     ELSE [f \in Columns |-> IF f \in k.fields THEN c ELSE 0]]
  <2>1. h.verb = "insert_program" /\ k.op = "create" /\ q \in Programs /\ q \in Used
    BY <1>2, <1>6, <1>11, Whose DEF InsertProgram, Runs, Asks
  <2>2. table' = [table EXCEPT !.rows = R] /\ disk' = disk
        /\ call' = [call EXCEPT ![c] = WithNext(c)]
    BY <1>11 DEF InsertProgram, Writes
  <2>3. R \in RowSets
    <3>1. [f \in Columns |-> IF f \in k.fields THEN c ELSE 0] \in Columned
      BY <1>4, StoreAssumption DEF Columned
    <3>2. R \in [DOMAIN table.rows \cup {q} -> Columned]
      BY <1>8, <3>1
    <3> QED BY <1>8, <2>1, <3>2, InRowSets
  <2>4. /\ table' \in Tables /\ table'.rows = R /\ table'.steps = table.steps
        /\ table'.prefs = table.prefs /\ table'.active = table.active
        /\ table'.telemetry = table.telemetry
    BY <1>3, <2>2, <2>3, TableWith
  <2>5. Does(c)
    BY <1>10, <2>1, <2>2, <2>4 DEF Does, WritesRows, WritesSteps, WritesRest, ReadsRows, Silent
  <2>6. Tabled'
    BY <1>3, <1>5, <2>1, <2>2, <2>4 DEF Tabled, Known
  <2> QED BY <2>5, <2>6
<1>12. CASE SetColumn(c)
  <2> DEFINE R == [p \in DOMAIN table.rows |->
                     IF p = q THEN [table.rows[p] EXCEPT ![Arg(c)] = c] ELSE table.rows[p]]
  <2>1. h.verb = "set" /\ k.op = "update" /\ Arg(c) = h.arg /\ h.arg \in Columns
    BY <1>2, <1>12, Whose DEF SetColumn, Runs, Asks, Arg
  <2>2. table' = [table EXCEPT !.rows = R] /\ disk' = disk
        /\ call' = [call EXCEPT ![c] = WithNext(c)]
    BY <1>12 DEF SetColumn, Writes
  <2>3. R \in RowSets
    <3>1. \A p \in DOMAIN table.rows : [table.rows[p] EXCEPT ![Arg(c)] = c] \in Columned
      BY <1>4, <1>8, <2>1, StoreAssumption DEF Columned
    <3>2. R \in [DOMAIN table.rows -> Columned]
      BY <1>8, <3>1
    <3> QED BY <1>8, <3>2, InRowSets
  <2>4. /\ table' \in Tables /\ table'.rows = R /\ table'.steps = table.steps
        /\ table'.prefs = table.prefs /\ table'.active = table.active
        /\ table'.telemetry = table.telemetry
    BY <1>3, <2>2, <2>3, TableWith
  <2>5. q \in DOMAIN table.rows =>
          \A f \in Columns : table'.rows[q][f] = IF f = h.arg THEN c ELSE table.rows[q][f]
    BY <1>8, <2>1, <2>4 DEF Columned
  <2>6. DOMAIN table'.rows = DOMAIN table.rows
        /\ \A p \in DOMAIN table.rows : p # q => table'.rows[p] = table.rows[p]
    BY <2>4
  <2>7. Does(c)
    BY <1>10, <2>1, <2>2, <2>4, <2>5, <2>6
       DEF Does, WritesRows, WritesSteps, WritesRest, ReadsRows, Silent
  <2>8. Tabled'
    BY <1>3, <1>5, <2>2, <2>4, <2>6 DEF Tabled, Known
  <2> QED BY <2>7, <2>8
<1>13. CASE DeleteSteps(c)
  <2> DEFINE S == {s \in table.steps : s.program # q}
  <2>1. h.verb = "delete_steps"
    BY <1>13 DEF DeleteSteps, Runs
  <2>2. table' = [table EXCEPT !.steps = S] /\ disk' = disk
        /\ call' = [call EXCEPT ![c] = WithNext(c)]
    BY <1>13 DEF DeleteSteps, Writes
  <2>3. /\ table' \in Tables /\ table'.rows = table.rows /\ table'.steps = S
        /\ table'.prefs = table.prefs /\ table'.active = table.active
        /\ table'.telemetry = table.telemetry
    BY <1>3, <1>8, <2>2, TableWith
  <2>4. Does(c)
    BY <1>10, <2>1, <2>2, <2>3 DEF Does, WritesRows, WritesSteps, WritesRest, ReadsRows, Silent
  <2>5. Tabled'
    BY <1>3, <1>5, <2>2, <2>3 DEF Tabled, Known
  <2> QED BY <2>4, <2>5
<1>14. CASE InsertStep(c)
  <2> DEFINE S == table.steps \cup {StepRow(q, Arg(c), c)}
  <2>1. /\ h.verb = "insert_step" /\ Arg(c) = h.arg /\ q \in Used /\ h.arg \in Nat
        /\ k.op \in {"create", "update"} /\ q \in Programs
    <3>1. h.verb = "insert_step" /\ Arg(c) = h.arg
      BY <1>14 DEF InsertStep, Runs, Arg
    <3>2. h.arg \in 0 .. k.steps - 1 /\ k.op \in {"create", "update"}
      BY <1>2, <3>1, Whose
    <3>3. k.steps \in Nat
      BY <1>2, StoreAssumption DEF Null
    <3> QED BY <1>2, <1>7, <3>1, <3>2, <3>3 DEF Asks
  <2>2. table' = [table EXCEPT !.steps = S] /\ disk' = disk
        /\ call' = [call EXCEPT ![c] = WithNext(c)]
    BY <1>14 DEF InsertStep, Writes
  <2>3. StepRow(q, Arg(c), c) \in StepRows /\ StepRow(q, Arg(c), c).program = q
    BY <1>4, <2>1 DEF StepRow, StepRows
  <2>4. /\ table' \in Tables /\ table'.rows = table.rows /\ table'.steps = S
        /\ table'.prefs = table.prefs /\ table'.active = table.active
        /\ table'.telemetry = table.telemetry
    BY <1>3, <1>8, <2>2, <2>3, TableWith
  <2>5. Does(c)
    BY <1>10, <2>1, <2>2, <2>4 DEF Does, WritesRows, WritesSteps, WritesRest, ReadsRows, Silent
  <2>6. Tabled'
    BY <1>3, <1>5, <2>1, <2>2, <2>3, <2>4 DEF Tabled, Known
  <2> QED BY <2>5, <2>6
<1>15. CASE RefuseStep(c)
  <2>1. h.verb = "insert_step"
    BY <1>15 DEF RefuseStep, Runs
  <2>2. table' = table /\ disk' = disk /\ call' = [call EXCEPT ![c] = Ended(c, "refused")]
    BY <1>15 DEF RefuseStep, Refused
  <2>3. Silent(c) /\ call'[c].state = "refused"
    BY <1>1, <2>2, SilentOK
  <2>4. Does(c)
    BY <2>1, <2>2, <2>3 DEF Does, WritesRows, WritesSteps, WritesRest, ReadsRows, Silent
  <2>5. Tabled'
    BY <1>3, <1>5, <2>2 DEF Tabled, Known
  <2> QED BY <2>4, <2>5
<1>16. CASE DeleteProgram(c)
  <2> DEFINE R == [p \in DOMAIN table.rows \ {q} |-> table.rows[p]]
  <2>1. h.verb = "delete_program" /\ k.op = "delete"
    BY <1>2, <1>16, Whose DEF DeleteProgram, Runs
  <2>2. CASE q \in DOMAIN table.rows
    <3>1. table' = [table EXCEPT !.rows = R] /\ disk' = disk
          /\ call' = [call EXCEPT ![c] = WithNext(c)]
      BY <1>16, <2>2 DEF DeleteProgram, Writes
    <3>2. R \in RowSets
      <4>1. R \in [DOMAIN table.rows \ {q} -> Columned]
        BY <1>8
      <4> QED BY <1>8, <4>1, InRowSets
    <3>3. /\ table' \in Tables /\ table'.rows = R /\ table'.steps = table.steps
          /\ table'.prefs = table.prefs /\ table'.active = table.active
          /\ table'.telemetry = table.telemetry
      BY <1>3, <3>1, <3>2, TableWith
    <3>4. Does(c)
      BY <1>10, <2>1, <2>2, <3>1, <3>3
         DEF Does, WritesRows, WritesSteps, WritesRest, ReadsRows, Silent
    <3>5. Tabled'
      BY <1>3, <1>5, <3>1, <3>3 DEF Tabled, Known
    <3> QED BY <3>4, <3>5
  <2>3. CASE q \notin DOMAIN table.rows
    <3>1. table' = table /\ disk' = disk
          /\ call' = [call EXCEPT ![c] = [WithNext(c) EXCEPT !.answer = "missing"]]
      BY <1>16, <2>3 DEF DeleteProgram, Writes
    <3>2. Silent(c) /\ call'[c].answer = "missing"
      BY <1>1, <2>1, <3>1, SilentOK
    <3>3. Does(c)
      BY <2>1, <2>3, <3>1, <3>2 DEF Does, WritesRows, WritesSteps, WritesRest, ReadsRows, Silent
    <3>4. Tabled'
      BY <1>3, <1>5, <3>1 DEF Tabled, Known
    <3> QED BY <3>3, <3>4
  <2> QED BY <2>2, <2>3
<1>17. CASE SetPreference(c)
  <2> DEFINE P == [table.prefs EXCEPT ![h.arg] = c]
  <2>1. h.verb = "set_preference" /\ Arg(c) = h.arg /\ h.arg \in Keys
    BY <1>2, <1>17, Whose DEF SetPreference, Runs, Asks, Arg
  <2>2. table' = [table EXCEPT !.prefs = P] /\ disk' = disk
        /\ call' = [call EXCEPT ![c] = WithNext(c)]
    BY <1>17, <2>1 DEF SetPreference, Writes
  <2>3. P \in [Keys -> 0 .. MaxCalls]
        /\ \A x \in Keys : P[x] = IF x = h.arg THEN c ELSE table.prefs[x]
    BY <1>4, <1>8, <2>1, StoreAssumption
  <2> HIDE DEF P
  <2>4. /\ table' \in Tables /\ table'.rows = table.rows /\ table'.steps = table.steps
        /\ table'.prefs = P /\ table'.active = table.active
        /\ table'.telemetry = table.telemetry
    BY <1>3, <2>2, <2>3, TableWith
  <2>5. Does(c)
    BY <1>10, <2>1, <2>2, <2>3, <2>4
       DEF Does, WritesRows, WritesSteps, WritesRest, ReadsRows, Silent
  <2>6. Tabled'
    BY <1>3, <1>5, <2>2, <2>4 DEF Tabled, Known
  <2> QED BY <2>5, <2>6
\* The active sequence.
<1>18. ASSUME NEW A \in SUBSET ActiveRows, table' = [table EXCEPT !.active = A], AtMostOne(A),
              disk' = disk
       PROVE  /\ Tabled'
              /\ table'.rows = table.rows /\ table'.steps = table.steps
              /\ table'.prefs = table.prefs /\ table'.active = A
              /\ table'.telemetry = table.telemetry
  <2>1. /\ table' \in Tables /\ table'.rows = table.rows /\ table'.steps = table.steps
        /\ table'.prefs = table.prefs /\ table'.active = A
        /\ table'.telemetry = table.telemetry
    BY <1>3, <1>18, TableWith
  <2> QED BY <1>3, <1>5, <1>18, <2>1 DEF Tabled, Known
<1>19. CASE DeleteActive(c)
  <2>1. h.verb = "delete_active"
    BY <1>19 DEF DeleteActive, Runs
  <2>2. table' = [table EXCEPT !.active = {}] /\ disk' = disk
        /\ call' = [call EXCEPT ![c] = WithNext(c)]
    BY <1>19 DEF DeleteActive, Writes
  <2>3. {} \in SUBSET ActiveRows /\ AtMostOne({})
    BY DEF AtMostOne
  <2> QED BY <1>10, <1>18, <2>1, <2>2, <2>3
             DEF Does, WritesRows, WritesSteps, WritesRest, ReadsRows, Silent
<1>20. CASE InsertActive(c)
  <2> DEFINE A == {[by |-> c, at |-> c]}
  <2>1. h.verb = "insert_active"
    BY <1>20 DEF InsertActive, Runs
  <2>2. A \in SUBSET ActiveRows /\ AtMostOne(A)
    BY <1>4 DEF AtMostOne, ActiveRows
  <2>3. CASE table.active = {}
    <3>1. table' = [table EXCEPT !.active = A] /\ disk' = disk
          /\ call' = [call EXCEPT ![c] = WithNext(c)]
      BY <1>20, <2>3 DEF InsertActive, Writes
    <3> QED BY <1>10, <1>18, <2>1, <2>2, <3>1
               DEF Does, WritesRows, WritesSteps, WritesRest, ReadsRows, Silent
  <2>4. CASE table.active # {}
    <3>1. table' = table /\ disk' = disk /\ call' = [call EXCEPT ![c] = Ended(c, "refused")]
      BY <1>20, <2>4 DEF InsertActive, Refused
    <3>2. Silent(c) /\ call'[c].state = "refused"
      BY <1>1, <3>1, SilentOK
    <3>3. Does(c)
      BY <2>1, <3>1, <3>2 DEF Does, WritesRows, WritesSteps, WritesRest, ReadsRows, Silent
    <3>4. Tabled'
      BY <1>3, <1>5, <3>1 DEF Tabled, Known
    <3> QED BY <3>3, <3>4
  <2> QED BY <2>3, <2>4
<1>21. CASE MoveActive(c)
  <2> DEFINE A == {[r EXCEPT !.at = c] : r \in table.active}
  <2>1. h.verb = "move_active"
    BY <1>21 DEF MoveActive, Runs
  <2>2. table' = [table EXCEPT !.active = A] /\ disk' = disk
        /\ call' = [call EXCEPT ![c] = WithNext(c)]
    BY <1>21 DEF MoveActive, Writes
  <2>3. A \in SUBSET ActiveRows /\ \A r \in A : r.at = c
    BY <1>4, <1>8 DEF ActiveRows
  <2>4. AtMostOne(A)
    BY <1>3 DEF AtMostOne
  <2> HIDE DEF A
  <2> QED BY <1>10, <1>18, <2>1, <2>2, <2>3, <2>4
             DEF Does, WritesRows, WritesSteps, WritesRest, ReadsRows, Silent
<1>22. CASE InsertTelemetry(c)
  <2>1. h.verb = "insert_telemetry"
    BY <1>22 DEF InsertTelemetry, Runs
  <2>2. table' = [table EXCEPT !.telemetry = table.telemetry \cup {c}] /\ disk' = disk
        /\ call' = [call EXCEPT ![c] = WithNext(c)]
    BY <1>22 DEF InsertTelemetry, Writes
  <2>3. /\ table' \in Tables /\ table'.rows = table.rows /\ table'.steps = table.steps
        /\ table'.prefs = table.prefs /\ table'.active = table.active
        /\ table'.telemetry = table.telemetry \cup {c}
    BY <1>3, <1>4, <1>8, <2>2, TableWith
  <2>4. Does(c)
    BY <1>10, <2>1, <2>2, <2>3 DEF Does, WritesRows, WritesSteps, WritesRest, ReadsRows, Silent
  <2>5. Tabled'
    BY <1>3, <1>5, <2>2, <2>3 DEF Tabled, Known
  <2> QED BY <2>4, <2>5
<1>23. CASE Commits(c)
  <2>1. h.verb = "commit"
    BY <1>23 DEF Commits, Runs
  <2>2. table' = table /\ disk' = table /\ call' = [call EXCEPT ![c] = WithNext(c)]
    BY <1>23 DEF Commits
  <2>3. Does(c)
    BY <1>10, <2>1, <2>2 DEF Does, WritesRows, WritesSteps, WritesRest, ReadsRows, Silent
  <2>4. Tabled'
    BY <1>3, <1>5, <2>2 DEF Tabled, Known
  <2> QED BY <2>3, <2>4
\* The reads.
<1>24. table' = table /\ disk' = disk => Tabled'
  BY <1>3, <1>5 DEF Tabled, Known
<1>25. /\ WithNext(c) \in CallType /\ k.answer = WithNext(c).answer
       /\ WithNext(c).state \in {k.answer, "running"}
       /\ WithNext(c).row = k.row /\ WithNext(c).got = k.got
       /\ k.op # "delete" => k.answer = "done"
  BY <1>1, GoesOn DEF Onward
<1>26. call \in Seq(CallType) /\ \A k2 : call' = [call EXCEPT ![c] = k2] => call'[c] = k2
  <2>1. call \in Seq(CallType)
    BY DEF Base, Calling
  <2>2. call \in [1 .. Len(call) -> CallType] /\ c \in 1 .. Len(call)
    BY <2>1, LenProperties
  <2> QED BY <2>1, <2>2
<1>27. CASE SelectProgram(c)
  <2>1. h.verb = "select_program" /\ k.op # "delete"
    BY <1>2, <1>27, Whose DEF SelectProgram, Runs
  <2>2. table' = table /\ disk' = disk
    BY <1>27 DEF SelectProgram
  <2>3. CASE q \in DOMAIN table.rows
    <3>1. call'[c] = [WithNext(c) EXCEPT !.row = table.rows[q]]
      BY <1>26, <1>27, <2>3 DEF SelectProgram
    <3>2. /\ call'[c].row = table.rows[q] /\ call'[c].got = k.got
          /\ call'[c].state = WithNext(c).state /\ call'[c].answer = k.answer
      BY <1>25, <3>1 DEF CallType
    <3>3. call'[c].state # "missing"
      BY <1>25, <2>1, <3>2 DEF Onward
    <3>4. Does(c)
      BY <1>25, <2>1, <2>2, <2>3, <3>2, <3>3
         DEF Does, WritesRows, WritesSteps, WritesRest, ReadsRows
    <3> QED BY <1>24, <2>2, <3>4
  <2>4. CASE q \notin DOMAIN table.rows
    <3>1. call'[c] = Ended(c, "missing")
      BY <1>26, <1>27, <2>4 DEF SelectProgram
    <3>2. /\ call'[c].got = k.got /\ call'[c].state = "missing" /\ call'[c].answer = k.answer
      BY <1>2, <3>1 DEF CallType, Ended
    <3>3. Does(c)
      BY <1>25, <2>1, <2>2, <2>4, <3>2
         DEF Does, WritesRows, WritesSteps, WritesRest, ReadsRows
    <3> QED BY <1>24, <2>2, <3>3
  <2> QED BY <2>3, <2>4
<1>28. CASE SelectSteps(c)
  <2>1. h.verb = "select_steps" /\ k.op # "delete"
    BY <1>2, <1>28, Whose DEF SelectSteps, Runs
  <2>2. table' = table /\ disk' = disk
        /\ call'[c] = [WithNext(c) EXCEPT !.got = StepsIn(table, q)]
    BY <1>26, <1>28 DEF SelectSteps, StepsIn
  <2>3. /\ call'[c].got = StepsIn(table, q) /\ call'[c].row = k.row
        /\ call'[c].state = WithNext(c).state /\ call'[c].answer = k.answer
    BY <1>25, <2>2 DEF CallType
  <2>4. Does(c)
    BY <1>25, <2>1, <2>2, <2>3 DEF Does, WritesRows, WritesSteps, WritesRest, ReadsRows
  <2> QED BY <1>24, <2>2, <2>4
<1> QED BY <1>11, <1>12, <1>13, <1>14, <1>15, <1>16, <1>17, <1>19, <1>20, <1>21, <1>22, <1>23,
           <1>27, <1>28 DEF Statement

-----------------------------------------------------------------------------
\* A new call, and a crash.
Adds(k) ==
  LET n == Len(call) + 1
  IN  /\ call' \in Seq(CallType) /\ Len(call') = n /\ Len(call') =< MaxCalls
      /\ DOMAIN call' = DOMAIN call \cup {n} /\ n \notin DOMAIN call /\ call'[n] = k
      /\ \A d \in DOMAIN call : call'[d] = call[d]

LEMMA AddedIs ==
  ASSUME Base, NEW k, Added(k)
  PROVE  Adds(k)
<1>1. call \in Seq(CallType) /\ k \in CallType /\ Len(call) < MaxCalls
  BY DEF Base, Calling, Added, CallOK
<1>2. call' = Append(call, k)
  BY DEF Added
<1>3. /\ call' \in Seq(CallType) /\ Len(call') = Len(call) + 1 /\ Len(call) \in Nat
      /\ \A i \in 1 .. Len(call) : call'[i] = call[i]
      /\ call'[Len(call) + 1] = k
  BY <1>1, <1>2, EnqueueAdds
<1>4. DOMAIN call = 1 .. Len(call) /\ DOMAIN call' = 1 .. Len(call')
  BY <1>1, <1>3, LenProperties
<1> QED BY <1>1, <1>3, <1>4, StoreAssumption DEF Adds

Dies ==
  /\ call' \in Seq(CallType) /\ Len(call') = Len(call) /\ DOMAIN call' = DOMAIN call
  /\ \A c \in DOMAIN call :
       /\ Same(call'[c], call[c]) /\ CallOK(call[c]) /\ CallOK(call'[c])
       /\ ~Running(c) => call'[c] = call[c] /\ Rest(call[c]) = {}
       /\ Running(c) => call'[c].state = "killed" /\ call'[c].todo = <<>>
       /\ Rest(call'[c]) = {} /\ ~AtFirst(call'[c])

LEMMA UpdatesNotEmpty ==
  ASSUME NEW k, CallOK(k), k.op = "update"
  PROVE  Updates(k.fields, k.steps) # <<>>
         /\ Head(Updates(k.fields, k.steps)) = Stmt("select_program", 0)
         /\ Updates(k.fields, k.steps) \in Seq(Statements)
         /\ Entries(Updates(k.fields, k.steps))
              = Reads \cup Setting(k.fields) \cup Deleting(k.steps) \cup {Finish}
<1>1. k.fields \in SUBSET Columns /\ k.steps \in 0 .. Null
  BY DEF CallOK, CallType, Asks
<1> QED BY <1>1, UpdatesOK DEF Lists

LEMMA CrashIs ==
  ASSUME Base, Crashes
  PROVE  Dies
<1>1. call \in Seq(CallType) /\ \A c \in DOMAIN call : CallOK(call[c]) /\ call[c] \in CallType
  BY DEF Base, Calling, CallOK
<1>2. DOMAIN call = 1 .. Len(call) /\ Len(call) \in Nat
  BY <1>1, LenProperties
<1>3. call' = [c \in DOMAIN call |-> IF Running(c) THEN Ended(c, "killed") ELSE call[c]]
  BY DEF Crashes
<1>4. \A c \in DOMAIN call : call'[c] = IF Running(c) THEN Ended(c, "killed") ELSE call[c]
  BY <1>3
<1>5. \A c \in DOMAIN call : Ended(c, "killed") \in CallType
  BY <1>1, EndedIs
<1>6. call' \in [1 .. Len(call) -> CallType]
  BY <1>1, <1>2, <1>3, <1>5
<1>7. call' \in Seq(CallType) /\ Len(call') = Len(call) /\ DOMAIN call' = DOMAIN call
  <2>1. call' \in Seq(CallType)
    BY <1>2, <1>6, SeqDef
  <2> QED BY <1>2, <1>6, <2>1, LenProperties
<1>8. ASSUME NEW c \in DOMAIN call
      PROVE  /\ Same(call'[c], call[c]) /\ CallOK(call[c]) /\ CallOK(call'[c])
             /\ ~Running(c) => call'[c] = call[c] /\ Rest(call[c]) = {}
             /\ Running(c) => call'[c].state = "killed" /\ call'[c].todo = <<>>
             /\ Rest(call'[c]) = {} /\ ~AtFirst(call'[c])
  <2>1. CASE Running(c)
    <3> DEFINE k2 == Ended(c, "killed")
    <3>1. /\ k2 \in CallType /\ Same(k2, call[c]) /\ k2.todo = <<>> /\ k2.state = "killed"
          /\ k2.answer = "missing" => k2.op = "delete"
      BY <1>1, EndedIs DEF CallOK, Same
    <3>2. CallOK(k2) /\ Rest(k2) = {} /\ ~AtFirst(k2)
      BY <1>1, <3>1, EndOK
    <3> QED BY <1>1, <1>4, <2>1, <3>1, <3>2
  <2>2. CASE ~Running(c)
    <3>1. call'[c] = call[c] /\ CallOK(call[c]) /\ call[c].todo = <<>>
      BY <1>1, <1>4, <2>2 DEF CallOK, Running
    <3>2. Rest(call[c]) = {}
      BY <3>1, Nothing DEF Rest
    <3>3. ~AtFirst(call[c])
      BY <3>1, UpdatesNotEmpty DEF AtFirst
    <3> QED BY <2>2, <3>1, <3>2, <3>3 DEF Same
  <2> QED BY <2>1, <2>2
<1> QED BY <1>7, <1>8 DEF Dies

-----------------------------------------------------------------------------
\* Base is an invariant.
LEMMA InitBase == StoreInit => Base
<1> SUFFICES ASSUME StoreInit  PROVE Base
  OBVIOUS
<1>1. call = <<>> /\ call \in Seq(CallType) /\ Len(call) = 0 /\ DOMAIN call = {}
  BY EmptySeq DEF StoreInit
<1>2. Calling /\ CreatedOnce
  BY <1>1, StoreAssumption DEF Calling, CreatedOnce
<1>3. Empty \in Tables
  <2>1. [p \in Stored |-> [f \in Columns |-> 0]] \in RowSets
    <3>1. [p \in Stored |-> [f \in Columns |-> 0]] \in [Stored -> Columned]
      BY StoreAssumption DEF Columned
    <3> QED BY <3>1, StoreAssumption, InRowSets
  <2>2. {StepRow(p, i, 0) : p \in Stored, i \in 0 .. 1} \in SUBSET StepRows
    BY StoreAssumption DEF StepRow, StepRows
  <2>3. [k \in Keys |-> 0] \in [Keys -> 0 .. MaxCalls]
    BY StoreAssumption
  <2> QED BY <2>1, <2>2, <2>3 DEF Empty, Tables
<1>4. Known(Empty) /\ AtMostOne(Empty.active)
  BY DEF Known, Empty, Used, StepRow, AtMostOne
<1>5. table = Empty /\ disk = Empty
  BY DEF StoreInit
<1> QED BY <1>2, <1>3, <1>4, <1>5 DEF Base, Tabled

LEMMA StatementBase ==
  ASSUME Base, NEW e \in DOMAIN call, Statement(e)
  PROVE  Base'
<1> DEFINE k == call[e]
           h == Head(call[e].todo)
<1>1. Moves(e) /\ Does(e) /\ Tabled'
  BY StatementMoves, StatementDoes
<1>2. Used' = Used
  <2>1. \A d \in DOMAIN call : Same(call'[d], call[d])
    BY <1>1 DEF Moves, Same
  <2> QED BY <1>1, <2>1, UsedKept DEF Moves
<1>3. Calling'
  <2>1. ASSUME NEW c \in DOMAIN call
        PROVE  /\ CallOK(call'[c])
               /\ \A d \in call'[c].before : d \in DOMAIN call /\ d # c /\ call'[d].state # "running"
    <3>1. CallOK(call'[c]) /\ call'[c].before = call[c].before
      BY <1>1 DEF Moves, Same, Base, Calling
    <3>2. \A d \in call[c].before : d \in DOMAIN call /\ d # c /\ ~Running(d)
      BY DEF Base, Calling
    <3>3. \A d \in call[c].before : call'[d] = call[d]
      BY <1>1, <3>2 DEF Moves
    <3> QED BY <3>1, <3>2, <3>3 DEF Running
  <2>2. call' \in Seq(CallType) /\ Len(call') =< MaxCalls /\ DOMAIN call' = DOMAIN call
    BY <1>1 DEF Moves, Base, Calling
  <2> QED BY <2>1, <2>2 DEF Calling, Running
<1>4. CreatedOnce'
  <2>1. \A c \in DOMAIN call : call'[c].op = call[c].op /\ call'[c].program = call[c].program
    BY <1>1 DEF Moves, Same
  <2>2. ASSUME NEW c \in DOMAIN call, call'[c].op = "update", call'[c].state = "running",
               ~AtFirst(call'[c])
        PROVE  call'[c].program \in Used
    <3>1. CASE c # e
      BY <1>1, <2>2, <3>1 DEF Moves, Base, CreatedOnce, Running
    <3>2. CASE c = e /\ AtFirst(k)
      <4>1. h.verb = "select_program"
        BY <1>1, <2>1, <2>2, <3>2, UpdatesNotEmpty DEF AtFirst, Moves, Stmt
      <4>2. k.program \in DOMAIN table.rows
        BY <1>1, <2>2, <3>2, <4>1 DEF Does, ReadsRows
      <4> QED BY <2>1, <3>2, <4>2 DEF Base, Tabled, Known
    <3>3. CASE c = e /\ ~AtFirst(k)
      BY <1>1, <2>1, <2>2, <3>3 DEF Moves, Base, CreatedOnce
    <3> QED BY <3>1, <3>2, <3>3
  <2>3. DOMAIN call' = DOMAIN call
    BY <1>1 DEF Moves
  <2> QED BY <1>2, <2>1, <2>2, <2>3 DEF Base, CreatedOnce, Running
<1> QED BY <1>1, <1>3, <1>4 DEF Base

LEMMA AddBase ==
  ASSUME Base, NEW k, Added(k)
  PROVE  Base' /\ Used \subseteq Used'
<1> DEFINE n == Len(call) + 1
<1>1. Adds(k)
  BY AddedIs
<1>2. DOMAIN call' = DOMAIN call \cup {n} /\ n \notin DOMAIN call /\ call'[n] = k
      /\ \A d \in DOMAIN call : call'[d] = call[d]
  BY <1>1 DEF Adds
<1> HIDE DEF n
<1>3. /\ CallOK(k) /\ k.state = "running" /\ k.before = DOMAIN call \ Busy
      /\ k.op = "update" => AtFirst(k)
      /\ k.op = "create" => k.program \notin Used
      /\ UNCHANGED <<table, disk>>
  BY DEF Added
<1>4. Used \subseteq Used'
  BY <1>2 DEF Used
<1>5. Calling'
  <2>1. ASSUME NEW c \in DOMAIN call'
        PROVE  /\ CallOK(call'[c])
               /\ \A d \in call'[c].before : d \in DOMAIN call' /\ d # c /\ call'[d].state # "running"
    <3>1. CASE c = n
      BY <1>2, <1>3, <3>1 DEF Busy, Running
    <3>2. CASE c \in DOMAIN call
      BY <1>2, <3>2 DEF Base, Calling, Running
    <3> QED BY <1>2, <3>1, <3>2
  <2>2. call' \in Seq(CallType) /\ Len(call') =< MaxCalls
    BY <1>1 DEF Adds
  <2> QED BY <2>1, <2>2 DEF Calling, Running
<1>6. Tabled'
  BY <1>3, <1>4 DEF Base, Tabled, Known
<1>7. CreatedOnce'
  <2> SUFFICES ASSUME NEW c \in DOMAIN call', NEW d \in DOMAIN call'
               PROVE  /\ call'[c].op = "create" => call'[c].program \notin Stored
                      /\ call'[c].op = "create" /\ call'[d].op = "create" /\ c # d
                           => call'[c].program # call'[d].program
                      /\ call'[c].op = "update" /\ call'[c].state = "running"
                         /\ ~AtFirst(call'[c]) => call'[c].program \in Used'
    BY DEF CreatedOnce, Running
  <2>1. \A x \in DOMAIN call : call[x].op = "create" => call[x].program \in Used
    BY DEF Used
  <2>2. Stored \subseteq Used
    BY DEF Used
  <2>3. CASE c \in DOMAIN call /\ d \in DOMAIN call
    BY <1>2, <1>4, <2>3 DEF Base, CreatedOnce, Running
  <2>4. CASE c = n
    BY <1>2, <1>3, <2>1, <2>2, <2>4
  <2>5. CASE c \in DOMAIN call /\ d = n
    <3>1. /\ call[c].op = "create" => call[c].program \notin Stored
          /\ call[c].op = "update" /\ call[c].state = "running" /\ ~AtFirst(call[c])
               => call[c].program \in Used
      BY <2>5 DEF Base, CreatedOnce, Running
    <3> QED BY <1>2, <1>3, <1>4, <2>1, <2>5, <3>1
  <2> QED BY <1>2, <2>3, <2>4, <2>5
<1> QED BY <1>4, <1>5, <1>6, <1>7 DEF Base

LEMMA CrashBase ==
  ASSUME Base, Crashes
  PROVE  Base' /\ Used' = Used
<1>1. Dies
  BY CrashIs
<1>2. table' = disk /\ disk' = disk
  BY DEF Crashes
<1>3. DOMAIN call' = DOMAIN call /\ \A c \in DOMAIN call : Same(call'[c], call[c])
  BY <1>1 DEF Dies
<1>4. Used' = Used
  BY <1>3, UsedKept
<1>5. \A c \in DOMAIN call : call'[c].state # "running" /\ CallOK(call'[c])
  BY <1>1 DEF Dies, Running
<1>6. Calling'
  <2>1. call' \in Seq(CallType) /\ Len(call') =< MaxCalls
    BY <1>1 DEF Dies, Base, Calling
  <2>2. \A c \in DOMAIN call : \A d \in call'[c].before : d \in DOMAIN call /\ d # c
    BY <1>3 DEF Same, Base, Calling
  <2> QED BY <1>3, <1>5, <2>1, <2>2 DEF Calling, Running
<1>7. Tabled'
  BY <1>2, <1>4 DEF Base, Tabled, Known
<1>8. CreatedOnce'
  BY <1>3, <1>5 DEF Base, CreatedOnce, Same, Running
<1> QED BY <1>4, <1>6, <1>7, <1>8 DEF Base

LEMMA Steps ==
  ASSUME Base, [StoreNext]_vars
  PROVE  \/ \E k : Added(k)
         \/ \E e \in DOMAIN call : Statement(e)
         \/ Crashes
         \/ UNCHANGED vars
  BY CallsAdd DEF StoreNext

LEMMA BaseStep == Base /\ [StoreNext]_vars => Base'
<1> SUFFICES ASSUME Base, [StoreNext]_vars  PROVE Base'
  OBVIOUS
<1>1. CASE UNCHANGED vars
  BY <1>1 DEF vars, Base, Calling, Tabled, CreatedOnce, Known, Used, Running
<1> QED BY <1>1, Steps, AddBase, StatementBase, CrashBase

-----------------------------------------------------------------------------
(***************************************************************************)
(* A deleted program stays deleted, and one that nobody deletes stays.     *)
(***************************************************************************)
\* The statements of a call that is no longer left do not come back.
LEMMA RestShrinks ==
  ASSUME NEW e, Moves(e)
  PROVE  \A c \in DOMAIN call : Rest(call'[c]) \subseteq Rest(call[c])
<1>1. Onward(call'[e], call[e]) => Rest(call'[e]) \subseteq Rest(call[e])
  BY Heads
<1>2. Stopped(call'[e]) => Rest(call'[e]) = {}
  BY Nothing DEF Stopped, Rest
<1>3. Rest(call'[e]) \subseteq Rest(call[e])
  BY <1>1, <1>2 DEF Moves
<1> QED BY <1>3 DEF Moves

LEMMA PendingShrinks ==
  ASSUME NEW e, Moves(e), NEW p, Pending(p)'
  PROVE  Pending(p)
<1>1. \A c \in DOMAIN call : /\ Rest(call'[c]) \subseteq Rest(call[c])
                             /\ call'[c].op = call[c].op /\ call'[c].program = call[c].program
  BY RestShrinks DEF Moves, Same
<1> QED BY <1>1 DEF Pending, Moves

\* Where there is a row nobody will insert it.
NoneAwaited == \A p \in DOMAIN table.rows \cup DOMAIN disk.rows : ~Pending(p)

LEMMA AwaitedStatement ==
  ASSUME Base, NoneAwaited, NEW e \in DOMAIN call, Statement(e)
  PROVE  NoneAwaited'
<1> DEFINE k == call[e]
           h == Head(call[e].todo)
<1>1. Moves(e) /\ Does(e) /\ Belongs(h, k) /\ h \in Rest(k)
  BY StatementMoves, StatementDoes, HeadOK DEF Moves
<1>2. ASSUME NEW p \in DOMAIN table'.rows, Pending(p)'
      PROVE  FALSE
  <2>1. Pending(p) /\ p \notin DOMAIN table.rows
    BY <1>1, <1>2, PendingShrinks DEF NoneAwaited
  <2>2. h.verb = "insert_program" /\ p = k.program
    BY <1>1, <2>1 DEF Does, WritesRows
  <2>3. h = Stmt("insert_program", 0) /\ k.op = "create" /\ h.verb \notin Reading
    BY <1>1, <2>2, Whose DEF Reading
  <2>4. PICK c \in DOMAIN call : /\ call'[c].op = "create" /\ call'[c].program = p
                                 /\ Stmt("insert_program", 0) \in Rest(call'[c])
    BY <1>1, <1>2 DEF Pending, Moves
  <2>5. c = e
    BY <1>1, <2>2, <2>3, <2>4 DEF Base, CreatedOnce, Moves
  <2>6. Rest(call'[e]) # {}
    BY <2>4, <2>5
  <2>7. Onward(call'[e], k)
    BY <1>1, <2>6, Nothing DEF Moves, Stopped, Rest
  <2> QED BY <1>1, <2>3, <2>4, <2>5, <2>7, Heads
<1>3. ASSUME NEW p \in DOMAIN disk'.rows, Pending(p)'
      PROVE  FALSE
  <2>1. disk' = table \/ disk' = disk
    BY <1>1 DEF Does, WritesRest
  <2> QED BY <1>1, <1>3, <2>1, PendingShrinks DEF NoneAwaited
<1> QED BY <1>2, <1>3 DEF NoneAwaited

LEMMA DeletedStatement ==
  ASSUME Base, Deleted, NEW e \in DOMAIN call, Statement(e)
  PROVE  Deleted'
<1> DEFINE k == call[e]
           h == Head(call[e].todo)
           D == Stmt("delete_program", 0)
<1>1. Moves(e) /\ Does(e) /\ Belongs(h, k) /\ h \in Rest(k)
  BY StatementMoves, StatementDoes, HeadOK DEF Moves
<1>2. NoneAwaited /\ NoneAwaited'
  BY AwaitedStatement DEF Deleted, NoneAwaited
<1>3. Used' = Used
  <2>1. \A d \in DOMAIN call : Same(call'[d], call[d])
    BY <1>1 DEF Moves, Same
  <2> QED BY <1>1, <2>1, UsedKept DEF Moves
<1>4. ASSUME NEW p, Gone(p)
      PROVE  Gone(p)'
  <2>1. ~Pending(p)'
    BY <1>1, <1>4, PendingShrinks DEF Gone
  <2>2. h.verb = "insert_program" => Pending(k.program)
    BY <1>1, Whose DEF Pending
  <2>3. p \notin DOMAIN table'.rows
    BY <1>1, <1>4, <2>2 DEF Does, WritesRows, Gone
  <2> QED BY <1>3, <1>4, <2>1, <2>3 DEF Gone
<1>5. ASSUME NEW p \in Programs \cup {None}, NEW c \in DOMAIN call, call'[c].op = "delete",
             call'[c].program = p, Live(call'[c]), call'[c].answer = "done", D \notin Rest(call'[c])
      PROVE  Gone(p)' /\ (Committed(call'[c]) => p \notin DOMAIN disk'.rows)
  <2>1. call[c].op = "delete" /\ call[c].program = p
    BY <1>1, <1>5 DEF Moves, Same
  <2>2. ASSUME Live(call[c]), call[c].answer = "done", D \notin Rest(call[c]),
               Committed(call'[c]) => Committed(call[c]) \/ h.verb = "commit"
        PROVE  Gone(p)' /\ (Committed(call'[c]) => p \notin DOMAIN disk'.rows)
    <3>1. Gone(p) /\ (Committed(call[c]) => p \notin DOMAIN disk.rows)
      BY <2>1, <2>2 DEF Deleted
    <3>2. disk' = table \/ (disk' = disk /\ h.verb # "commit")
      BY <1>1 DEF Does, WritesRest
    <3> QED BY <1>4, <2>2, <3>1, <3>2 DEF Gone
  <2>3. CASE c # e
    <3>1. call'[c] = call[c]
      BY <1>1, <2>3 DEF Moves
    <3> QED BY <1>5, <2>2, <3>1
  <2>4. CASE c = e /\ D \notin Rest(k)
    <3>1. Onward(call'[e], k)
      BY <1>1, <1>5, <2>4 DEF Moves, Stopped, Live
    <3>2. Committed(call'[e]) => Committed(k) \/ h.verb = "commit"
      BY <1>1, <3>1, Heads DEF Committed, Finish, Stmt
    <3>3. Live(k) /\ k.answer = "done"
      BY <1>1, <1>5, <2>4 DEF Live, Moves, Running, Does, ReadsRows, CallOK, CallType
    <3> QED BY <2>2, <2>4, <3>2, <3>3
  <2>5. CASE c = e /\ D \in Rest(k)
    <3>1. Onward(call'[e], k)
      BY <1>1, <1>5, <2>5 DEF Moves, Stopped, Live
    <3>2. h = D /\ h.verb = "delete_program"
      BY <1>1, <1>5, <2>5, <3>1, Heads DEF Stmt
    <3>3. p \in DOMAIN table.rows /\ p \notin DOMAIN table'.rows
      BY <1>1, <1>5, <2>1, <2>5, <3>2 DEF Does, WritesRows
    <3>4. p \in Used /\ ~Pending(p)
      BY <1>2, <3>3 DEF Base, Tabled, Known, NoneAwaited
    <3>5. ~Pending(p)'
      BY <1>1, <3>4, PendingShrinks
    <3>6. Finish \in Rest(call'[e])
      <4>1. Belongs(Finish, k)
        BY <2>1, <2>5 DEF Belongs
      <4>2. /\ h.verb \notin Reading /\ Finish.verb \notin Reading
            /\ Rank(h.verb) < Rank(Finish.verb) /\ Finish # h
        BY <3>2 DEF Stmt, Finish, Reading, Rank
      <4>3. Finish \in Rest(k)
        BY <1>1, <4>1, <4>2 DEF Moves, CallOK, Closed
      <4> QED BY <1>1, <3>1, <4>2, <4>3, Heads
    <3> QED BY <1>3, <2>5, <3>3, <3>4, <3>5, <3>6 DEF Gone, Committed
  <2> QED BY <2>3, <2>4, <2>5
<1> HIDE DEF k, h
<1> QED BY <1>1, <1>2, <1>5 DEF Deleted, NoneAwaited, Moves

LEMMA DeletedAdd ==
  ASSUME Base, Deleted, NEW k, Added(k)
  PROVE  Deleted'
<1> DEFINE n == Len(call) + 1
<1>1. DOMAIN call' = DOMAIN call \cup {n} /\ n \notin DOMAIN call /\ call'[n] = k
      /\ \A d \in DOMAIN call : call'[d] = call[d]
  BY AddedIs DEF Adds
<1> HIDE DEF n
<1>2. /\ k.op = "create" => k.program \notin Used
      /\ \A x : Belongs(x, k) => x \in Rest(k)
      /\ UNCHANGED <<table, disk>>
  BY DEF Added
<1>3. Used \subseteq Used'
  BY AddBase
<1>4. ASSUME NEW p \in Used, Pending(p)'
      PROVE  Pending(p)
  BY <1>1, <1>2, <1>4 DEF Pending
<1>5. \A p \in DOMAIN table'.rows \cup DOMAIN disk'.rows : ~Pending(p)'
  BY <1>2, <1>4 DEF Deleted, Base, Tabled, Known
<1>6. ASSUME NEW p \in Programs \cup {None}, NEW c \in DOMAIN call', call'[c].op = "delete",
             call'[c].program = p, Live(call'[c]), call'[c].answer = "done",
             Stmt("delete_program", 0) \notin Rest(call'[c])
      PROVE  Gone(p)' /\ (Committed(call'[c]) => p \notin DOMAIN disk'.rows)
  <2>1. c # n
    <3>1. k.op = "delete" => Belongs(Stmt("delete_program", 0), k)
      BY DEF Belongs
    <3> QED BY <1>1, <1>2, <1>6, <3>1
  <2>2. c \in DOMAIN call /\ call'[c] = call[c]
    BY <1>1, <2>1
  <2>3. Gone(p) /\ (Committed(call[c]) => p \notin DOMAIN disk.rows)
    BY <1>6, <2>2 DEF Deleted
  <2> QED BY <1>2, <1>3, <1>4, <2>2, <2>3 DEF Gone
<1> QED BY <1>5, <1>6 DEF Deleted

LEMMA DeletedCrash ==
  ASSUME Base, Deleted, Crashes
  PROVE  Deleted'
<1>1. Dies /\ table' = disk /\ disk' = disk /\ Used' = Used
  BY CrashIs, CrashBase DEF Crashes
<1>2. \A p : ~Pending(p)'
  BY <1>1 DEF Pending, Dies
<1>3. ASSUME NEW p \in Programs \cup {None}, NEW c \in DOMAIN call, call'[c].op = "delete",
             call'[c].program = p, Live(call'[c]), call'[c].answer = "done"
      PROVE  Gone(p)' /\ p \notin DOMAIN disk'.rows
  <2>1. ~Running(c) /\ call'[c] = call[c] /\ Rest(call[c]) = {}
    BY <1>1, <1>3 DEF Dies, Live
  <2>2. Gone(p) /\ p \notin DOMAIN disk.rows
    BY <1>3, <2>1 DEF Deleted, Committed
  <2> QED BY <1>1, <1>2, <2>2 DEF Gone
<1>4. DOMAIN call' = DOMAIN call
  BY <1>1 DEF Dies
<1> QED BY <1>2, <1>3, <1>4 DEF Deleted

LEMMA StayStatement ==
  ASSUME Base, RowStays, NEW e \in DOMAIN call, Statement(e)
  PROVE  RowStays'
<1> DEFINE k == call[e]
           h == Head(call[e].todo)
           I == Stmt("insert_program", 0)
<1>1. Moves(e) /\ Does(e) /\ Belongs(h, k) /\ h \in Rest(k)
  BY StatementMoves, StatementDoes, HeadOK DEF Moves
<1> SUFFICES ASSUME NEW p \in Programs, Undeleted(p)', NEW c \in DOMAIN call,
                    call'[c].state = "running", call'[c].op \in {"create", "update"},
                    call'[c].program = p, ~AtFirst(call'[c]), I \notin Rest(call'[c])
             PROVE  p \in DOMAIN table'.rows
  BY <1>1 DEF RowStays, Moves, Running
<1>2. call'[c].op = call[c].op /\ call[c].program = p
  BY <1>1 DEF Moves, Same
<1>3. Undeleted(p)
  <2>1. \A d \in DOMAIN call : call'[d].op = call[d].op /\ call'[d].program = call[d].program
    BY <1>1 DEF Moves, Same
  <2> QED BY <1>1, <2>1 DEF Undeleted, Moves
<1>4. p \in DOMAIN table.rows => p \in DOMAIN table'.rows
  <2>1. h.verb = "delete_program" => k.program # p
    BY <1>1, <1>3, Whose DEF Undeleted
  <2> QED BY <1>1, <2>1 DEF Does, WritesRows
<1>5. CASE c # e
  BY <1>1, <1>2, <1>3, <1>4, <1>5 DEF Moves, RowStays, Running
<1>6. CASE c = e
  <2>1. Onward(call'[e], k)
    BY <1>1, <1>6 DEF Moves, Stopped
  <2>2. CASE AtFirst(k)
    <3>1. h.verb = "select_program"
      BY <1>1, <2>2, UpdatesNotEmpty DEF AtFirst, Moves, Stmt
    <3> QED BY <1>1, <1>2, <1>4, <1>6, <3>1 DEF Does, ReadsRows
  <2>3. CASE I \in Rest(k)
    <3>1. h.verb = "insert_program"
      BY <1>1, <1>6, <2>1, <2>3, Heads DEF Stmt
    <3> QED BY <1>1, <1>2, <1>6, <3>1 DEF Does, WritesRows
  <2>4. CASE ~AtFirst(k) /\ I \notin Rest(k)
    BY <1>1, <1>2, <1>3, <1>4, <1>6, <2>4 DEF Moves, RowStays
  <2> QED BY <2>2, <2>3, <2>4
<1> QED BY <1>5, <1>6

LEMMA StayAdd ==
  ASSUME Base, RowStays, NEW k, Added(k)
  PROVE  RowStays'
<1> DEFINE n == Len(call) + 1
<1>1. DOMAIN call' = DOMAIN call \cup {n} /\ n \notin DOMAIN call /\ call'[n] = k
      /\ \A d \in DOMAIN call : call'[d] = call[d]
  BY AddedIs DEF Adds
<1> HIDE DEF n
<1>2. /\ k.op = "update" => AtFirst(k)
      /\ \A x : Belongs(x, k) => x \in Rest(k)
      /\ table' = table
  BY DEF Added
<1>3. k.op = "create" => Stmt("insert_program", 0) \in Rest(k)
  BY <1>2 DEF Belongs
<1>4. \A p : Undeleted(p)' => Undeleted(p)
  BY <1>1 DEF Undeleted
<1> QED BY <1>1, <1>2, <1>3, <1>4 DEF RowStays, Running

LEMMA StayCrash ==
  ASSUME Base, Crashes
  PROVE  RowStays'
  BY CrashIs DEF Dies, RowStays, Running

-----------------------------------------------------------------------------
(***************************************************************************)
(* What nobody else writes stays in the tables.                            *)
(***************************************************************************)
LEMMA AloneKept ==
  ASSUME DOMAIN call' = DOMAIN call, \A d \in DOMAIN call : Same(call'[d], call[d]),
         NEW c \in DOMAIN call
  PROVE  /\ LastAlone(c)' <=> LastAlone(c)
         /\ \A d \in DOMAIN call : Touches(c, d)' <=> Touches(c, d)
<1>1. \A d \in DOMAIN call : Touches(c, d)' <=> Touches(c, d)
  BY DEF Touches, Same
<1> QED BY <1>1 DEF LastAlone, Same

LEMMA AloneBefore ==
  ASSUME NEW k, Adds(k), NEW c \in DOMAIN call, LastAlone(c)'
  PROVE  LastAlone(c)
<1>1. \A d \in DOMAIN call : Touches(c, d)' <=> Touches(c, d)
  BY DEF Touches, Adds
<1> QED BY <1>1 DEF LastAlone, Adds

\* A statement of call e changes no rows that call d touches.
LEMMA Untouched ==
  ASSUME NEW d \in DOMAIN call, NEW e \in DOMAIN call, d # e, ~Touches(d, e),
         Moves(e), Does(e), CallOK(call[d]), Effect(table, call[d], d)
  PROVE  Effect(table', call[d], d)
<1> DEFINE j == call[d]
           k == call[e]
           h == Head(call[e].todo)
<1>1. CallOK(k) /\ Belongs(h, k) /\ Asks(k) /\ Asks(j)
  BY HeadOK DEF Moves, CallOK
<1>2. CASE j.op \in {"create", "update", "delete"}
  <2>1. h.verb \in {"insert_program", "set", "delete_program", "delete_steps", "insert_step"}
          => k.program # j.program
    BY <1>1, <1>2, Whose DEF Touches
  <2>2. /\ j.program \in DOMAIN table'.rows <=> j.program \in DOMAIN table.rows
        /\ j.program \in DOMAIN table.rows => table'.rows[j.program] = table.rows[j.program]
    BY <2>1 DEF Does, WritesRows
  <2>3. StepsIn(table', j.program) = StepsIn(table, j.program)
    <3>1. StepRow(k.program, h.arg, e).program = k.program
      BY DEF StepRow
    <3> QED BY <2>1, <3>1 DEF Does, WritesSteps, StepsIn
  <2> QED BY <1>2, <2>2, <2>3 DEF Effect
<1>3. CASE j.op = "prefer"
  <2>1. h.verb = "set_preference" => h.arg \notin j.fields
    BY <1>1, <1>3, Whose DEF Touches
  <2>2. \A f \in j.fields : table'.prefs[f] = table.prefs[f]
    BY <1>1, <1>3, <2>1 DEF Does, WritesRest, Asks
  <2> QED BY <1>3, <2>2 DEF Effect
<1>4. CASE j.op \in {"begin", "advance", "end"}
  <2>1. h.verb \notin {"delete_active", "insert_active", "move_active"}
    BY <1>1, <1>4, Whose DEF Touches
  <2>2. table'.active = table.active
    BY <2>1 DEF Does, WritesRest
  <2> QED BY <1>4, <2>2 DEF Effect
<1>5. CASE j.op \in {"log", "get"}
  <2>1. table.telemetry \subseteq table'.telemetry
    BY DEF Does, WritesRest
  <2> QED BY <1>5, <2>1 DEF Effect
<1>6. j.op \in Ops
  BY DEF CallOK, CallType
<1> QED BY <1>2, <1>3, <1>4, <1>5, <1>6 DEF Ops

\* What a call has inserted, after one more statement.
LEMMA InsertedNext ==
  ASSUME NEW c \in DOMAIN call, Moves(c), Onward(call'[c], call[c])
  PROVE  LET k == call[c]
             h == Head(k.todo)
         IN  /\ h.verb # "insert_step" => Inserted(call'[c], c) = Inserted(k, c)
             /\ h.verb = "insert_step" =>
                  Inserted(call'[c], c) = Inserted(k, c) \cup {StepRow(k.program, h.arg, c)}
<1> DEFINE k == call[c]
           h == Head(call[c].todo)
<1>1. Rest(k) = {h} \cup Rest(call'[c]) /\ (h.verb \notin Reading => h \notin Rest(call'[c]))
  BY Heads
<1>2. Same(call'[c], k) /\ Belongs(h, k)
  BY HeadOK DEF Moves
<1>3. CASE h.verb # "insert_step"
  <2>1. \A j : Stmt("insert_step", j) # h
    BY <1>3 DEF Stmt
  <2> QED BY <1>1, <1>2, <1>3, <2>1 DEF Inserted, Same
<1>4. CASE h.verb = "insert_step"
  <2>1. h = Stmt("insert_step", h.arg) /\ h.arg \in 0 .. k.steps - 1 /\ h.verb \notin Reading
    BY <1>2, <1>4, Whose DEF Reading
  <2>2. \A j : Stmt("insert_step", j) = h <=> j = h.arg
    BY <2>1 DEF Stmt
  <2>3. {j \in 0 .. k.steps - 1 : Stmt("insert_step", j) \notin Rest(call'[c])}
        = {j \in 0 .. k.steps - 1 : Stmt("insert_step", j) \notin Rest(k)} \cup {h.arg}
    BY <1>1, <2>1, <2>2
  <2> QED BY <1>2, <1>4, <2>3 DEF Inserted, Same
<1> QED BY <1>3, <1>4

\* With its rank left, all the statements of a call of later ranks are left.
LEMMA LeftBehind ==
  ASSUME NEW k, CallOK(k), NEW x \in Rest(k), NEW y, Belongs(y, k),
         x.verb \notin Reading, y.verb \notin Reading, Rank(x.verb) < Rank(y.verb)
  PROVE  y \in Rest(k)
  BY DEF CallOK, Closed

\* A call finds what its statement did.
LEMMA OwnEffect ==
  ASSUME Base, NEW c \in DOMAIN call, Moves(c), Does(c), Live(call'[c]),
         Effect(table, call[c], c)
  PROVE  Effect(table', call'[c], c)
<1> DEFINE k == call[c]
           k2 == call'[c]
           h == Head(call[c].todo)
           p == call[c].program
<1>1. /\ CallOK(k) /\ CallOK(k2) /\ k.op \in Ops /\ Belongs(h, k) /\ h \in Rest(k) /\ Asks(k)
      /\ k2.op = k.op /\ k2.program = p /\ k2.fields = k.fields /\ k2.steps = k.steps
      /\ ~AtFirst(k2) /\ k.todo # <<>>
  BY HeadOK DEF Moves, Same, CallOK, CallType
<1>2. Onward(k2, k)
  BY DEF Moves, Stopped, Live
<1>3. Rest(k) = {h} \cup Rest(k2) /\ (h.verb \notin Reading => h \notin Rest(k2))
  BY <1>2, Heads
<1>4. k2.state # "refused" /\ k2.state # "missing"
  BY DEF Live
<1>5. /\ h.verb # "insert_step" => Inserted(k2, c) = Inserted(k, c)
      /\ h.verb = "insert_step" => Inserted(k2, c) = Inserted(k, c) \cup {StepRow(p, h.arg, c)}
  BY <1>2, InsertedNext
<1>6. StepRow(p, h.arg, c).program = p
  BY DEF StepRow
\* The steps of a program whose steps are those the call has inserted.
<1>7. ASSUME StepsIn(table, p) = Inserted(k, c), h.verb # "delete_steps"
      PROVE  StepsIn(table', p) = Inserted(k2, c)
  BY <1>4, <1>5, <1>6, <1>7 DEF Does, WritesSteps, StepsIn
<1>8. CASE k.op = "create"
  <2>1. StepsIn(table', p) = Inserted(k2, c)
    <3>1. h.verb # "delete_steps"
      BY <1>1, <1>8, Whose
    <3> QED BY <1>7, <1>8, <3>1 DEF Effect
  <2>2. ASSUME Stmt("insert_program", 0) \notin Rest(k2)
        PROVE  p \in DOMAIN table'.rows /\ \A f \in k.fields : table'.rows[p][f] = c
    <3>1. k.fields \subseteq Columns
      BY <1>1, <1>8 DEF Asks
    <3>2. CASE h.verb = "insert_program"
      BY <3>1, <3>2 DEF Does, WritesRows
    <3>3. CASE h.verb # "insert_program"
      <4>1. Stmt("insert_program", 0) \notin Rest(k)
        BY <1>3, <2>2, <3>3 DEF Stmt
      <4>2. h.verb \notin {"insert_program", "set", "delete_program"}
        BY <1>1, <1>8, <3>3, Whose
      <4> QED BY <1>8, <4>1, <4>2 DEF Effect, Does, WritesRows
    <3> QED BY <3>2, <3>3
  <2> QED BY <1>1, <1>8, <2>1, <2>2 DEF Effect
<1>9. CASE k.op = "update"
  <2>1. k.fields \subseteq Columns /\ h.verb \notin {"insert_program", "delete_program"}
    BY <1>1, <1>9, Whose DEF Asks
  <2>2. CASE AtFirst(k)
    <3>1. h.verb = "select_program" /\ k.todo = Updates(k.fields, k.steps)
      BY <1>1, <1>9, <2>2, UpdatesNotEmpty DEF AtFirst, Stmt
    <3>2. p \in DOMAIN table.rows /\ table'.rows = table.rows
      BY <1>4, <3>1 DEF Does, ReadsRows, WritesRows
    <3>3. Rest(k) = Reads \cup Setting(k.fields) \cup Deleting(k.steps) \cup {Finish}
      BY <1>1, <1>9, <3>1, UpdatesNotEmpty DEF Rest
    <3>4. /\ \A f \in k.fields : Stmt("set", f) \in Rest(k2)
          /\ k.steps # Null => Stmt("delete_steps", 0) \in Rest(k2)
      BY <1>3, <3>1, <3>3 DEF Setting, Deleting, Stmt
    <3> QED BY <1>1, <1>9, <3>2, <3>4 DEF Effect
  <2>3. CASE ~AtFirst(k)
    <3>1. p \in DOMAIN table'.rows /\ p \in DOMAIN table.rows
      BY <1>9, <2>1, <2>3 DEF Effect, Does, WritesRows
    <3>2. ASSUME NEW f \in k.fields, Stmt("set", f) \notin Rest(k2)
          PROVE  table'.rows[p][f] = c
      <4>1. CASE h = Stmt("set", f)
        <5>1. h.verb = "set" /\ h.arg = f
          BY <4>1 DEF Stmt
        <5> QED BY <2>1, <3>1, <5>1 DEF Does, WritesRows
      <4>2. CASE h # Stmt("set", f)
        <5>1. table.rows[p][f] = c
          BY <1>3, <1>9, <2>3, <3>2, <4>2 DEF Effect
        <5>2. h.verb = "set" => h.arg # f
          BY <1>1, <4>2, Whose
        <5> QED BY <2>1, <3>1, <5>1, <5>2 DEF Does, WritesRows
      <4> QED BY <4>1, <4>2
    <3>3. ASSUME k.steps # Null, Stmt("delete_steps", 0) \notin Rest(k2)
          PROVE  StepsIn(table', p) = Inserted(k2, c)
      <4>1. CASE h.verb = "delete_steps"
        <5>1. StepsIn(table', p) = {}
          BY <4>1 DEF Does, WritesSteps, StepsIn
        <5>2. ASSUME NEW i \in 0 .. k.steps - 1
              PROVE  Stmt("insert_step", i) \in Rest(k2)
          <6>1. Belongs(Stmt("insert_step", i), k)
            BY <1>9, <3>3 DEF Belongs, Inserting
          <6>2. /\ Stmt("insert_step", i).verb \notin Reading /\ h.verb \notin Reading
                /\ Rank(h.verb) < Rank(Stmt("insert_step", i).verb)
                /\ Stmt("insert_step", i) # h
            BY <4>1 DEF Stmt, Reading, Rank
          <6>3. Stmt("insert_step", i) \in Rest(k)
            BY <1>1, <6>1, <6>2, LeftBehind
          <6> QED BY <1>3, <6>2, <6>3
        <5>3. Inserted(k2, c) = {}
          BY <1>1, <5>2 DEF Inserted
        <5> QED BY <5>1, <5>3
      <4>2. CASE h.verb # "delete_steps"
        <5>1. Stmt("delete_steps", 0) \notin Rest(k)
          BY <1>3, <3>3, <4>2 DEF Stmt
        <5> QED BY <1>7, <1>9, <2>3, <3>3, <4>2, <5>1 DEF Effect
      <4> QED BY <4>1, <4>2
    <3> QED BY <1>1, <1>9, <3>1, <3>2, <3>3 DEF Effect
  <2> QED BY <2>2, <2>3
<1>10. CASE k.op = "delete"
  <2>1. h.verb \notin {"insert_program", "set"}
    BY <1>1, <1>10, Whose
  <2>2. ASSUME Stmt("delete_program", 0) \notin Rest(k2)
        PROVE  p \notin DOMAIN table'.rows
    <3>1. CASE h.verb = "delete_program"
      BY <3>1 DEF Does, WritesRows
    <3>2. CASE h.verb # "delete_program"
      <4>1. Stmt("delete_program", 0) \notin Rest(k)
        BY <1>3, <2>2, <3>2 DEF Stmt
      <4> QED BY <1>10, <2>1, <3>2, <4>1 DEF Effect, Does, WritesRows
    <3> QED BY <3>1, <3>2
  <2> QED BY <1>1, <1>10, <2>2 DEF Effect
<1>11. CASE k.op = "prefer"
  <2>1. ASSUME NEW f \in k.fields, Stmt("set_preference", f) \notin Rest(k2)
        PROVE  table'.prefs[f] = c
    <3>1. f \in Keys
      BY <1>1, <1>11 DEF Asks
    <3>2. CASE h = Stmt("set_preference", f)
      <4>1. h.verb = "set_preference" /\ h.arg = f
        BY <3>2 DEF Stmt
      <4> QED BY <3>1, <4>1 DEF Does, WritesRest
    <3>3. CASE h # Stmt("set_preference", f)
      <4>1. table.prefs[f] = c
        BY <1>3, <1>11, <2>1, <3>3 DEF Effect
      <4>2. h.verb = "set_preference" => h.arg # f
        BY <1>1, <3>3, Whose
      <4> QED BY <3>1, <4>1, <4>2 DEF Does, WritesRest
    <3> QED BY <3>2, <3>3
  <2> QED BY <1>1, <1>11, <2>1 DEF Effect
<1>12. CASE k.op = "begin"
  <2>1. ASSUME Stmt("insert_active", 0) \notin Rest(k2)
        PROVE  table'.active = {[by |-> c, at |-> c]}
    <3>1. CASE h.verb = "insert_active"
      BY <1>4, <3>1 DEF Does, WritesRest
    <3>2. CASE h.verb # "insert_active"
      <4>1. Stmt("insert_active", 0) \notin Rest(k)
        BY <1>3, <2>1, <3>2 DEF Stmt
      <4>2. h.verb # "move_active"
        BY <1>1, <1>12, Whose
      <4>3. h.verb # "delete_active"
        <5>1. Belongs(Stmt("insert_active", 0), k)
          BY <1>12 DEF Belongs
        <5>2. h.verb = "delete_active" =>
                /\ h.verb \notin Reading /\ Stmt("insert_active", 0).verb \notin Reading
                /\ Rank(h.verb) < Rank(Stmt("insert_active", 0).verb)
          BY DEF Stmt, Reading, Rank
        <5> QED BY <1>1, <4>1, <5>1, <5>2, LeftBehind
      <4> QED BY <1>12, <3>2, <4>1, <4>2, <4>3 DEF Effect, Does, WritesRest
    <3> QED BY <3>1, <3>2
  <2> QED BY <1>1, <1>12, <2>1 DEF Effect
<1>13. CASE k.op = "advance"
  <2>1. ASSUME Stmt("move_active", 0) \notin Rest(k2)
        PROVE  \A r \in table'.active : r.at = c
    <3>1. CASE h.verb = "move_active"
      BY <3>1 DEF Does, WritesRest
    <3>2. CASE h.verb # "move_active"
      <4>1. Stmt("move_active", 0) \notin Rest(k)
        BY <1>3, <2>1, <3>2 DEF Stmt
      <4>2. h.verb \notin {"insert_active", "delete_active"}
        BY <1>1, <1>13, Whose
      <4> QED BY <1>13, <3>2, <4>1, <4>2 DEF Effect, Does, WritesRest
    <3> QED BY <3>1, <3>2
  <2> QED BY <1>1, <1>13, <2>1 DEF Effect
<1>14. CASE k.op = "end"
  <2>1. ASSUME Stmt("delete_active", 0) \notin Rest(k2)
        PROVE  table'.active = {}
    <3>1. CASE h.verb = "delete_active"
      BY <3>1 DEF Does, WritesRest
    <3>2. CASE h.verb # "delete_active"
      <4>1. Stmt("delete_active", 0) \notin Rest(k)
        BY <1>3, <2>1, <3>2 DEF Stmt
      <4>2. h.verb \notin {"insert_active", "move_active"}
        BY <1>1, <1>14, Whose
      <4> QED BY <1>14, <3>2, <4>1, <4>2 DEF Effect, Does, WritesRest
    <3> QED BY <3>1, <3>2
  <2> QED BY <1>1, <1>14, <2>1 DEF Effect
<1>15. CASE k.op = "log"
  <2>1. ASSUME Stmt("insert_telemetry", 0) \notin Rest(k2)
        PROVE  c \in table'.telemetry
    <3>1. CASE h.verb = "insert_telemetry"
      BY <3>1 DEF Does, WritesRest
    <3>2. CASE h.verb # "insert_telemetry"
      <4>1. Stmt("insert_telemetry", 0) \notin Rest(k)
        BY <1>3, <2>1, <3>2 DEF Stmt
      <4> QED BY <1>15, <3>2, <4>1 DEF Effect, Does, WritesRest
    <3> QED BY <3>1, <3>2
  <2> QED BY <1>1, <1>15, <2>1 DEF Effect
<1>16. CASE k.op = "get"
  BY <1>1, <1>16 DEF Effect
<1> QED BY <1>1, <1>8, <1>9, <1>10, <1>11, <1>12, <1>13, <1>14, <1>15, <1>16 DEF Ops

\* Behind its commit a call has only reads left.
LEMMA OnlyReads ==
  ASSUME NEW k, CallOK(k), Committed(k)
  PROVE  Rest(k) \subseteq Reads /\ ~AtFirst(k)
<1>1. ASSUME NEW x \in Rest(k)
      PROVE  x \in Reads
  <2>1. Belongs(x, k)
    BY DEF CallOK
  <2>2. x.verb # "commit"
    BY <1>1, <2>1, Whose DEF Committed
  <2>3. CASE x.verb \in Reading
    BY <2>1, <2>3, Whose DEF Reading, Reads
  <2>4. CASE x.verb \notin Reading
    <3>1. Belongs(Finish, k)
      BY <2>1, <2>4 DEF Belongs, Reads, Stmt, Reading
    <3>2. Finish.verb \notin Reading /\ Rank(x.verb) < Rank(Finish.verb)
      BY <2>2 DEF Finish, Stmt, Reading, Rank
    <3> QED BY <1>1, <2>4, <3>1, <3>2, LeftBehind DEF Committed
  <2> QED BY <2>3, <2>4
<1>2. ~AtFirst(k)
  BY UpdatesNotEmpty DEF AtFirst, Committed, Rest
<1> QED BY <1>1, <1>2

\* A read leaves the effect of a call as it is.
LEMMA EffectRest ==
  ASSUME NEW k, NEW k2, Same(k2, k), NEW h, h.verb \in Reading, Rest(k) = {h} \cup Rest(k2),
         ~AtFirst(k), NEW t, NEW c, Effect(t, k, c)
  PROVE  Effect(t, k2, c)
<1>1. \A x : x.verb \notin Reading => (x \in Rest(k) <=> x \in Rest(k2))
  OBVIOUS
<1>2. \A v, a : v \notin Reading => (Stmt(v, a) \in Rest(k) <=> Stmt(v, a) \in Rest(k2))
  BY <1>1 DEF Stmt
<1>3. \A a : /\ Stmt("insert_program", a) \in Rest(k) <=> Stmt("insert_program", a) \in Rest(k2)
             /\ Stmt("insert_step", a) \in Rest(k) <=> Stmt("insert_step", a) \in Rest(k2)
             /\ Stmt("set", a) \in Rest(k) <=> Stmt("set", a) \in Rest(k2)
             /\ Stmt("delete_steps", a) \in Rest(k) <=> Stmt("delete_steps", a) \in Rest(k2)
             /\ Stmt("delete_program", a) \in Rest(k) <=> Stmt("delete_program", a) \in Rest(k2)
             /\ Stmt("set_preference", a) \in Rest(k) <=> Stmt("set_preference", a) \in Rest(k2)
             /\ Stmt("insert_active", a) \in Rest(k) <=> Stmt("insert_active", a) \in Rest(k2)
             /\ Stmt("move_active", a) \in Rest(k) <=> Stmt("move_active", a) \in Rest(k2)
             /\ Stmt("delete_active", a) \in Rest(k) <=> Stmt("delete_active", a) \in Rest(k2)
             /\ Stmt("insert_telemetry", a) \in Rest(k) <=> Stmt("insert_telemetry", a) \in Rest(k2)
  BY <1>2 DEF Reading
<1>4. Inserted(k2, c) = Inserted(k, c)
  BY <1>3 DEF Inserted, Same
<1> QED BY <1>3, <1>4 DEF Effect, Same

\* The commit of a call leaves the table as it is.
LEMMA CommitsOnly ==
  ASSUME NEW e, Statement(e), Head(call[e].todo).verb = "commit"
  PROVE  table' = table /\ disk' = table
  BY DEF Statement, InsertProgram, SetColumn, DeleteSteps, InsertStep, RefuseStep, DeleteProgram,
         SetPreference, DeleteActive, InsertActive, MoveActive, InsertTelemetry, Commits,
         SelectProgram, SelectSteps, Runs

LEMMA InTablesStatement ==
  ASSUME Base, InTables, NEW e \in DOMAIN call, Statement(e)
  PROVE  InTables'
<1> DEFINE h == Head(call[e].todo)
<1>1. Moves(e) /\ Does(e)
  BY StatementMoves, StatementDoes
<1> SUFFICES ASSUME NEW c \in DOMAIN call, Live(call'[c]), LastAlone(c)'
             PROVE  /\ Effect(table', call'[c], c)
                    /\ Committed(call'[c]) => Effect(disk', call'[c], c)
  BY <1>1 DEF InTables, Moves
<1>2. LastAlone(c)
  <2>1. \A d \in DOMAIN call : Same(call'[d], call[d])
    BY <1>1 DEF Moves, Same
  <2> QED BY <1>1, <2>1, AloneKept DEF Moves
<1>3. Live(call[c])
  BY <1>1 DEF Moves, Live, Running
<1>4. Effect(table, call[c], c) /\ (Committed(call[c]) => Effect(disk, call[c], c))
  BY <1>2, <1>3 DEF InTables
<1>5. \/ h.verb = "commit" /\ table' = table /\ disk' = table
      \/ h.verb # "commit" /\ disk' = disk
  BY <1>1, CommitsOnly DEF Does, WritesRest
<1>6. CASE c # e
  <2>1. call'[c] = call[c]
    BY <1>1, <1>6 DEF Moves
  <2>2. e \notin call[c].before /\ CallOK(call[c])
    BY <1>1 DEF Base, Calling, Moves
  <2>3. Effect(table', call[c], c)
    BY <1>1, <1>2, <1>4, <1>6, <2>2, Untouched DEF LastAlone
  <2> QED BY <1>4, <1>5, <2>1, <2>3
<1>7. CASE c = e
  <2>1. Effect(table', call'[c], c)
    BY <1>1, <1>4, <1>7, OwnEffect
  <2>2. Onward(call'[c], call[c])
    BY <1>1, <1>7 DEF Moves, Stopped, Live
  <2>3. Rest(call[c]) = {h} \cup Rest(call'[c])
    BY <1>1, <1>7, <2>2, Heads
  <2>4. ASSUME Committed(call'[c]), h.verb # "commit"
        PROVE  Effect(disk, call'[c], c)
    <3>1. Committed(call[c])
      BY <2>3, <2>4 DEF Committed, Finish, Stmt
    <3>2. h.verb \in Reading /\ ~AtFirst(call[c])
      BY <1>1, <1>7, <2>3, <3>1, OnlyReads DEF Moves, Reads, Reading, Stmt
    <3>3. Same(call'[c], call[c])
      BY <1>1, <1>7 DEF Moves
    <3> QED BY <1>4, <2>3, <3>1, <3>2, <3>3, EffectRest
  <2> QED BY <1>5, <2>1, <2>4
<1> QED BY <1>6, <1>7

\* The number of a call is that of no step, if its program is not in use.
LEMMA EffectNew ==
  ASSUME Base, NEW k, NEW c, Added(k)
  PROVE  Effect(table, k, c) /\ (Committed(k) => Effect(disk, k, c))
<1>1. /\ CallOK(k) /\ k.op \in Ops /\ \A x : Belongs(x, k) => x \in Rest(k)
      /\ k.op = "update" => AtFirst(k)
      /\ k.op = "create" => k.program \notin Used /\ k.steps # Null
  BY DEF Added, CallOK, CallType, Asks
<1>2. Committed(k) => k.op = "get"
  BY <1>1 DEF Committed, Belongs
<1>3. k.op = "create" => StepsIn(table, k.program) = {} /\ Inserted(k, c) = {}
  <2>1. k.op = "create" => StepsIn(table, k.program) = {}
    BY <1>1 DEF Base, Tabled, Known, StepsIn
  <2>2. k.op = "create" => \A i \in 0 .. k.steps - 1 : Belongs(Stmt("insert_step", i), k)
    BY DEF Belongs, Inserting
  <2> QED BY <1>1, <2>1, <2>2 DEF Inserted
<1>4. /\ k.op = "create" => Stmt("insert_program", 0) \in Rest(k)
      /\ k.op = "delete" => Stmt("delete_program", 0) \in Rest(k)
      /\ k.op = "prefer" => \A f \in k.fields : Stmt("set_preference", f) \in Rest(k)
      /\ k.op = "begin" => Stmt("insert_active", 0) \in Rest(k)
      /\ k.op = "advance" => Stmt("move_active", 0) \in Rest(k)
      /\ k.op = "end" => Stmt("delete_active", 0) \in Rest(k)
      /\ k.op = "log" => Stmt("insert_telemetry", 0) \in Rest(k)
  BY <1>1 DEF Belongs
<1>5. Effect(table, k, c)
  BY <1>1, <1>3, <1>4 DEF Effect
<1>6. k.op = "get" => Effect(disk, k, c)
  BY DEF Effect
<1> QED BY <1>2, <1>5, <1>6

LEMMA InTablesAdd ==
  ASSUME Base, InTables, NEW k, Added(k)
  PROVE  InTables'
<1> DEFINE n == Len(call) + 1
<1>1. DOMAIN call' = DOMAIN call \cup {n} /\ n \notin DOMAIN call /\ call'[n] = k
      /\ (\A d \in DOMAIN call : call'[d] = call[d]) /\ Adds(k)
  BY AddedIs DEF Adds
<1> HIDE DEF n
<1>2. UNCHANGED <<table, disk>>
  BY DEF Added
<1>3. \A c \in DOMAIN call : LastAlone(c)' => LastAlone(c)
  BY <1>1, AloneBefore
<1>4. Effect(table, k, n) /\ (Committed(k) => Effect(disk, k, n))
  BY EffectNew
<1> QED BY <1>1, <1>2, <1>3, <1>4 DEF InTables

LEMMA InTablesCrash ==
  ASSUME Base, InTables, Crashes
  PROVE  InTables'
<1>1. Dies /\ table' = disk /\ disk' = disk
  BY CrashIs DEF Crashes
<1>2. \A c \in DOMAIN call : LastAlone(c)' <=> LastAlone(c)
  BY <1>1, AloneKept DEF Dies
<1>3. ASSUME NEW c \in DOMAIN call, Live(call'[c]), LastAlone(c)'
      PROVE  Effect(disk, call'[c], c)
  <2>1. ~Running(c) /\ call'[c] = call[c] /\ Rest(call[c]) = {}
    BY <1>1, <1>3 DEF Dies, Live
  <2> QED BY <1>2, <1>3, <2>1 DEF InTables, Committed
<1> QED BY <1>1, <1>3 DEF InTables, Dies

-----------------------------------------------------------------------------
(***************************************************************************)
(* Who reads after a commit reads what was committed.                      *)
(***************************************************************************)
\* Behind its commit a call has inserted all of its steps.
LEMMA AllInserted ==
  ASSUME NEW k, CallOK(k), Committed(k), NEW c
  PROVE  /\ Inserted(k, c) = {StepRow(k.program, i, c) : i \in 0 .. k.steps - 1}
         /\ Stmt("delete_steps", 0) \notin Rest(k)
<1>1. \A a : Stmt("insert_step", a) \notin Rest(k) /\ Stmt("delete_steps", a) \notin Rest(k)
  BY OnlyReads DEF Reads, Stmt
<1> QED BY <1>1 DEF Inserted

\* Behind its commit, all that a call writes of a program is in the table.
LEMMA AllThere ==
  ASSUME NEW k, CallOK(k), Committed(k), k.op \in {"create", "update"}, NEW c, Effect(table, k, c)
  PROVE  /\ k.program \in DOMAIN table.rows
         /\ \A f \in k.fields : table.rows[k.program][f] = c
         /\ k.steps # Null =>
              StepsIn(table, k.program) = {StepRow(k.program, i, c) : i \in 0 .. k.steps - 1}
<1>1. Rest(k) \subseteq Reads /\ ~AtFirst(k)
  BY OnlyReads
<1>2. \A v, a : v \notin Reading => Stmt(v, a) \notin Rest(k)
  BY <1>1 DEF Reads, Reading, Stmt
<1>3. Stmt("insert_program", 0) \notin Rest(k) /\ \A a : Stmt("set", a) \notin Rest(k)
  BY <1>2 DEF Reading
<1>4. /\ Inserted(k, c) = {StepRow(k.program, i, c) : i \in 0 .. k.steps - 1}
      /\ Stmt("delete_steps", 0) \notin Rest(k)
  BY AllInserted
<1> QED BY <1>1, <1>3, <1>4 DEF Effect

LEMMA ShowsSame ==
  ASSUME NEW j, NEW k, NEW k2, Same(k2, k), NEW c, Shows(j, k, c)
  PROVE  Shows(j, k2, c)
  BY DEF Shows, Same

LEMMA AnsweredStatement ==
  ASSUME Base, InTables, Answered, NEW e \in DOMAIN call, Statement(e)
  PROVE  Answered'
<1> DEFINE h == Head(call[e].todo)
<1>1. Moves(e) /\ Does(e) /\ Belongs(h, call[e])
  BY StatementMoves, StatementDoes, HeadOK DEF Moves
<1>2. \A d \in DOMAIN call : Same(call'[d], call[d])
  BY <1>1 DEF Moves, Same
<1> SUFFICES ASSUME NEW c \in DOMAIN call, NEW d \in DOMAIN call, Live(call'[c]),
                    call'[c].op \in {"create", "update"}, Committed(call'[c]), LastAlone(c)',
                    ReadsIt(c, d)', Live(call'[d])
             PROVE  Shows(call'[d], call'[c], c)
  BY <1>1 DEF Answered, Moves
<1>3. LastAlone(c) /\ ReadsIt(c, d)
  <2>1. LastAlone(c)
    BY <1>1, <1>2, AloneKept DEF Moves
  <2> QED BY <1>2, <2>1 DEF ReadsIt, Same
<1>4. /\ Live(call[c]) /\ Live(call[d]) /\ call[c].op \in {"create", "update"}
      /\ CallOK(call[c]) /\ Same(call'[c], call[c])
  BY <1>1, <1>2 DEF Moves, Live, Running, Same, Base, Calling
<1>5. ASSUME Live(call'[e])
      PROVE  /\ Onward(call'[e], call[e]) /\ Rest(call[e]) = {h} \cup Rest(call'[e])
             /\ h = Finish /\ call[e].op \in {"create", "update"} => Reads \subseteq Rest(call'[e])
  <2>1. Onward(call'[e], call[e])
    BY <1>1, <1>5 DEF Moves, Stopped, Live
  <2> QED BY <1>1, <2>1, Heads
<1>6. CASE ~Committed(call[c])
  <2>1. c = e
    BY <1>1, <1>6 DEF Moves
  <2>2. h = Finish /\ Reads \subseteq Rest(call'[e])
    BY <1>4, <1>5, <1>6, <2>1 DEF Committed
  <2>3. d = c
    BY <1>1, <1>3, <2>1 DEF ReadsIt, Moves, Base, Calling
  <2> QED BY <2>1, <2>2, <2>3 DEF Shows, Reads
<1>7. CASE Committed(call[c])
  <2>1. Shows(call[d], call[c], c)
    BY <1>3, <1>4, <1>7 DEF Answered
  <2>2. CASE d # e
    <3>1. call'[d] = call[d]
      BY <1>1, <2>2 DEF Moves
    <3> QED BY <1>4, <2>1, <3>1, ShowsSame
  <2>3. CASE d = e
    <3>1. call[e].program = call[c].program
      BY <1>3, <2>3 DEF ReadsIt
    <3>2. Effect(table, call[c], c)
      BY <1>3, <1>4 DEF InTables
    <3>3. /\ \A f \in call[c].fields : table.rows[call[c].program][f] = c
          /\ call[c].steps # Null => StepsIn(table, call[c].program)
               = {StepRow(call[c].program, i, c) : i \in 0 .. call[c].steps - 1}
      BY <1>4, <1>7, <3>2, AllThere
    <3>4. call'[e].state # "missing" /\ Rest(call[e]) = {h} \cup Rest(call'[e])
      BY <1>5, <2>3 DEF Live
    <3>5. ASSUME Stmt("select_program", 0) \notin Rest(call'[e])
          PROVE  \A f \in call[c].fields : call'[e].row[f] = c
      <4>1. CASE h.verb = "select_program"
        BY <1>1, <3>1, <3>3, <3>4, <4>1 DEF Does, ReadsRows
      <4>2. CASE h.verb # "select_program"
        <5>1. Stmt("select_program", 0) \notin Rest(call[e])
          BY <3>4, <3>5, <4>2 DEF Stmt
        <5> QED BY <1>1, <2>1, <2>3, <4>2, <5>1 DEF Shows, Does, ReadsRows
      <4> QED BY <4>1, <4>2
    <3>6. ASSUME Stmt("select_steps", 0) \notin Rest(call'[e]), call[c].steps # Null
          PROVE  call'[e].got = {StepRow(call[c].program, i, c) : i \in 0 .. call[c].steps - 1}
      <4>1. CASE h.verb = "select_steps"
        BY <1>1, <3>1, <3>3, <3>6, <4>1 DEF Does, ReadsRows
      <4>2. CASE h.verb # "select_steps"
        <5>1. Stmt("select_steps", 0) \notin Rest(call[e])
          BY <3>4, <3>6, <4>2 DEF Stmt
        <5> QED BY <1>1, <2>1, <2>3, <3>6, <4>2, <5>1 DEF Shows, Does, ReadsRows
      <4> QED BY <4>1, <4>2
    <3>7. Shows(call'[d], call[c], c)
      BY <2>3, <3>5, <3>6 DEF Shows
    <3> QED BY <1>4, <3>7, ShowsSame
  <2> QED BY <2>2, <2>3
<1> QED BY <1>6, <1>7

LEMMA AnsweredAdd ==
  ASSUME Base, Answered, NEW k, Added(k)
  PROVE  Answered'
<1> DEFINE n == Len(call) + 1
<1>1. DOMAIN call' = DOMAIN call \cup {n} /\ n \notin DOMAIN call /\ call'[n] = k
      /\ (\A d \in DOMAIN call : call'[d] = call[d]) /\ Adds(k)
  BY AddedIs DEF Adds
<1> HIDE DEF n
<1>2. \A x : Belongs(x, k) => x \in Rest(k)
  BY DEF Added
<1> SUFFICES ASSUME NEW c \in DOMAIN call', NEW d \in DOMAIN call', Live(call'[c]),
                    call'[c].op \in {"create", "update"}, Committed(call'[c]), LastAlone(c)',
                    ReadsIt(c, d)', Live(call'[d])
             PROVE  Shows(call'[d], call'[c], c)
  BY DEF Answered
<1>3. c \in DOMAIN call
  <2>1. k.op \in {"create", "update"} => Belongs(Finish, k)
    BY DEF Belongs
  <2> QED BY <1>1, <1>2, <2>1 DEF Committed
<1>4. CASE d = n
  <2>1. call'[n].op = "get"
    BY <1>1, <1>3, <1>4 DEF ReadsIt
  <2>2. Reads \subseteq Rest(k)
    BY <1>1, <1>2, <2>1 DEF Belongs
  <2> QED BY <1>1, <1>4, <2>2 DEF Shows, Reads
<1>5. CASE d \in DOMAIN call
  <2>1. LastAlone(c)
    BY <1>1, <1>3, AloneBefore
  <2>2. ReadsIt(c, d)
    BY <1>1, <1>3, <1>5 DEF ReadsIt
  <2> QED BY <1>1, <1>3, <1>5, <2>1, <2>2 DEF Answered
<1> QED BY <1>1, <1>4, <1>5

LEMMA AnsweredCrash ==
  ASSUME Base, Answered, Crashes
  PROVE  Answered'
<1>1. Dies
  BY CrashIs
<1>2. \A c \in DOMAIN call : LastAlone(c)' <=> LastAlone(c)
  BY <1>1, AloneKept DEF Dies
<1>3. \A c \in DOMAIN call : Live(call'[c]) => call'[c] = call[c]
  BY <1>1 DEF Dies, Live
<1>4. \A c, d \in DOMAIN call : ReadsIt(c, d)' => ReadsIt(c, d)
  BY <1>1 DEF Dies, ReadsIt, Same
<1> QED BY <1>1, <1>2, <1>3, <1>4 DEF Answered, Dies

-----------------------------------------------------------------------------
(***************************************************************************)
(* The steps of one request are there in full.                             *)
(***************************************************************************)
\* A call that has just emptied the steps has inserted none of its own.
LEMMA NoneInserted ==
  ASSUME NEW c, Moves(c), Onward(call'[c], call[c]), Head(call[c].todo).verb = "delete_steps"
  PROVE  Inserted(call'[c], c) = {} /\ Stmt("delete_steps", 0) \notin Rest(call'[c])
<1> DEFINE k == call[c]
           h == Head(call[c].todo)
<1>1. CallOK(k) /\ Belongs(h, k) /\ h \in Rest(k) /\ Same(call'[c], k)
  BY HeadOK DEF Moves
<1>2. h = Stmt("delete_steps", 0) /\ k.op = "update" /\ k.steps # Null /\ h.verb \notin Reading
  BY <1>1, Whose DEF Reading
<1>3. Rest(k) = {h} \cup Rest(call'[c]) /\ h \notin Rest(call'[c])
  BY <1>2, Heads
<1>4. ASSUME NEW i \in 0 .. k.steps - 1
      PROVE  Stmt("insert_step", i) \in Rest(call'[c])
  <2>1. Belongs(Stmt("insert_step", i), k)
    BY <1>2 DEF Belongs, Inserting
  <2>2. /\ Stmt("insert_step", i).verb \notin Reading
        /\ Rank(h.verb) < Rank(Stmt("insert_step", i).verb)
        /\ Stmt("insert_step", i) # h
    BY <1>2 DEF Stmt, Reading, Rank
  <2>3. Stmt("insert_step", i) \in Rest(k)
    BY <1>1, <1>2, <2>1, <2>2, LeftBehind
  <2> QED BY <1>3, <2>2, <2>3
<1> QED BY <1>1, <1>2, <1>3, <1>4 DEF Inserted, Same

\* A call that replaces the steps of p goes on to do so, if nobody deletes p.
LEMMA StillReplacing ==
  ASSUME Base, RowStays, NEW e \in DOMAIN call, Statement(e), NEW p \in Programs, Untroubled(p)'
  PROVE  /\ Untroubled(p)
         /\ \A c \in DOMAIN call : Replacing(c, p) => Replacing(c, p)'
         /\ \A c \in DOMAIN call : Replacing(c, p)' =>
              \/ Replacing(c, p)
              \/ c = e /\ AtFirst(call[e]) /\ call[e].steps # Null
<1> DEFINE h == Head(call[e].todo)
<1>1. /\ Moves(e) /\ Does(e) /\ Belongs(h, call[e]) /\ CallOK(call[e])
      /\ Same(call'[e], call[e]) /\ ~AtFirst(call'[e])
  BY StatementMoves, StatementDoes, HeadOK DEF Moves
<1>2. \A d \in DOMAIN call : call'[d].op = call[d].op /\ call'[d].program = call[d].program
  BY <1>1 DEF Moves, Same
<1>3. Undeleted(p)
  BY <1>1, <1>2 DEF Untroubled, Undeleted, Moves
<1>4. \A c \in DOMAIN call : c # e => call'[c] = call[c]
  BY <1>1 DEF Moves
<1>5. Replacing(e, p) => Replacing(e, p)'
  <2> SUFFICES ASSUME Replacing(e, p), call'[e].state = "missing"  PROVE FALSE
    BY <1>1 DEF Replacing, Same
  <2>1. h.verb = "select_program" /\ p \notin DOMAIN table.rows
    BY <1>1 DEF Does, ReadsRows, Replacing
  <2>2. Stmt("insert_program", 0) \notin Rest(call[e])
    BY <1>1, <2>1 DEF CallOK, Stmt
  <2> QED BY <1>1, <1>3, <2>1, <2>2 DEF RowStays, Moves, Replacing
<1>6. \A c \in DOMAIN call : Replacing(c, p) => Replacing(c, p)'
  BY <1>4, <1>5 DEF Replacing
<1>7. \A c \in DOMAIN call : Replacing(c, p) => Live(call[c])
  BY <1>1, <1>4, <1>6 DEF Untroubled, Live, Moves, Running
<1>8. Replacing(e, p)' => Replacing(e, p) \/ (AtFirst(call[e]) /\ call[e].steps # Null)
  BY <1>1 DEF Replacing, Same, Moves, Running
<1> QED BY <1>3, <1>4, <1>6, <1>7, <1>8 DEF Untroubled, Replacing

LEMMA WholeStatement ==
  ASSUME Base, RowStays, Whole, NEW e \in DOMAIN call, Statement(e)
  PROVE  Whole'
<1> DEFINE h == Head(call[e].todo)
           D == Stmt("delete_steps", 0)
<1>1. /\ Moves(e) /\ Does(e) /\ Belongs(h, call[e]) /\ CallOK(call[e])
      /\ Same(call'[e], call[e])
  BY StatementMoves, StatementDoes, HeadOK DEF Moves
<1> SUFFICES ASSUME NEW p \in Programs, Untroubled(p)'
             PROVE  LastEmptied(p)' /\ AllOnDisk(p)'
  BY DEF Whole
<1>2. /\ LastEmptied(p) /\ AllOnDisk(p)
      /\ \A c \in DOMAIN call : Replacing(c, p) => Replacing(c, p)'
      /\ \A c \in DOMAIN call : Replacing(c, p)' =>
           Replacing(c, p) \/ (c = e /\ AtFirst(call[e]) /\ call[e].steps # Null)
  BY StillReplacing DEF Whole
<1>3. \A c \in DOMAIN call' : Replacing(c, p)' => Live(call'[c])
  BY DEF Untroubled
<1>4. Replacing(e, p)' =>
        /\ Onward(call'[e], call[e]) /\ Rest(call[e]) = {h} \cup Rest(call'[e])
        /\ call'[e].state # "refused"
  <2>1. Replacing(e, p)' => Onward(call'[e], call[e]) /\ call'[e].state # "refused"
    BY <1>1, <1>3 DEF Moves, Stopped, Live
  <2> QED BY <1>1, <2>1, Heads
<1>5. AtFirst(call[e]) =>
        /\ Finish \in Rest(call[e])
        /\ call[e].steps # Null => D \in Rest(call[e])
        /\ h.verb = "select_program"
  BY <1>1, UpdatesNotEmpty DEF AtFirst, Rest, Deleting, Stmt
<1>6. DOMAIN call' = DOMAIN call /\ \A c \in DOMAIN call : c # e => call'[c] = call[c]
  BY <1>1 DEF Moves
<1>7. LastEmptied(p)'
  <2>1. CASE h.verb = "delete_steps" /\ call[e].program = p
    <3>1. call[e].op = "update" /\ call[e].steps # Null
      BY <1>1, <2>1, Whose
    <3>2. call'[e].state # "missing"
      BY <1>1, <2>1, <3>1 DEF Does, ReadsRows
    <3>3. Replacing(e, p)'
      BY <1>1, <2>1, <3>1, <3>2 DEF Replacing, Same, Moves
    <3>4. Inserted(call'[e], e) = {} /\ D \notin Rest(call'[e])
      BY <1>1, <1>4, <2>1, <3>3, NoneInserted
    <3> QED BY <1>6, <3>3, <3>4 DEF LastEmptied
  <2>2. CASE ~(h.verb = "delete_steps" /\ call[e].program = p)
    <3> SUFFICES ASSUME NEW d \in DOMAIN call, Replacing(d, p)', D \notin Rest(call'[d])
                 PROVE  \E c \in DOMAIN call :
                          /\ Replacing(c, p)' /\ D \notin Rest(call'[c])
                          /\ Inserted(call'[c], c) \subseteq table'.steps
      BY <1>6 DEF LastEmptied
    <3>1. D \notin Rest(call[d])
      <4>1. CASE d # e
        BY <1>6, <4>1
      <4>2. CASE d = e
        <5>1. call[e].program = p
          BY <1>1, <4>2 DEF Replacing, Same
        <5>2. h # D
          BY <2>2, <5>1 DEF Stmt
        <5> QED BY <1>4, <4>2, <5>2
      <4> QED BY <4>1, <4>2
    <3>2. Replacing(d, p)
      BY <1>2, <1>5, <3>1
    <3>3. PICK c \in DOMAIN call : /\ Replacing(c, p) /\ D \notin Rest(call[c])
                                   /\ Inserted(call[c], c) \subseteq table.steps
      BY <1>2, <3>1, <3>2 DEF LastEmptied
    <3>4. Replacing(c, p)' /\ D \notin Rest(call'[c])
      BY <1>1, <1>2, <3>3, RestShrinks
    <3>5. \A s \in table.steps : s.program = p => s \in table'.steps
      BY <1>1, <2>2 DEF Does, WritesSteps
    <3>6. \A s \in Inserted(call[c], c) : s.program = p
      BY <3>3 DEF Inserted, StepRow, Replacing
    <3>7. CASE c # e
      BY <1>6, <3>3, <3>4, <3>5, <3>6, <3>7
    <3>8. CASE c = e
      <4>1. Onward(call'[e], call[e]) /\ call'[e].state # "refused" /\ call[e].program = p
        BY <1>4, <3>3, <3>4, <3>8 DEF Replacing
      <4>2. h.verb = "insert_step" => StepRow(p, h.arg, e) \in table'.steps
        BY <1>1, <4>1 DEF Does, WritesSteps
      <4>3. /\ h.verb # "insert_step" => Inserted(call'[e], e) = Inserted(call[e], e)
            /\ h.verb = "insert_step" =>
                 Inserted(call'[e], e) = Inserted(call[e], e) \cup {StepRow(p, h.arg, e)}
        BY <1>1, <4>1, InsertedNext
      <4>4. Inserted(call'[e], e) \subseteq table'.steps
        BY <3>3, <3>5, <3>6, <3>8, <4>2, <4>3
      <4> QED BY <3>4, <3>8, <4>4
    <3> QED BY <3>7, <3>8
  <2> QED BY <2>1, <2>2
<1>8. AllOnDisk(p)'
  <2> SUFFICES ASSUME \A c \in DOMAIN call : Replacing(c, p)' => Committed(call'[c]),
                      NEW d \in DOMAIN call, Replacing(d, p)'
               PROVE  \E c \in DOMAIN call : Replacing(c, p)' /\ StepsBy(c)' \subseteq disk'.steps
    BY <1>6 DEF AllOnDisk
  <2>1. CASE h.verb = "commit"
    <3>1. disk' = table'
      BY <2>1, CommitsOnly
    <3>2. \A c \in DOMAIN call : Replacing(c, p)' =>
            Inserted(call'[c], c) = StepsBy(c)' /\ D \notin Rest(call'[c])
      <4>1. \A c \in DOMAIN call : CallOK(call'[c])
        BY <1>1 DEF Moves, Base, Calling
      <4> QED BY <4>1, AllInserted DEF StepsBy
    <3>3. PICK c \in DOMAIN call : Replacing(c, p)' /\ Inserted(call'[c], c) \subseteq table'.steps
      BY <1>6, <1>7, <3>2 DEF LastEmptied
    <3> QED BY <3>1, <3>2, <3>3
  <2>2. CASE h.verb # "commit"
    <3>1. disk' = disk /\ h # Finish
      BY <1>1, <2>2 DEF Does, WritesRest, Finish, Stmt
    <3>2. \A c \in DOMAIN call : Replacing(c, p)' => Committed(call[c])
      BY <1>4, <1>6, <3>1 DEF Committed
    <3>3. \A c \in DOMAIN call : Replacing(c, p)' => Replacing(c, p)
      BY <1>2, <1>5, <3>2 DEF Committed
    <3>4. PICK c \in DOMAIN call : Replacing(c, p) /\ StepsBy(c) \subseteq disk.steps
      BY <1>2, <3>2, <3>3 DEF AllOnDisk
    <3>5. StepsBy(c)' = StepsBy(c)
      BY <1>1, <1>6 DEF StepsBy, Same
    <3> QED BY <1>2, <3>1, <3>4, <3>5
  <2> QED BY <2>1, <2>2
<1> QED BY <1>7, <1>8

LEMMA WholeAdd ==
  ASSUME Base, Whole, NEW k, Added(k)
  PROVE  Whole'
<1>1. PICK n : /\ DOMAIN call' = DOMAIN call \cup {n} /\ n \notin DOMAIN call /\ call'[n] = k
               /\ \A d \in DOMAIN call : call'[d] = call[d]
  BY AddedIs DEF Adds
<1>2. /\ \A x : Belongs(x, k) => x \in Rest(k)
      /\ k.op = "update" => AtFirst(k)
      /\ UNCHANGED <<table, disk>> /\ CallOK(k)
  BY DEF Added
<1> SUFFICES ASSUME NEW p \in Programs, Untroubled(p)'
             PROVE  LastEmptied(p)' /\ AllOnDisk(p)'
  BY DEF Whole
<1>3. \A c \in DOMAIN call : Replacing(c, p)' <=> Replacing(c, p)
  BY <1>1 DEF Replacing
<1>4. Untroubled(p)
  BY <1>1, <1>3 DEF Untroubled, Undeleted
<1>5. LastEmptied(p) /\ AllOnDisk(p)
  BY <1>4 DEF Whole
<1>6. ASSUME Replacing(n, p)'
      PROVE  /\ Inserted(k, n) = {} /\ Stmt("delete_steps", 0) \notin Rest(k)
             /\ ~Committed(k)
  <2>1. k.op = "create"
    BY <1>1, <1>2, <1>6 DEF Replacing
  <2>2. \A i \in 0 .. k.steps - 1 : Stmt("insert_step", i) \in Rest(k)
    BY <1>2, <2>1 DEF Belongs, Inserting
  <2>3. ~Belongs(Stmt("delete_steps", 0), k) /\ Belongs(Finish, k)
    BY <2>1, Whose DEF Belongs, Stmt, Finish, Reads, Inserting
  <2> QED BY <1>2, <2>2, <2>3 DEF Inserted, Committed, CallOK
<1>7. LastEmptied(p)'
  <2> SUFFICES ASSUME NEW d \in DOMAIN call', Replacing(d, p)',
                      Stmt("delete_steps", 0) \notin Rest(call'[d])
               PROVE  \E c \in DOMAIN call' :
                        /\ Replacing(c, p)' /\ Stmt("delete_steps", 0) \notin Rest(call'[c])
                        /\ Inserted(call'[c], c) \subseteq table'.steps
    BY DEF LastEmptied
  <2>1. CASE d = n
    BY <1>1, <1>6, <2>1
  <2>2. CASE d \in DOMAIN call
    <3>1. PICK c \in DOMAIN call : /\ Replacing(c, p) /\ Stmt("delete_steps", 0) \notin Rest(call[c])
                                   /\ Inserted(call[c], c) \subseteq table.steps
      BY <1>1, <1>3, <1>5, <2>2 DEF LastEmptied
    <3> QED BY <1>1, <1>2, <1>3, <3>1
  <2> QED BY <1>1, <2>1, <2>2
<1>8. AllOnDisk(p)'
  <2> SUFFICES ASSUME \A c \in DOMAIN call' : Replacing(c, p)' => Committed(call'[c]),
                      NEW d \in DOMAIN call', Replacing(d, p)'
               PROVE  \E c \in DOMAIN call' : Replacing(c, p)' /\ StepsBy(c)' \subseteq disk'.steps
    BY DEF AllOnDisk
  <2>1. ~Replacing(n, p)'
    BY <1>1, <1>6
  <2>2. PICK c \in DOMAIN call : Replacing(c, p) /\ StepsBy(c) \subseteq disk.steps
    BY <1>1, <1>3, <1>5, <2>1 DEF AllOnDisk
  <2>3. StepsBy(c)' = StepsBy(c)
    BY <1>1 DEF StepsBy
  <2> QED BY <1>1, <1>2, <1>3, <2>2, <2>3
<1> QED BY <1>7, <1>8

LEMMA WholeCrash ==
  ASSUME Base, Whole, Crashes
  PROVE  Whole'
<1>1. Dies /\ table' = disk /\ disk' = disk
  BY CrashIs DEF Crashes
<1> SUFFICES ASSUME NEW p \in Programs, Untroubled(p)'
             PROVE  LastEmptied(p)' /\ AllOnDisk(p)'
  BY DEF Whole
<1>2. DOMAIN call' = DOMAIN call
  BY <1>1 DEF Dies
<1>3. \A c \in DOMAIN call : Replacing(c, p) => Replacing(c, p)'
  BY <1>1 DEF Dies, Replacing, Same
<1>4. \A c \in DOMAIN call : Replacing(c, p)' =>
        Replacing(c, p) /\ call'[c] = call[c] /\ Rest(call[c]) = {} /\ Live(call[c])
  <2>1. \A c \in DOMAIN call : Replacing(c, p)' => Live(call'[c])
    BY <1>2 DEF Untroubled
  <2>2. \A c \in DOMAIN call : Replacing(c, p)' => call'[c] = call[c] /\ Rest(call[c]) = {}
    BY <1>1, <2>1 DEF Dies, Live
  <2> QED BY <2>1, <2>2 DEF Replacing
<1>5. Untroubled(p)
  <2>1. \A c \in DOMAIN call : Same(call'[c], call[c])
    BY <1>1 DEF Dies
  <2>2. Undeleted(p)
    BY <1>2, <2>1 DEF Untroubled, Undeleted, Same
  <2> QED BY <1>3, <1>4, <2>2 DEF Untroubled
<1>6. \A d \in DOMAIN call : Replacing(d, p)' =>
        \E c \in DOMAIN call : Replacing(c, p)' /\ StepsBy(c) \subseteq disk.steps
  BY <1>3, <1>4, <1>5 DEF Whole, AllOnDisk, Committed
<1>7. \A c \in DOMAIN call : Replacing(c, p)' =>
        /\ StepsBy(c)' = StepsBy(c) /\ Inserted(call'[c], c) \subseteq StepsBy(c)
        /\ Stmt("delete_steps", 0) \notin Rest(call'[c])
  BY <1>4 DEF StepsBy, Inserted
<1>8. LastEmptied(p)'
  BY <1>1, <1>2, <1>6, <1>7 DEF LastEmptied
<1>9. AllOnDisk(p)'
  BY <1>1, <1>2, <1>6, <1>7 DEF AllOnDisk
<1> QED BY <1>8, <1>9

-----------------------------------------------------------------------------
(***************************************************************************)
(* The theorems.                                                           *)
(***************************************************************************)
Kept == Base /\ InTables /\ Answered /\ Deleted /\ RowStays /\ Whole

LEMMA KeptInit == StoreInit => Kept
<1> SUFFICES ASSUME StoreInit  PROVE Kept
  OBVIOUS
<1>1. Base
  BY InitBase
<1>2. DOMAIN call = {}
  BY DEF StoreInit
<1>3. InTables /\ Answered /\ Deleted /\ RowStays
  BY <1>2 DEF InTables, Answered, Deleted, RowStays, Pending
<1>4. Whole
  BY <1>2 DEF Whole, LastEmptied, AllOnDisk
<1> QED BY <1>1, <1>3, <1>4 DEF Kept

LEMMA KeptStep == Kept /\ [StoreNext]_vars => Kept'
<1> SUFFICES ASSUME Kept, [StoreNext]_vars  PROVE Kept'
  OBVIOUS
<1>1. Base /\ InTables /\ Answered /\ Deleted /\ RowStays /\ Whole /\ Base'
  BY BaseStep DEF Kept
<1>2. ASSUME NEW k, Added(k)  PROVE Kept'
  BY <1>1, <1>2, InTablesAdd, AnsweredAdd, DeletedAdd, StayAdd, WholeAdd DEF Kept
<1>3. ASSUME NEW e \in DOMAIN call, Statement(e)  PROVE Kept'
  BY <1>1, <1>3, InTablesStatement, AnsweredStatement, DeletedStatement, StayStatement, WholeStatement
     DEF Kept
<1>4. CASE Crashes
  BY <1>1, <1>4, InTablesCrash, AnsweredCrash, DeletedCrash, StayCrash, WholeCrash DEF Kept
<1>5. CASE UNCHANGED vars
  <2>1. call' = call /\ table' = table /\ disk' = disk
    BY <1>5 DEF vars
  <2>2. InTables' /\ Answered'
    BY <1>1, <2>1 DEF InTables, Answered, LastAlone, Touches, ReadsIt
  <2>3. Deleted' /\ RowStays'
    BY <1>1, <2>1 DEF Deleted, RowStays, Pending, Gone, Undeleted, Used, Running
  <2>4. \A c, p : Replacing(c, p)' <=> Replacing(c, p)
    BY <2>1 DEF Replacing
  <2>5. \A p : (LastEmptied(p)' <=> LastEmptied(p)) /\ (AllOnDisk(p)' <=> AllOnDisk(p))
    BY <2>1, <2>4 DEF LastEmptied, AllOnDisk, StepsBy
  <2>6. Whole'
    BY <1>1, <2>1, <2>4, <2>5 DEF Whole, Untroubled, Undeleted
  <2> QED BY <1>1, <2>2, <2>3, <2>6 DEF Kept
<1> QED BY <1>1, <1>2, <1>3, <1>4, <1>5, Steps

LEMMA AlwaysKept == StoreSpec => []Kept
BY KeptInit, KeptStep, PTL DEF StoreSpec

\* A call that was answered has nothing left.
LEMMA DoneIs ==
  ASSUME Base, NEW c \in DOMAIN call, call[c].state = "done"
  PROVE  /\ CallOK(call[c]) /\ Rest(call[c]) = {} /\ ~AtFirst(call[c])
         /\ Live(call[c]) /\ Committed(call[c]) /\ call[c].answer = "done"
<1>1. CallOK(call[c]) /\ call[c].todo = <<>>
  BY DEF Base, Calling, CallOK
<1>2. Rest(call[c]) = {}
  BY <1>1, Nothing DEF Rest
<1>3. ~AtFirst(call[c])
  BY <1>1, UpdatesNotEmpty DEF AtFirst
<1> QED BY <1>1, <1>2, <1>3 DEF CallOK, Live, Committed

\* The tables and the calls are what their columns and fields allow; the
\* table of the active sequence has one row at most (its id is always 1).
THEOREM TypeHolds == StoreSpec => []TypeOK
<1>1. Base => TypeOK
  <2> SUFFICES ASSUME Base  PROVE TypeOK
    OBVIOUS
  <2>1. ASSUME NEW t \in {table, disk}
        PROVE  /\ DOMAIN t.rows \subseteq Programs
               /\ \A p \in DOMAIN t.rows : t.rows[p] \in [Columns -> 0 .. MaxCalls]
               /\ t.prefs \in [Keys -> 0 .. MaxCalls]
               /\ t.active \subseteq [by : 1 .. MaxCalls, at : 1 .. MaxCalls]
               /\ Cardinality(t.active) =< 1
               /\ t.telemetry \subseteq 1 .. MaxCalls
    <3>1. t \in Tables /\ AtMostOne(t.active)
      BY DEF Base, Tabled
    <3>2. Cardinality(t.active) =< 1
      <4>1. CASE t.active = {}
        BY <4>1, FS_EmptySet
      <4>2. ASSUME NEW x \in t.active
            PROVE  Cardinality(t.active) =< 1
        <5>1. t.active = {x}
          BY <3>1, <4>2 DEF AtMostOne
        <5> QED BY <5>1, FS_Singleton
      <4> QED BY <4>1, <4>2
    <3> QED BY <3>1, <3>2, TableParts DEF Columned, ActiveRows
  <2>2. ASSUME NEW c \in DOMAIN call
        PROVE  /\ call[c].state \in {"running", "done", "missing", "refused", "killed"}
               /\ Running(c) <=> call[c].todo # <<>>
    <3>1. CallOK(call[c])
      BY DEF Base, Calling
    <3> QED BY <3>1 DEF CallOK, CallType, States, Running
  <2> QED BY <2>1, <2>2 DEF TypeOK
<1> QED BY <1>1, AlwaysKept, PTL DEF Kept

\* What a method was answered for is on the disk, if nobody else wrote the
\* same rows meanwhile or since: every method ends with a commit, and that
\* commit takes all of the method's statements to the disk.
THEOREM AnsweredHolds == StoreSpec => []AnsweredIsOnDisk
<1>1. Kept => AnsweredIsOnDisk
  <2> SUFFICES ASSUME Kept, NEW c \in DOMAIN call, call[c].state = "done", LastAlone(c)
               PROVE  Holds(disk, c)
    BY DEF AnsweredIsOnDisk
  <2> DEFINE k == call[c]
  <2>1. /\ CallOK(k) /\ Rest(k) = {} /\ ~AtFirst(k) /\ Live(k) /\ Committed(k)
    BY DoneIs DEF Kept
  <2>2. Effect(disk, k, c)
    BY <2>1 DEF Kept, InTables
  <2>3. Inserted(k, c) = StepsBy(c)
    BY <2>1, AllInserted DEF StepsBy
  <2>4. k.op = "create" => k.steps # Null
    BY <2>1 DEF CallOK, Asks
  <2> QED BY <2>1, <2>2, <2>3, <2>4 DEF Effect, Holds
<1> QED BY <1>1, AlwaysKept, PTL

\* The program that create_program and update_program return, and the one
\* that get_program returns afterwards, is the one that was asked for.
THEOREM ReadsHolds == StoreSpec => []ReadsTheWrite
<1>1. Kept => ReadsTheWrite
  <2> SUFFICES ASSUME Kept, NEW c \in DOMAIN call, NEW d \in DOMAIN call,
                      call[c].state = "done", call[c].op \in {"create", "update"}, LastAlone(c),
                      \/ d = c
                      \/ /\ call[d].op = "get" /\ call[d].program = call[c].program
                         /\ call[d].state = "done" /\ c \in call[d].before
               PROVE  /\ \A f \in call[c].fields : call[d].row[f] = c
                      /\ call[c].steps # Null => call[d].got = StepsBy(c)
    BY DEF ReadsTheWrite
  <2>1. Live(call[c]) /\ Committed(call[c])
    BY DoneIs DEF Kept
  <2>2. Live(call[d]) /\ Rest(call[d]) = {} /\ ReadsIt(c, d)
    BY DoneIs DEF Kept, ReadsIt
  <2>3. Shows(call[d], call[c], c)
    BY <2>1, <2>2 DEF Kept, Answered
  <2> QED BY <2>2, <2>3 DEF Shows, StepsBy
<1> QED BY <1>1, AlwaysKept, PTL

\* A program that delete_program has answered for does not come back.
THEOREM DeletedHolds == StoreSpec => []DeletedStaysDeleted
<1>1. Kept => DeletedStaysDeleted
  <2> SUFFICES ASSUME Kept, NEW c \in DOMAIN call, call[c].op = "delete", call[c].state = "done"
               PROVE  call[c].program \notin DOMAIN table.rows \cup DOMAIN disk.rows
    BY DEF DeletedStaysDeleted
  <2>1. /\ CallOK(call[c]) /\ Rest(call[c]) = {} /\ Live(call[c]) /\ Committed(call[c])
        /\ call[c].answer = "done"
    BY DoneIs DEF Kept
  <2>2. call[c].program \in Programs \cup {None}
    BY <2>1 DEF CallOK, CallType
  <2>3. Gone(call[c].program) /\ call[c].program \notin DOMAIN disk.rows
    BY <2>1, <2>2 DEF Kept, Deleted
  <2> QED BY <2>3 DEF Gone
<1> QED BY <1>1, AlwaysKept, PTL

\* However the statements of several requests that replace the steps of a
\* program interleave on the connection, one request's steps are all there.
THEOREM WholeHolds == StoreSpec => []OneUpdateIsWhole
<1>1. Kept => OneUpdateIsWhole
  <2> SUFFICES ASSUME Kept, NEW p \in Programs, NEW R,
                      R = {c \in DOMAIN call : /\ call[c].op \in {"create", "update"}
                                               /\ call[c].program = p
                                               /\ call[c].steps # Null
                                               /\ call[c].state # "missing"},
                      R # {}, \A d \in DOMAIN call : call[d].op = "delete" => call[d].program # p,
                      \A c \in R : call[c].state = "done"
               PROVE  \E c \in R : StepsBy(c) \subseteq StepsIn(disk, p)
    BY DEF OneUpdateIsWhole
  <2>1. \A c \in DOMAIN call : Replacing(c, p) => c \in R
    BY DEF Replacing
  <2>2. \A c \in R : Replacing(c, p) /\ Live(call[c]) /\ Committed(call[c])
    BY DoneIs DEF Kept, Replacing
  <2>3. Untroubled(p)
    BY <2>1, <2>2 DEF Untroubled, Undeleted
  <2>4. PICK c \in R : StepsBy(c) \subseteq disk.steps
    BY <2>1, <2>2, <2>3 DEF Kept, Whole, AllOnDisk
  <2>5. \A s \in StepsBy(c) : s.program = p
    BY DEF StepsBy, StepRow
  <2> QED BY <2>4, <2>5 DEF StepsIn
<1> QED BY <1>1, AlwaysKept, PTL
=============================================================================
