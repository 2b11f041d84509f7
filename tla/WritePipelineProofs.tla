-------------------------- MODULE WritePipelineProofs --------------------------
(***************************************************************************)
(* Proofs about WritePipeline: for any tables, bodies and names of columns *)
(* that have the types of CasesAssumption, and however requests, the clock *)
(* and changes of the lists interleave, the validator, FieldGuard, the     *)
(* injectors, the query builder and the OpenAPI document agree about every *)
(* column.                                                                 *)
(*                                                                         *)
(* The properties speak of statements that were executed and of answers.   *)
(* What makes them inductive is what is known of a body after each stage:  *)
(* after FieldGuard (Stripped), and after the injectors (Filled).          *)
(***************************************************************************)
EXTENDS WritePipeline, FiniteSetTheorems, SequenceTheorems, WellFoundedInduction, TLAPS

\* A handler that has started: its local variables.
IsJob(job) ==
    /\ job = [pc |-> job.pc, status |-> job.status, op |-> job.op, body |-> job.body,
              row |-> job.row, data |-> job.data, since |-> job.since, until |-> job.until]
    /\ job.pc \in {"valid", "clean", "ready", "done"}
    /\ job.op \in {"create", "update"}
    /\ job.row \in Requests
    /\ job.since \in Nat /\ job.until \in Nat /\ job.since <= job.until
    /\ \A c \in DOMAIN job.body : job.body[c] \in Values

Accepted(op, body) == IF op = "create" THEN validateCreate(body) ELSE validateUpdate(body)

AuditFields == {"created_at", "updated_at", "created_by", "modified_by"}

\* The value of c in body is one that a POST takes for none (see Vacant).
NoValue(op, body, c) ==
    op = "create" /\ (IsNull(body[c]) \/ (c = "code" /\ body[c] = EmptyString))

\* What data is after FieldGuard: the body without all that was blocked all
\* the time, with all that was never blocked, and without the defaults.
Stripped(job, al, ev) ==
    /\ DOMAIN job.data \subseteq DOMAIN job.body
    /\ DOMAIN job.body \ ev \subseteq DOMAIN job.data
    /\ DOMAIN job.data \cap (al \cup kDefaultBlocked) = {}
    /\ \A c \in DOMAIN job.data : job.data[c] = [client |-> job.body[c]]

\* A field that the server fills, at time t or before.
Stamps(job, t) == {[clock |-> u] : u \in job.since..t}

\* What data is after the injectors, for request r at time t.
FromClient(job, al, c) ==
    /\ c \in DOMAIN job.body \ (al \cup kDefaultBlocked)
    /\ job.data[c] = [client |-> job.body[c]]
FromServer(r, job, t, c) ==
    \/ c \in {"created_at", "updated_at"} /\ job.data[c] \in Stamps(job, t)
    \/ c \in {"created_by", "modified_by"} /\ job.data[c] = [user |-> r]
    \/ c = "code" /\ job.op = "create" /\ job.data[c] = [uuid |-> r]

Filled(r, job, al, ev, t) ==
    /\ DOMAIN job.data \subseteq Columns
    /\ \A c \in DOMAIN job.data : FromClient(job, al, c) \/ FromServer(r, job, t, c)
    /\ \A c \in DOMAIN job.body \ ev : ~NoValue(job.op, job.body, c) =>
           c \in DOMAIN job.data /\ job.data[c] = [client |-> job.body[c]]
    /\ \A c \in Columns \cap {"updated_at", "modified_by"} : c \in DOMAIN job.data
    /\ \A c \in Columns \cap {"created_at", "created_by"} :
           c \in DOMAIN job.data <=> job.op = "create"
    /\ job.op = "create" => \A c \in Columns : NeedsValue(c) /\ ~Misjudged(c) =>
           \/ c \in DOMAIN job.data /\ ~IsNullJson(job.data[c])
           \/ c \in ev \ AuditFields

\* What the statement of a request that is answered with ok has set.
Stored(job, al, ev, wr) ==
    /\ \A c \in DOMAIN wr : "client" \in DOMAIN wr[c] => c \in DOMAIN job.body \ al
    /\ \A c \in DOMAIN job.body \ ev : ~NoValue(job.op, job.body, c) /\ Kept(job.body[c]) =>
           wr[c] = IF IsNull(job.body[c]) THEN [db |-> Null] ELSE [client |-> job.body[c]]

\* What is known of request r, by the stage that it has reached.
RequestSound(r, job, al, ev, wr, t) ==
    /\ IsJob(job)
    /\ al \subseteq ev /\ kDefaultBlocked \subseteq ev
    /\ job.pc \in {"valid", "clean", "ready"} =>
           /\ al \subseteq getBlockedFields /\ getBlockedFields \subseteq ev
           /\ Accepted(job.op, job.body) /\ job.since <= t
    /\ job.pc = "clean" => Stripped(job, al, ev)
    /\ job.pc = "ready" => Filled(r, job, al, ev, t)
    /\ job.pc = "done" =>
           /\ job.status \in {"invalid", "nokey", "empty", "ok", "notfound", "refused"}
           /\ job.status = "invalid" => ~Accepted(job.op, job.body)
           /\ job.status \notin {"invalid", "nokey"} => Accepted(job.op, job.body)
           /\ job.status = "empty" => DOMAIN job.body \subseteq ev
           /\ job.status = "ok" => Stored(job, al, ev, wr)
    /\ wr # NoRow => job.pc = "done" /\ job.status = "ok"
    /\ \A c \in DOMAIN wr : wr[c] \in Cell

\* A cell of column c has a null only if the column may have one, and JSON that
\* the validator has looked at is an object.
CellSound(c, cell) ==
    /\ IsNullCell(c, cell) => table.columns[c].nullable
    /\ Meta[c].sqlType = "Json" /\ ~IsNullCell(c, cell) /\ ~Unchecked(c, cell) =>
           cell.client.type = "object"

\* What is known of a row that exists.
RowSound(k) ==
    /\ rows[k] = [c \in Columns |-> rows[k][c]]
    /\ \A c \in Columns : rows[k][c] \in Cell
    /\ \A c \in Columns : CellSound(c, rows[k][c])
    /\ request[writer[k]] # Idle /\ request[writer[k]].pc = "done"
    /\ Says(k, "created_by", WorkedBy(k))
    /\ Says(k, "created_at", WorkedWhen(k))
    /\ Says(k, "modified_by", WorkedBy(writer[k]))
    /\ Says(k, "updated_at", WorkedWhen(writer[k]))

\* The inductive invariant.
PipelineInv ==
    /\ table \in Cases
    /\ now \in 0..table.maxTime
    /\ request = [r \in Requests |-> request[r]]
    /\ rows = [r \in Requests |-> rows[r]]
    /\ written = [r \in Requests |-> written[r]]
    /\ always = [r \in Requests |-> always[r]]
    /\ ever = [r \in Requests |-> ever[r]]
    /\ writer \in [Requests -> Requests]
    /\ \A r \in Requests :
        /\ request[r] = Idle => always[r] = {} /\ ever[r] = {} /\ written[r] = NoRow
        /\ request[r] # Idle =>
              RequestSound(r, request[r], always[r], ever[r], written[r], now)
        /\ request[r] = Idle \/ request[r].pc # "done" => rows[r] = NoRow /\ writer[r] = r
        /\ rows[r] # NoRow => RowSound(r)

-----------------------------------------------------------------------------
(* The loops of the query builder *)

\* A nonempty set of naturals has a smallest element.
LEMMA SmallestNumber ==
    ASSUME NEW S \in SUBSET Nat, S # {}
    PROVE  \E n \in S : \A m \in S : n <= m
<1>1. PICK n \in S : \A m \in S : ~(<<m, n>> \in OpToRel(<, Nat))
    BY NatLessThanWellFounded, WFMin, Zenon
<1>2. \A m \in S : <<m, n>> \in OpToRel(<, Nat) <=> m < n
    BY DEF OpToRel
<1>3. \A m \in S : ~(m < n)
    BY <1>1, <1>2, Zenon
<1>4. \A m \in S : n <= m
    BY <1>3
<1> QED BY <1>4

\* What a turn of the loop, at element e, makes of t.
Turn(t, e, fs) == IF e \in fs THEN Append(t, e) ELSE t

\* f gives the sequence after each of the first n turns of the loop on s.
Loops(f, n, s, fs) ==
    /\ DOMAIN f = 0..n
    /\ f[0] = <<>>
    /\ \A m \in 1..n : f[m] = Turn(f[m - 1], s[m], fs)

\* The loop can be run.
LEMMA LoopRuns ==
    ASSUME NEW s \in Seq(STRING), NEW fs
    PROVE  \A n \in 0..Len(s) : \E f : Loops(f, n, s, fs)
<1> DEFINE bad == {n \in 0..Len(s) : ~\E f : Loops(f, n, s, fs)}
<1>1. SUFFICES ASSUME bad # {}
               PROVE  FALSE
    OBVIOUS
<1>2. PICK n \in bad : \A m \in bad : n <= m
    <2>1. bad \in SUBSET Nat
        OBVIOUS
    <2> HIDE DEF bad
    <2> QED BY <1>1, <2>1, SmallestNumber
<1>3. n # 0
    <2>1. Loops([m \in 0..0 |-> <<>>], 0, s, fs)
        BY DEF Loops
    <2> QED BY <1>2, <2>1
<1>4. n \in Nat /\ n - 1 \in 0..Len(s) /\ n - 1 \notin bad
    BY <1>2, <1>3
<1>5. PICK f : Loops(f, n - 1, s, fs)
    BY <1>4
<1> DEFINE g == [m \in 0..n |-> IF m = n THEN Turn(f[n - 1], s[n], fs) ELSE f[m]]
<1>6. Loops(g, n, s, fs)
    <2>1. DOMAIN g = 0..n /\ g[0] = f[0] /\ f[0] = <<>>
        BY <1>3, <1>4, <1>5 DEF Loops
    <2>2. ASSUME NEW m \in 1..n
          PROVE  g[m] = Turn(g[m - 1], s[m], fs)
        <3>1. g[m - 1] = f[m - 1]
            BY <1>4
        <3>2. CASE m = n
            BY <1>4, <3>1, <3>2
        <3>3. CASE m # n
            <4>1. m \in 1..(n - 1)
                BY <1>4, <3>3
            <4>2. f[m] = Turn(f[m - 1], s[m], fs)
                BY <1>5, <4>1 DEF Loops
            <4> QED BY <1>4, <3>1, <3>3, <4>2
        <3> QED BY <3>2, <3>3
    <2> HIDE DEF g
    <2> QED BY <2>1, <2>2 DEF Loops
<1> QED BY <1>2, <1>6

\* Only is the sequence after the last turn.
LEMMA OnlyLoops ==
    ASSUME NEW s \in Seq(STRING), NEW fs
    PROVE  \E f : Loops(f, Len(s), s, fs) /\ Only(s, fs) = f[Len(s)]
<1> DEFINE Step(f) == [n \in 0..Len(s) |->
                          IF n = 0 THEN <<>>
                          ELSE IF s[n] \in fs THEN Append(f[n - 1], s[n]) ELSE f[n - 1]]
           kept == CHOOSE f : f = Step(f)
<1>1. Only(s, fs) = kept[Len(s)]
    BY DEF Only
<1>2. PICK f : Loops(f, Len(s), s, fs) /\ f = [n \in DOMAIN f |-> f[n]]
    <2>1. PICK f : Loops(f, Len(s), s, fs)
        <3>1. Len(s) \in 0..Len(s)
            OBVIOUS
        <3> QED BY <3>1, LoopRuns
    <2> DEFINE g == [n \in 0..Len(s) |-> f[n]]
    <2>2. Loops(g, Len(s), s, fs)
        BY <2>1 DEF Loops
    <2> QED BY <2>2
<1>3. f = Step(f)
    <2>1. ASSUME NEW n \in 0..Len(s)
          PROVE  f[n] = Step(f)[n]
        <3>1. CASE n = 0
            BY <1>2, <3>1 DEF Loops
        <3>2. CASE n # 0
            <4>1. n \in 1..Len(s)
                BY <3>2
            <4>2. f[n] = Turn(f[n - 1], s[n], fs)
                BY <1>2, <4>1 DEF Loops
            <4> QED BY <3>2, <4>2, Zenon DEF Turn
        <3> QED BY <3>1, <3>2
    <2>2. DOMAIN f = 0..Len(s) /\ DOMAIN Step(f) = 0..Len(s)
        BY <1>2 DEF Loops
    <2>3. Step(f) = [n \in 0..Len(s) |-> Step(f)[n]]
        OBVIOUS
    <2> HIDE DEF Step
    <2> QED BY <1>2, <2>1, <2>2, <2>3
<1>4. kept = Step(kept)
    BY <1>3
<1>5. Loops(kept, Len(s), s, fs)
    <2> HIDE DEF kept
    <2>1. DOMAIN kept = 0..Len(s) /\ kept[0] = <<>>
        BY <1>4
    <2>2. ASSUME NEW m \in 1..Len(s)
          PROVE  kept[m] = Turn(kept[m - 1], s[m], fs)
        <3>1. m \in 0..Len(s) /\ m # 0
            OBVIOUS
        <3>2. kept[m] = Step(kept)[m]
            BY <1>4
        <3> QED BY <3>1, <3>2, Zenon DEF Turn
    <2> QED BY <2>1, <2>2 DEF Loops
<1> QED BY <1>1, <1>5

\* How many of the first n elements of s are in fs.
Count(s, fs, n) == Cardinality({j \in 1..n : s[j] \in fs})

LEMMA CountType ==
    ASSUME NEW s, NEW fs, NEW n \in Nat
    PROVE  IsFiniteSet({j \in 1..n : s[j] \in fs}) /\ Count(s, fs, n) \in Nat
<1>1. IsFiniteSet(1..n)
    BY FS_Interval
<1>2. {j \in 1..n : s[j] \in fs} \in SUBSET (1..n)
    OBVIOUS
<1> QED BY <1>1, <1>2, FS_Subset, FS_CardinalityType DEF Count

\* One element more.
LEMMA CountStep ==
    ASSUME NEW s, NEW fs, NEW n \in Nat \ {0}
    PROVE  Count(s, fs, n) = IF s[n] \in fs THEN Count(s, fs, n - 1) + 1 ELSE Count(s, fs, n - 1)
<1> DEFINE S == {j \in 1..(n - 1) : s[j] \in fs}
<1>1. n - 1 \in Nat
    OBVIOUS
<1>2. IsFiniteSet(S)
    BY <1>1, CountType
<1>3. n \notin S
    OBVIOUS
<1>4. Cardinality(S \cup {n}) = Cardinality(S) + 1
    <2> HIDE DEF S
    <2> QED BY <1>2, <1>3, FS_AddElement
<1>5. CASE s[n] \in fs
    <2>1. {j \in 1..n : s[j] \in fs} = S \cup {n}
        BY <1>5
    <2> QED BY <1>4, <1>5, <2>1 DEF Count
<1>6. CASE s[n] \notin fs
    <2>1. {j \in 1..n : s[j] \in fs} = S
        BY <1>6
    <2> QED BY <1>6, <2>1 DEF Count
<1> QED BY <1>5, <1>6

LEMMA CountMonotone ==
    ASSUME NEW s, NEW fs, NEW n \in Nat, NEW m \in Nat, m <= n
    PROVE  Count(s, fs, m) <= Count(s, fs, n)
<1>1. {j \in 1..m : s[j] \in fs} \in SUBSET {j \in 1..n : s[j] \in fs}
    OBVIOUS
<1>2. IsFiniteSet({j \in 1..n : s[j] \in fs})
    BY CountType
<1> QED BY <1>1, <1>2, FS_Subset DEF Count

\* The place that an element of s has among those in fs.
LEMMA CountPlace ==
    ASSUME NEW s, NEW fs, NEW n \in Nat, NEW j \in 1..n, s[j] \in fs
    PROVE  /\ Count(s, fs, j) \in 1..Count(s, fs, n)
           /\ Count(s, fs, j) = Count(s, fs, j - 1) + 1
<1>1. j \in Nat \ {0} /\ j \in Nat /\ j - 1 \in Nat /\ j <= n
    OBVIOUS
<1>2. Count(s, fs, j) = Count(s, fs, j - 1) + 1
    BY <1>1, CountStep
<1>3. Count(s, fs, j) \in Nat /\ Count(s, fs, j - 1) \in Nat /\ Count(s, fs, n) \in Nat
    BY <1>1, CountType
<1>4. Count(s, fs, j) <= Count(s, fs, n)
    BY <1>1, CountMonotone
<1> QED BY <1>2, <1>3, <1>4

\* t has the elements of fs among the first n of s, in their order.
Passed(t, n, s, fs) ==
    /\ t \in Seq(STRING)
    /\ Len(t) = Count(s, fs, n)
    /\ \A j \in 1..n : s[j] \in fs => t[Count(s, fs, j)] = s[j]

LEMMA TurnPasses ==
    ASSUME NEW s \in Seq(STRING), NEW fs, NEW n \in 1..Len(s), NEW t, Passed(t, n - 1, s, fs)
    PROVE  Passed(Turn(t, s[n], fs), n, s, fs)
<1>1. /\ n \in Nat \ {0} /\ n \in Nat /\ n - 1 \in Nat /\ s[n] \in STRING
      /\ t \in Seq(STRING) /\ Len(t) = Count(s, fs, n - 1)
      /\ \A j \in 1..(n - 1) : s[j] \in fs => t[Count(s, fs, j)] = s[j]
    BY DEF Passed
<1>2. CASE s[n] \notin fs
    <2>1. Count(s, fs, n) = Count(s, fs, n - 1)
        BY <1>1, <1>2, CountStep
    <2>2. \A j \in 1..n : s[j] \in fs => j \in 1..(n - 1)
        BY <1>1, <1>2
    <2> QED BY <1>1, <1>2, <2>1, <2>2 DEF Passed, Turn
<1>3. CASE s[n] \in fs
    <2> DEFINE a == Append(t, s[n])
    <2>1. Count(s, fs, n) = Count(s, fs, n - 1) + 1
        BY <1>1, <1>3, CountStep
    <2>2. /\ a \in Seq(STRING) /\ Len(a) = Len(t) + 1 /\ Len(t) \in Nat
          /\ \A i \in 1..Len(t) : a[i] = t[i]
          /\ a[Len(t) + 1] = s[n]
        BY <1>1, AppendProperties
    <2>3. ASSUME NEW j \in 1..n, s[j] \in fs
          PROVE  a[Count(s, fs, j)] = s[j]
        <3>1. CASE j = n
            BY <1>1, <2>1, <2>2, <3>1
        <3>2. CASE j # n
            <4>1. j \in 1..(n - 1)
                BY <1>1, <3>2
            <4>2. Count(s, fs, j) \in 1..Count(s, fs, n - 1)
                BY <1>1, <2>3, <4>1, CountPlace
            <4> HIDE DEF a
            <4> QED BY <1>1, <2>2, <2>3, <4>1, <4>2
        <3> QED BY <3>1, <3>2
    <2>4. Turn(t, s[n], fs) = a
        BY <1>3 DEF Turn
    <2> HIDE DEF a
    <2> QED BY <1>1, <2>1, <2>2, <2>3, <2>4 DEF Passed
<1> QED BY <1>2, <1>3

\* What Only gives.
LEMMA OnlyPasses ==
    ASSUME NEW s \in Seq(STRING), NEW fs
    PROVE  Passed(Only(s, fs), Len(s), s, fs)
<1>1. PICK f : Loops(f, Len(s), s, fs) /\ Only(s, fs) = f[Len(s)]
    BY OnlyLoops
<1> DEFINE bad == {n \in 0..Len(s) : ~Passed(f[n], n, s, fs)}
<1>2. bad = {}
    <2>1. SUFFICES ASSUME bad # {} PROVE FALSE
        OBVIOUS
    <2>2. PICK n \in bad : \A m \in bad : n <= m
        <3>1. bad \in SUBSET Nat
            OBVIOUS
        <3> HIDE DEF bad
        <3> QED BY <2>1, <3>1, SmallestNumber
    <2>3. n \in 0..Len(s) /\ ~Passed(f[n], n, s, fs)
        OBVIOUS
    <2>4. n # 0
        <3>1. f[0] = <<>> /\ <<>> \in Seq(STRING) /\ Len(<<>>) = 0
            BY <1>1 DEF Loops
        <3>2. {j \in 1..0 : s[j] \in fs} = {}
            OBVIOUS
        <3>3. Count(s, fs, 0) = 0
            BY <3>2, FS_EmptySet DEF Count
        <3>4. Passed(f[0], 0, s, fs)
            BY <3>1, <3>3 DEF Passed
        <3> QED BY <2>3, <3>4
    <2>5. n \in 1..Len(s) /\ n - 1 \in 0..Len(s) /\ ~(n <= n - 1)
        BY <2>3, <2>4
    <2>6. n - 1 \notin bad
        BY <2>2, <2>5
    <2>7. Passed(f[n - 1], n - 1, s, fs)
        BY <2>5, <2>6
    <2>8. f[n] = Turn(f[n - 1], s[n], fs)
        BY <1>1, <2>5 DEF Loops
    <2> HIDE DEF bad
    <2> QED BY <2>3, <2>5, <2>7, <2>8, TurnPasses
<1>3. Len(s) \in 0..Len(s)
    OBVIOUS
<1> QED BY <1>1, <1>2, <1>3

-----------------------------------------------------------------------------
(* Statements and their parameters *)

NamesSet == {Names[i] : i \in 1..Len(Names)}

\* Every name in fs has a place in what the loop on Names leaves.
LEMMA MembersHasAll ==
    ASSUME NEW data, NEW f \in DOMAIN data, f \in NamesSet
    PROVE  /\ Members(data) \in Seq(STRING)
           /\ \E i \in 1..Len(Members(data)) : Members(data)[i] = f
<1>1. Names \in Seq(STRING) /\ Len(Names) \in Nat
    BY CasesAssumption
<1>2. Passed(Members(data), Len(Names), Names, DOMAIN data)
    BY <1>1, OnlyPasses DEF Members
<1>3. PICK j \in 1..Len(Names) : Names[j] = f
    BY DEF NamesSet
<1>4. Count(Names, DOMAIN data, j) \in 1..Count(Names, DOMAIN data, Len(Names))
    BY <1>1, <1>3, CountPlace
<1> QED BY <1>2, <1>3, <1>4 DEF Passed

\* INSERT puts every member into its own column.
LEMMA InsertCellsRight ==
    ASSUME NEW data, DOMAIN data \subseteq NamesSet
    PROVE  InsertCells(data) = [f \in DOMAIN data |-> jsonValueToString(data[f])]
<1>1. ASSUME NEW f \in DOMAIN data
      PROVE  InsertParams(data)[CHOOSE i \in 1..Len(Members(data)) : Members(data)[i] = f]
                 = jsonValueToString(data[f])
    <2> DEFINE p == CHOOSE i \in 1..Len(Members(data)) : Members(data)[i] = f
    <2>1. p \in 1..Len(Members(data)) /\ Members(data)[p] = f
        BY <1>1, MembersHasAll
    <2> HIDE DEF p
    <2>2. InsertParams(data)[p] = jsonValueToString(data[Members(data)[p]])
        BY <2>1 DEF InsertParams
    <2>3. InsertParams(data)[p] = jsonValueToString(data[f])
        BY <2>1, <2>2
    <2> QED BY <2>3 DEF p
<1> QED BY <1>1 DEF InsertCells

\* The i-th member, if it is bound to a parameter, is bound to the one whose
\* number is its placeholder.
LEMMA PlaceholderRight ==
    ASSUME NEW data, Members(data) \in Seq(STRING), NEW i \in 1..Len(Members(data)),
           Members(data)[i] \in NotNull(data)
    PROVE  /\ Bound(data) \in Seq(STRING)
           /\ PlaceholderIdx(data, i) \in 1..Len(Bound(data))
           /\ Bound(data)[PlaceholderIdx(data, i)] = Members(data)[i]
<1> DEFINE s == Members(data)
           fs == NotNull(data)
<1>1. Passed(Bound(data), Len(s), s, fs)
    BY OnlyPasses DEF Bound
<1>2. Len(s) \in Nat
    OBVIOUS
<1>3. PlaceholderIdx(data, i) = 1 + Count(s, fs, i - 1)
    BY DEF PlaceholderIdx, Count
<1>4. Count(s, fs, i - 1) \in Nat
    <2>1. i - 1 \in Nat
        OBVIOUS
    <2> QED BY <2>1, CountType
<1>5. /\ Count(s, fs, i) \in 1..Count(s, fs, Len(s))
      /\ Count(s, fs, i) = Count(s, fs, i - 1) + 1
    BY <1>2, CountPlace
<1>6. PlaceholderIdx(data, i) = Count(s, fs, i)
    BY <1>3, <1>4, <1>5
<1> QED BY <1>1, <1>5, <1>6 DEF Passed

Param(data, n) == jsonValueToString(data[Bound(data)[n]])

\* The parameters of UPDATE, and the one that its WHERE clause is bound to.
LEMMA UpdateParamsRight ==
    ASSUME NEW data, NEW id, Bound(data) \in Seq(STRING)
    PROVE  /\ 1..Len(Bound(data)) \subseteq DOMAIN UpdateParams(data, id)
           /\ \A n \in 1..Len(Bound(data)) : UpdateParams(data, id)[n] = Param(data, n)
           /\ UpdateParams(data, id)[WhereIdx(data)] = [row |-> id]
<1> DEFINE p(n) == Param(data, n)
           ps == [n \in 1..Len(Bound(data)) |-> p(n)]
           where == <<[row |-> id]>>
           any == {p(n) : n \in 1..Len(Bound(data))} \cup {[row |-> id]}
<1>1. Len(Bound(data)) \in Nat
    OBVIOUS
<1>2. ps \in Seq(any) /\ Len(ps) = Len(Bound(data))
    <2>1. \A n \in 1..Len(Bound(data)) : p(n) \in any
        OBVIOUS
    <2> HIDE DEF p, any
    <2>2. ps \in [1..Len(Bound(data)) -> any]
        BY <2>1
    <2>3. ps \in Seq(any)
        BY <1>1, <2>2, IsASeq
    <2>4. DOMAIN ps = 1..Len(ps)
        BY <2>3, LenProperties
    <2>5. Len(ps) = Len(Bound(data))
        <3>1. Len(ps) \in Nat /\ 1..Len(ps) = 1..Len(Bound(data))
            BY <2>2, <2>3, <2>4
        <3> HIDE DEF ps
        <3>2. \A a, b \in Nat : 1..a = 1..b => a = b
            <4>1. SUFFICES ASSUME NEW a \in Nat, NEW b \in Nat, 1..a = 1..b
                           PROVE  a = b
                OBVIOUS
            <4>2. a \in 1..a \/ a = 0
                OBVIOUS
            <4>3. b \in 1..b \/ b = 0
                OBVIOUS
            <4> QED BY <4>1, <4>2, <4>3
        <3> QED BY <1>1, <3>1, <3>2
    <2> QED BY <2>3, <2>5
<1>3. where \in Seq(any) /\ Len(where) = 1 /\ where[1] = [row |-> id]
    OBVIOUS
<1>4. UpdateParams(data, id) = ps \o where
    BY DEF UpdateParams, Param
<1> HIDE DEF any
<1>5. /\ ps \o where \in Seq(any) /\ Len(ps \o where) = Len(ps) + Len(where)
      /\ \A i \in 1..(Len(ps) + Len(where)) : (ps \o where)[i] =
             IF i <= Len(ps) THEN ps[i] ELSE where[i - Len(ps)]
    <2> HIDE DEF ps, where
    <2> QED BY <1>2, <1>3, ConcatProperties
<1>6. ASSUME NEW n \in 1..Len(Bound(data))
      PROVE  /\ n \in DOMAIN UpdateParams(data, id)
             /\ UpdateParams(data, id)[n] = p(n)
    <2>1. n \in 1..(Len(ps) + Len(where)) /\ n <= Len(ps)
        BY <1>1, <1>2, <1>3
    <2>2. ps[n] = p(n)
        OBVIOUS
    <2> HIDE DEF ps, where, p
    <2>3. (ps \o where)[n] = ps[n]
        BY <1>5, <2>1
    <2>4. DOMAIN (ps \o where) = 1..(Len(ps) + Len(where))
        BY <1>5, LenProperties
    <2> QED BY <1>4, <2>1, <2>2, <2>3, <2>4
<1>7. UpdateParams(data, id)[WhereIdx(data)] = [row |-> id]
    <2>1. WhereIdx(data) = Len(ps) + 1
        BY <1>2 DEF WhereIdx
    <2> HIDE DEF ps, where
    <2>2. (ps \o where)[Len(ps) + 1] = where[1]
        <3>1. Len(ps) + 1 \in 1..(Len(ps) + Len(where)) /\ ~(Len(ps) + 1 <= Len(ps))
              /\ Len(ps) + 1 - Len(ps) = 1
            BY <1>1, <1>2, <1>3
        <3> QED BY <1>5, <3>1
    <2> QED BY <1>3, <1>4, <2>1, <2>2
<1> QED BY <1>6, <1>7

\* UPDATE puts every member into its own column, a null as NULL.
LEMMA UpdateCellsRight ==
    ASSUME NEW data, NEW id, DOMAIN data \subseteq NamesSet
    PROVE  UpdateCells(data, id) =
               [f \in DOMAIN data |-> IF f \notin NotNull(data) THEN [db |-> Null]
                                      ELSE jsonValueToString(data[f])]
<1>1. ASSUME NEW f \in NotNull(data)
      PROVE  UpdateCells(data, id)[f] = jsonValueToString(data[f])
    <2> DEFINE p == CHOOSE i \in 1..Len(Members(data)) : Members(data)[i] = f
    <2>1. f \in DOMAIN data
        BY DEF NotNull
    <2>2. p \in 1..Len(Members(data)) /\ Members(data)[p] = f /\ Members(data) \in Seq(STRING)
        BY <2>1, MembersHasAll
    <2>3. UpdateCells(data, id)[f] =
             IF PlaceholderIdx(data, p) \in DOMAIN UpdateParams(data, id)
             THEN UpdateParams(data, id)[PlaceholderIdx(data, p)] ELSE [db |-> "unbound"]
        BY <1>1, <2>1 DEF UpdateCells
    <2> HIDE DEF p
    <2> DEFINE k == PlaceholderIdx(data, p)
    <2>4. Bound(data) \in Seq(STRING) /\ k \in 1..Len(Bound(data)) /\ Bound(data)[k] = f
        BY <1>1, <2>2, PlaceholderRight
    <2> HIDE DEF k
    <2>5. k \in DOMAIN UpdateParams(data, id)
          /\ UpdateParams(data, id)[k] = jsonValueToString(data[Bound(data)[k]])
        <3>0. Bound(data) \in Seq(STRING)
            BY <2>4
        <3>1. 1..Len(Bound(data)) \subseteq DOMAIN UpdateParams(data, id)
            BY <3>0, UpdateParamsRight
        <3>2. \A m \in 1..Len(Bound(data)) : UpdateParams(data, id)[m] = Param(data, m)
            BY <3>0, UpdateParamsRight
        <3> QED BY <2>4, <3>1, <3>2 DEF Param
    <2>6. UpdateParams(data, id)[k] = jsonValueToString(data[f])
        BY <2>4, <2>5, Zenon
    <2>7. UpdateCells(data, id)[f] = UpdateParams(data, id)[k]
        BY <2>3, <2>5, Zenon DEF k
    <2> QED BY <2>6, <2>7
<1>2. ASSUME NEW f \in DOMAIN data, f \notin NotNull(data)
      PROVE  UpdateCells(data, id)[f] = [db |-> Null]
    BY <1>2 DEF UpdateCells
<1>3. UpdateCells(data, id) = [f \in DOMAIN data |-> UpdateCells(data, id)[f]]
    BY DEF UpdateCells
<1> QED BY <1>1, <1>2, <1>3

\* The WHERE clause of an UPDATE is bound to its row.
LEMMA WhereRight ==
    ASSUME NEW data, NEW id
    PROVE  UpdateParams(data, id)[WhereIdx(data)] = [row |-> id]
<1>1. Names \in Seq(STRING)
    BY CasesAssumption
<1>2. Members(data) \in Seq(STRING)
    BY <1>1, OnlyPasses DEF Members, Passed
<1>3. Bound(data) \in Seq(STRING)
    BY <1>2, OnlyPasses DEF Bound, Passed
<1> QED BY <1>3, UpdateParamsRight

-----------------------------------------------------------------------------
(* Columns and their schemas *)

\* The types that TypeMapper gives, with the types of JSON that they go with.
Kinds == {Kind("Boolean", "Boolean"), Kind("Integer", "Number"), Kind("Float", "Number"),
          Kind("Decimal", "Number"), Kind("String", "String"), Kind("DateTime", "String"),
          Kind("Date", "String"), Kind("Time", "String"), Kind("Json", "Object"),
          Kind("Binary", "String"), Kind("Uuid", "String"), Kind("Unknown", "String")}

LEMMA TypesAreKinds ==
    ASSUME NEW t
    PROVE  mapMySQLType(t) \in Kinds /\ mapPostgresType(t) \in Kinds /\ mapSQLiteType(t) \in Kinds
<1>1. mapMySQLType(t) \in Kinds
    BY DEF mapMySQLType, Kinds
<1>2. mapPostgresType(t) \in Kinds
    BY DEF mapPostgresType, Kinds
<1>3. mapSQLiteType(t) \in Kinds
    BY DEF mapSQLiteType, Kinds
<1> QED BY <1>1, <1>2, <1>3

\* A column's description has its type from TypeMapper, and is as it is
\* defined in the database.
LEMMA MetaDescribes ==
    ASSUME table \in Cases, NEW c \in Columns
    PROVE  /\ \E kind \in Kinds : /\ Meta[c].sqlType = kind.sql
                                  /\ Meta[c].jsonType = kind.json
           /\ Meta[c].isNullable = table.columns[c].nullable
           /\ Meta[c].hasDefault = table.columns[c].default
           /\ Meta[c].maxLength \in Nat \cup {NoMax}
<1> DEFINE d == table.columns[c]
<1>1. table.engine \in {"mysql", "postgresql", "sqlite3"} /\ d.max \in Nat \cup {NoMax}
    BY CasesAssumption DEF Columns
<1>2. Meta[c] = MetaColumn(d)
    BY DEF Meta
<1> HIDE DEF d
<1>3. ASSUME NEW kind \in Kinds, NEW isAuto, NEW max \in Nat \cup {NoMax},
             MetaColumn(d) = ColumnMeta(d, kind, isAuto, max)
      PROVE  /\ \E k \in Kinds : Meta[c].sqlType = k.sql /\ Meta[c].jsonType = k.json
             /\ Meta[c].isNullable = d.nullable
             /\ Meta[c].hasDefault = d.default
             /\ Meta[c].maxLength \in Nat \cup {NoMax}
    <2>1. Meta[c] = [sqlType |-> kind.sql, jsonType |-> kind.json, isNullable |-> d.nullable,
                     isPrimaryKey |-> d.key, isAutoIncrement |-> isAuto,
                     hasDefault |-> d.default, maxLength |-> max]
        BY <1>2, <1>3, Zenon DEF ColumnMeta
    <2>2. /\ Meta[c].sqlType = kind.sql /\ Meta[c].jsonType = kind.json
          /\ Meta[c].isNullable = d.nullable
          /\ Meta[c].hasDefault = d.default
          /\ Meta[c].maxLength = max
        BY <2>1
    <2> QED BY <1>3, <2>2, Zenon
<1>4. CASE table.engine = "mysql"
    <2>1. MetaColumn(d) = ColumnMeta(d, mapMySQLType(d.type), d.auto, d.max)
        BY <1>4 DEF MetaColumn, MySqlColumn
    <2> QED BY <1>1, <1>3, <2>1, TypesAreKinds DEF d
<1>5. CASE table.engine = "postgresql"
    <2>1. MetaColumn(d) = ColumnMeta(d, mapPostgresType(d.type), d.auto, d.max)
        BY <1>5 DEF MetaColumn, PostgresColumn
    <2> QED BY <1>1, <1>3, <2>1, TypesAreKinds DEF d
<1>6. CASE table.engine = "sqlite3"
    <2> DEFINE auto == d.key /\ d.type.declared = "INTEGER"
    <2>1. MetaColumn(d) = ColumnMeta(d, mapSQLiteType(d.type), auto, NoMax)
        BY <1>6 DEF MetaColumn, SqliteColumn
    <2> HIDE DEF auto
    <2> QED BY <1>1, <1>3, <2>1, TypesAreKinds DEF d
<1> QED BY <1>1, <1>4, <1>5, <1>6

\* A value that is not null and is as the document says is right for the validator,
\* unless it is a string of more bytes than its column has characters.
LEMMA ConformingFits ==
    ASSUME table \in Cases, NEW c \in Columns, NEW v \in Values, ~IsNull(v),
           Conforms(v, generateColumnSchema(Meta[c])),
           ~(v.type = "string" /\ v.size <= Meta[c].maxLength /\ Meta[c].maxLength < v.bytes)
    PROVE  Fits(v, Meta[c])
<1>1. PICK kind \in Kinds : Meta[c].sqlType = kind.sql /\ Meta[c].jsonType = kind.json
    BY MetaDescribes
<1>2. Meta[c].maxLength \in Nat \cup {NoMax}
    BY MetaDescribes
<1> DEFINE s == sqlTypeToOpenApiType(kind.sql)
<1>3. /\ v.type = s \/ (v.type = "integer" /\ s = "number")
      /\ v.type = "string" /\ Meta[c].maxLength # NoMax => v.size <= Meta[c].maxLength
    BY <1>1 DEF Conforms, Allows, generateColumnSchema, IsNull
<1> HIDE DEF s
<1>4. isTypeCompatible(v, Meta[c])
    <2>1. \/ s = "integer" /\ kind.json = "Number"
          \/ s = "number" /\ kind.json = "Number"
          \/ s = "boolean" /\ kind.json = "Boolean"
          \/ s = "object" /\ kind.json = "Object"
          \/ s = "string" /\ kind.json = "String"
        BY <1>1 DEF s, sqlTypeToOpenApiType, Kinds, Kind
    <2> QED BY <1>1, <1>3, <2>1 DEF isTypeCompatible
<1>5. ~exceedsMaxLength(v, Meta[c])
    <2>1. v.size \in Nat /\ v.bytes \in Nat
        BY DEF Values
    <2> QED BY <1>2, <1>3, <2>1 DEF exceedsMaxLength, NoMax
<1> QED BY <1>4, <1>5 DEF Fits

\* The schemas of the bodies have the lists of fields of the validator.
LEMMA ConformingAccepted ==
    ASSUME table \in Cases, NEW body, \A f \in DOMAIN body : body[f] \in Values,
           ~TooManyBytes(body)
    PROVE  /\ ConformsAll(body, generateCreateSchema) => validateCreate(body)
           /\ ConformsAll(body, generateUpdateSchema) => validateUpdate(body)
<1> DEFINE Short(f) == ~(/\ body[f].type = "string" /\ body[f].size <= Meta[f].maxLength
                         /\ Meta[f].maxLength < body[f].bytes)
<1>0. \A f \in DOMAIN body \cap Columns : Short(f)
    BY DEF TooManyBytes
<1>1. ASSUME ConformsAll(body, generateCreateSchema)
      PROVE  validateCreate(body)
    <2>1. /\ {c \in CreateProperties : Required(Meta[c])} \subseteq DOMAIN body
          /\ \A f \in DOMAIN body :
                 f \in CreateProperties /\ Conforms(body[f], generateColumnSchema(Meta[f]))
        BY <1>1 DEF ConformsAll, generateCreateSchema, Schema
    <2>2. ASSUME NEW c \in Columns, ~Meta[c].isAutoIncrement, c \notin autoFields
          PROVE  IF c \in DOMAIN body /\ ~IsNull(body[c])
                 THEN Fits(body[c], Meta[c])
                 ELSE ~Required(Meta[c])
        <3>1. c \in CreateProperties
            BY <2>2 DEF CreateProperties, docAutoFields, autoFields
        <3>2. CASE c \notin DOMAIN body
            BY <2>1, <3>1, <3>2
        <3>3. CASE c \in DOMAIN body /\ IsNull(body[c])
            <4>1. Meta[c].isNullable
                <5>1. body[c].type = "null" /\ Allows(generateColumnSchema(Meta[c]), body[c].type)
                    BY <2>1, <3>3 DEF Conforms, IsNull
                <5>2. \E kind \in Kinds : Meta[c].sqlType = kind.sql
                    BY MetaDescribes
                <5>3. sqlTypeToOpenApiType(Meta[c].sqlType) # "null"
                    BY <5>2 DEF sqlTypeToOpenApiType, Kinds, Kind
                <5> QED BY <5>1, <5>3 DEF Allows, generateColumnSchema
            <4> QED BY <3>3, <4>1 DEF Required
        <3>4. CASE c \in DOMAIN body /\ ~IsNull(body[c])
            BY <1>0, <2>1, <3>4, ConformingFits
        <3> QED BY <3>2, <3>3, <3>4
    <2>3. \A f \in DOMAIN body : hasColumn(f)
        BY <2>1 DEF CreateProperties, hasColumn
    <2> QED BY <2>2, <2>3 DEF validateCreate
<1>2. ASSUME ConformsAll(body, generateUpdateSchema)
      PROVE  validateUpdate(body)
    <2>1. \A f \in DOMAIN body :
              /\ f \in Columns /\ ~Meta[f].isPrimaryKey
              /\ Conforms(body[f], generateColumnSchema(Meta[f]))
        BY <1>2 DEF ConformsAll, generateUpdateSchema, Schema
    <2>2. ASSUME NEW f \in DOMAIN body
          PROVE  IsNull(body[f]) \/ Fits(body[f], Meta[f])
        BY <1>0, <2>1, ConformingFits
    <2> QED BY <2>1, <2>2 DEF validateUpdate, hasColumn
<1> QED BY <1>1, <1>2

\* A string of too many bytes is rejected, in any column that a schema of the
\* bodies has.
LEMMA TooManyBytesRejected ==
    ASSUME table \in Cases, NEW body, \A f \in DOMAIN body : body[f] \in Values,
           TooManyBytes(body)
    PROVE  /\ ConformsAll(body, generateCreateSchema) => ~validateCreate(body)
           /\ ConformsAll(body, generateUpdateSchema) => ~validateUpdate(body)
<1>1. PICK f \in DOMAIN body \cap Columns :
          /\ body[f].type = "string"
          /\ body[f].size <= Meta[f].maxLength /\ Meta[f].maxLength < body[f].bytes
    BY DEF TooManyBytes
<1>2. ~Fits(body[f], Meta[f]) /\ ~IsNull(body[f])
    <2>1. body[f].size \in Nat /\ body[f].bytes \in Nat /\ Meta[f].maxLength \in Nat \cup {NoMax}
        BY MetaDescribes DEF Values
    <2> QED BY <1>1, <2>1 DEF Fits, exceedsMaxLength, IsNull, NoMax
<1>3. ConformsAll(body, generateCreateSchema) => ~validateCreate(body)
    <2>1. ConformsAll(body, generateCreateSchema) => f \in CreateProperties
        BY DEF ConformsAll, generateCreateSchema, Schema
    <2> QED BY <1>2, <2>1 DEF CreateProperties, docAutoFields, autoFields, validateCreate
<1>4. ~validateUpdate(body)
    BY <1>2 DEF validateUpdate
<1> QED BY <1>3, <1>4

\* While the table is the same, so is all that is made of it.
LEMMA SameTable ==
    ASSUME table' = table
    PROVE  /\ Columns' = Columns /\ Meta' = Meta /\ Cell' = Cell
           /\ \A op, body : Accepted(op, body)' <=> Accepted(op, body)
           /\ \A c : NeedsValue(c)' <=> NeedsValue(c)
           /\ \A c : Misjudged(c)' <=> Misjudged(c)
           /\ \A c, cell : CellSound(c, cell)' <=> CellSound(c, cell)
<1>1. Columns' = Columns
    BY DEF Columns
<1>2. Meta' = Meta
    <2>1. \A d : MetaColumn(d)' = MetaColumn(d)
        BY Zenon DEF MetaColumn
    <2> QED BY <1>1, <2>1 DEF Meta
<1>3. Cell' = Cell
    BY DEF Cell
<1>4. ASSUME NEW body
      PROVE  validateCreate(body)' <=> validateCreate(body)
    BY <1>1, <1>2, Zenon DEF validateCreate, hasColumn
<1>5. ASSUME NEW body
      PROVE  validateUpdate(body)' <=> validateUpdate(body)
    BY <1>1, <1>2, Zenon DEF validateUpdate, hasColumn
<1>6. ASSUME NEW op, NEW body
      PROVE  Accepted(op, body)' <=> Accepted(op, body)
    BY <1>4, <1>5, Zenon DEF Accepted
<1>7. ASSUME NEW c
      PROVE  NeedsValue(c)' <=> NeedsValue(c)
    BY DEF NeedsValue
<1>8. ASSUME NEW c
      PROVE  Misjudged(c)' <=> Misjudged(c)
    BY <1>2 DEF Misjudged
<1>9. ASSUME NEW c, NEW cell
      PROVE  CellSound(c, cell)' <=> CellSound(c, cell)
    <2>1. IsNullCell(c, cell)' <=> IsNullCell(c, cell)
        BY DEF IsNullCell
    <2>2. Unchecked(c, cell)' <=> Unchecked(c, cell)
        BY <1>2, <2>1 DEF Unchecked
    <2> QED BY <1>2, <2>1, <2>2 DEF CellSound
<1> QED BY <1>1, <1>2, <1>3, <1>6, <1>7, <1>8, <1>9, Zenon

-----------------------------------------------------------------------------
(* What a step leaves as it was *)

\* A request that makes no step stays sound, while others make theirs, time
\* passes, and the lists of blocked columns change.
LEMMA RequestKept ==
    ASSUME NEW r, NEW job, NEW al, NEW ev, NEW wr, NEW t \in Nat,
           RequestSound(r, job, al, ev, wr, t), table' = table,
           NEW al2, NEW ev2, NEW t2 \in Nat, al2 \subseteq al, ev \subseteq ev2, t <= t2,
           job.pc # "done" => al2 \subseteq getBlockedFields' /\ getBlockedFields' \subseteq ev2
    PROVE  RequestSound(r, job, al2, ev2, wr, t2)'
<1>1. IsJob(job)' /\ job.pc \in {"valid", "clean", "ready", "done"}
    BY DEF RequestSound, IsJob
<1>2. al2 \subseteq ev2 /\ kDefaultBlocked \subseteq ev2
    BY DEF RequestSound
<1>3. ASSUME job.pc \in {"valid", "clean", "ready"}
      PROVE  /\ al2 \subseteq getBlockedFields' /\ getBlockedFields' \subseteq ev2
             /\ Accepted(job.op, job.body)' /\ job.since <= t2
    <2>1. job.pc # "done"
        BY <1>3
    <2>2. Accepted(job.op, job.body) /\ job.since <= t /\ job.since \in Nat
        BY <1>3 DEF RequestSound, IsJob
    <2>3. Accepted(job.op, job.body)'
        BY <2>2, SameTable
    <2> QED BY <2>1, <2>2, <2>3
<1>4. ASSUME job.pc = "clean"
      PROVE  Stripped(job, al2, ev2)'
    <2>1. Stripped(job, al, ev)
        BY <1>4 DEF RequestSound
    <2> QED BY <2>1 DEF Stripped
<1>5. ASSUME job.pc = "ready"
      PROVE  Filled(r, job, al2, ev2, t2)'
    <2>1. /\ DOMAIN job.data \subseteq Columns
          /\ \A c \in DOMAIN job.data : FromClient(job, al, c) \/ FromServer(r, job, t, c)
          /\ \A c \in DOMAIN job.body \ ev : ~NoValue(job.op, job.body, c) =>
                 c \in DOMAIN job.data /\ job.data[c] = [client |-> job.body[c]]
          /\ \A c \in Columns \cap {"updated_at", "modified_by"} : c \in DOMAIN job.data
          /\ \A c \in Columns \cap {"created_at", "created_by"} :
                 c \in DOMAIN job.data <=> job.op = "create"
          /\ job.op = "create" => \A c \in Columns : NeedsValue(c) /\ ~Misjudged(c) =>
                 \/ c \in DOMAIN job.data /\ ~IsNullJson(job.data[c])
                 \/ c \in ev \ AuditFields
        BY <1>5, Zenon DEF RequestSound, Filled
    <2>2. /\ Columns' = Columns
          /\ \A c : NeedsValue(c)' <=> NeedsValue(c)
          /\ \A c : Misjudged(c)' <=> Misjudged(c)
        BY SameTable
    <2>3. ASSUME NEW c \in DOMAIN job.data
          PROVE  FromClient(job, al2, c)' \/ FromServer(r, job, t2, c)'
        <3>1. CASE FromClient(job, al, c)
            BY <3>1 DEF FromClient
        <3>2. CASE FromServer(r, job, t, c)
            <4>1. job.data[c] \in Stamps(job, t) => job.data[c] \in Stamps(job, t2)
                BY <1>1 DEF Stamps, IsJob
            <4>2. FromServer(r, job, t2, c)
                BY <3>2, <4>1, Zenon DEF FromServer
            <4> QED BY <4>2, Zenon DEF FromServer, Stamps
        <3> QED BY <2>1, <3>1, <3>2
    <2>4. \A c \in DOMAIN job.body \ ev2 : ~NoValue(job.op, job.body, c)' =>
              c \in DOMAIN job.data /\ job.data[c] = [client |-> job.body[c]]
        BY <2>1 DEF NoValue
    <2>5. ASSUME job.op = "create", NEW c \in Columns', NeedsValue(c)', ~Misjudged(c)'
          PROVE  \/ c \in DOMAIN job.data /\ ~IsNullJson(job.data[c])'
                 \/ c \in ev2 \ AuditFields'
        <3>1. \/ c \in DOMAIN job.data /\ ~IsNullJson(job.data[c])
              \/ c \in ev \ AuditFields
            BY <2>1, <2>2, <2>5, Zenon
        <3> QED BY <3>1 DEF AuditFields, IsNullJson, IsNull
    <2> QED BY <2>1, <2>2, <2>3, <2>4, <2>5, Zenon DEF Filled
<1>6. ASSUME job.pc = "done"
      PROVE  /\ job.status \in {"invalid", "nokey", "empty", "ok", "notfound", "refused"}
             /\ job.status = "invalid" => ~Accepted(job.op, job.body)'
             /\ job.status \notin {"invalid", "nokey"} => Accepted(job.op, job.body)'
             /\ job.status = "empty" => DOMAIN job.body \subseteq ev2
             /\ job.status = "ok" => Stored(job, al2, ev2, wr)'
    <2>1. /\ job.status \in {"invalid", "nokey", "empty", "ok", "notfound", "refused"}
          /\ job.status = "invalid" => ~Accepted(job.op, job.body)
          /\ job.status \notin {"invalid", "nokey"} => Accepted(job.op, job.body)
          /\ job.status = "empty" => DOMAIN job.body \subseteq ev
          /\ job.status = "ok" => Stored(job, al, ev, wr)
        BY <1>6, Zenon DEF RequestSound
    <2>2. Stored(job, al, ev, wr) => Stored(job, al2, ev2, wr)'
        BY DEF Stored, NoValue, Kept, IsNull
    <2> QED BY <2>1, <2>2, SameTable
<1>7. wr # NoRow => job.pc = "done" /\ job.status = "ok"
    BY DEF RequestSound
<1>8. \A c \in DOMAIN wr : wr[c] \in Cell'
    BY SameTable DEF RequestSound
<1> QED BY <1>1, <1>2, <1>3, <1>4, <1>5, <1>6, <1>7, <1>8, Zenon DEF RequestSound, kDefaultBlocked

\* A row stays sound while it, its writer's and its creator's requests stay as
\* they are.
LEMMA RowKept ==
    ASSUME NEW k, RowSound(k), table' = table,
           rows'[k] = rows[k], writer'[k] = writer[k], request'[k] = request[k],
           request'[writer[k]] = request[writer[k]]
    PROVE  RowSound(k)'
<1>1. Columns' = Columns /\ Cell' = Cell
    BY SameTable
<1>2. WorkedBy(k)' = WorkedBy(k) /\ WorkedBy(writer[k])' = WorkedBy(writer[k])
    BY DEF WorkedBy
<1>3. WorkedWhen(k)' = WorkedWhen(k) /\ WorkedWhen(writer[k])' = WorkedWhen(writer[k])
    BY DEF WorkedWhen
<1>4. /\ rows'[k] = [c \in Columns' |-> rows'[k][c]]
      /\ \A c \in Columns' : rows'[k][c] \in Cell'
      /\ request'[writer'[k]] # Idle /\ request'[writer'[k]].pc = "done"
    BY <1>1 DEF RowSound, Idle
<1>5. \A field, cells : Says(k, field, cells)' <=> Says(k, field, cells)
    BY <1>1 DEF Says
<1>6. /\ Says(k, "created_by", WorkedBy(k)) /\ Says(k, "created_at", WorkedWhen(k))
      /\ Says(k, "modified_by", WorkedBy(writer[k]))
      /\ Says(k, "updated_at", WorkedWhen(writer[k]))
    BY DEF RowSound
<1>7. /\ Says(k, "created_by", WorkedBy(k))' /\ Says(k, "created_at", WorkedWhen(k))'
      /\ Says(k, "modified_by", WorkedBy(writer[k]))'
      /\ Says(k, "updated_at", WorkedWhen(writer[k]))'
    BY <1>2, <1>3, <1>5, <1>6
<1>8. PICK row : row = rows[k]
    OBVIOUS
<1>9. \A c \in Columns : CellSound(c, row[c])'
    <2>1. \A c \in Columns : CellSound(c, row[c])
        BY <1>8 DEF RowSound
    <2> QED BY SameTable, <2>1
<1>10. \A c \in Columns' : rows'[k][c] = row[c]
    BY <1>8
<1> QED BY <1>1, <1>4, <1>7, <1>9, <1>10 DEF RowSound, Idle

\* A step of request r up to its answer, or an answer without a statement.
LEMMA RequestMoves ==
    ASSUME PipelineInv, NEW r \in Requests, NEW job, NEW al, NEW ev,
           request[r] = Idle \/ request[r].pc # "done",
           request' = [request EXCEPT ![r] = job], job # Idle,
           always' = [always EXCEPT ![r] = al], ever' = [ever EXCEPT ![r] = ev],
           UNCHANGED <<table, blocked, now, rows, writer, written>>,
           RequestSound(r, job, al, ev, NoRow, now)
    PROVE  PipelineInv'
<1>1. /\ now \in Nat /\ table' = table /\ now' = now /\ getBlockedFields' = getBlockedFields
      /\ request'[r] = job /\ always'[r] = al /\ ever'[r] = ev
      /\ \A q \in Requests \ {r} : /\ request'[q] = request[q] /\ always'[q] = always[q]
                                   /\ ever'[q] = ever[q]
    BY CasesAssumption DEF PipelineInv, getBlockedFields, kDefaultBlocked
<1>2. rows[r] = NoRow /\ writer[r] = r /\ written[r] = NoRow
    BY DEF PipelineInv, RequestSound
<1>3. RequestSound(r, request[r], always[r], ever[r], written[r], now)'
    <2>1. al \subseteq ev /\ (job.pc # "done" => al \subseteq getBlockedFields /\ getBlockedFields \subseteq ev)
        BY DEF RequestSound, IsJob
    <2>2. RequestSound(r, job, al, ev, NoRow, now)'
        BY <1>1, <2>1, RequestKept
    <2> QED BY <1>1, <1>2, <2>2
<1>4. ASSUME NEW q \in Requests, q # r, request[q] # Idle
      PROVE  RequestSound(q, request[q], always[q], ever[q], written[q], now)'
    <2>1. RequestSound(q, request[q], always[q], ever[q], written[q], now)
        BY <1>4 DEF PipelineInv
    <2>2. always[q] \subseteq ever[q]
          /\ (request[q].pc # "done" =>
                 always[q] \subseteq getBlockedFields /\ getBlockedFields \subseteq ever[q])
        BY <2>1 DEF RequestSound, IsJob
    <2>3. PICK job2, al2, ev2, wr2, t2 : /\ job2 = request[q] /\ al2 = always[q] /\ ev2 = ever[q]
                                        /\ wr2 = written[q] /\ t2 = now
        OBVIOUS
    <2>4. RequestSound(q, job2, al2, ev2, wr2, t2)'
        BY <1>1, <2>1, <2>2, <2>3, RequestKept
    <2>5. /\ job2 = request'[q] /\ al2 = always'[q] /\ ev2 = ever'[q]
          /\ wr2 = written'[q] /\ t2 = now'
        BY <1>1, <1>4, <2>3
    <2> QED BY <2>4, <2>5
<1>5. ASSUME NEW k \in Requests, rows[k] # NoRow
      PROVE  RowSound(k)'
    <2>1. RowSound(k) /\ writer[k] \in Requests
        BY <1>5 DEF PipelineInv
    <2>2. k # r /\ writer[k] # r
        BY <1>2, <1>5, <2>1 DEF RowSound, PipelineInv
    <2>3. request'[k] = request[k] /\ request'[writer[k]] = request[writer[k]]
        BY <1>1, <2>1, <2>2
    <2> QED BY <1>1, <2>1, <2>3, RowKept
<1>6. ASSUME NEW q \in Requests
      PROVE  /\ request'[q] = Idle => always'[q] = {} /\ ever'[q] = {} /\ written'[q] = NoRow
             /\ request'[q] # Idle =>
                    RequestSound(q, request[q], always[q], ever[q], written[q], now)'
             /\ request'[q] = Idle \/ request'[q].pc # "done" =>
                    rows'[q] = NoRow /\ writer'[q] = q
             /\ rows'[q] # NoRow => RowSound(q)'
    <2>1. CASE q = r
        BY <1>1, <1>2, <1>3, <2>1
    <2>2. CASE q # r
        BY <1>1, <1>4, <1>5, <2>2 DEF PipelineInv
    <2> QED BY <2>1, <2>2
<1>7. /\ table' \in Cases /\ now' \in 0..table'.maxTime
      /\ request' = [q \in Requests |-> request'[q]]
      /\ rows' = [q \in Requests |-> rows'[q]]
      /\ written' = [q \in Requests |-> written'[q]]
      /\ always' = [q \in Requests |-> always'[q]]
      /\ ever' = [q \in Requests |-> ever'[q]]
      /\ writer' \in [Requests -> Requests]
    BY DEF PipelineInv
<1> QED BY <1>6, <1>7 DEF PipelineInv, Idle, NoRow

\* A step in which the statement of request r writes row k.
LEMMA RowWritten ==
    ASSUME PipelineInv, NEW r \in Requests, NEW k \in Requests, NEW job, NEW cells, NEW row,
           request[r] # Idle, request[r].pc = "ready",
           k = r \/ (request[k] # Idle /\ request[k].pc = "done"),
           request' = [request EXCEPT ![r] = job], job # Idle, job.pc = "done",
           rows' = [rows EXCEPT ![k] = row], writer' = [writer EXCEPT ![k] = r],
           written' = [written EXCEPT ![r] = cells],
           UNCHANGED <<table, blocked, now, always, ever>>,
           RequestSound(r, job, always[r], ever[r], cells, now),
           RowSound(k)'
    PROVE  PipelineInv'
<1>1. /\ now \in Nat /\ table' = table /\ now' = now /\ getBlockedFields' = getBlockedFields
      /\ request'[r] = job /\ written'[r] = cells
      /\ rows'[k] = row /\ writer'[k] = r
      /\ \A q \in Requests \ {r} : request'[q] = request[q] /\ written'[q] = written[q]
      /\ \A q \in Requests \ {k} : rows'[q] = rows[q] /\ writer'[q] = writer[q]
    BY CasesAssumption DEF PipelineInv, getBlockedFields, kDefaultBlocked
<1>2. rows[r] = NoRow /\ writer[r] = r
    BY DEF PipelineInv
<1>3. RequestSound(r, request[r], always[r], ever[r], written[r], now)'
    <2>1. RequestSound(r, job, always[r], ever[r], cells, now)'
        BY <1>1, RequestKept
    <2> QED BY <1>1, <2>1
<1>4. ASSUME NEW q \in Requests, q # r, request[q] # Idle
      PROVE  RequestSound(q, request[q], always[q], ever[q], written[q], now)'
    <2>1. RequestSound(q, request[q], always[q], ever[q], written[q], now)
        BY <1>4 DEF PipelineInv
    <2>2. request[q].pc # "done" =>
              always[q] \subseteq getBlockedFields /\ getBlockedFields \subseteq ever[q]
        BY <2>1 DEF RequestSound, IsJob
    <2>3. PICK job2, al2, ev2, wr2, t2 : /\ job2 = request[q] /\ al2 = always[q] /\ ev2 = ever[q]
                                        /\ wr2 = written[q] /\ t2 = now
        OBVIOUS
    <2>4. RequestSound(q, job2, al2, ev2, wr2, t2)'
        BY <1>1, <2>1, <2>2, <2>3, RequestKept
    <2>5. /\ job2 = request'[q] /\ al2 = always'[q] /\ ev2 = ever'[q]
          /\ wr2 = written'[q] /\ t2 = now'
        BY <1>1, <1>4, <2>3
    <2> QED BY <2>4, <2>5
<1>5. ASSUME NEW j \in Requests, j # k, rows[j] # NoRow
      PROVE  RowSound(j)'
    <2>1. RowSound(j) /\ writer[j] \in Requests
        BY <1>5 DEF PipelineInv
    <2>2. j # r /\ writer[j] # r
        BY <1>2, <1>5, <2>1 DEF RowSound, PipelineInv
    <2>3. /\ request'[j] = request[j] /\ request'[writer[j]] = request[writer[j]]
          /\ rows'[j] = rows[j] /\ writer'[j] = writer[j]
        BY <1>1, <1>5, <2>1, <2>2
    <2> QED BY <1>1, <2>1, <2>3, RowKept
<1>6. ASSUME NEW q \in Requests
      PROVE  /\ request'[q] = Idle => always'[q] = {} /\ ever'[q] = {} /\ written'[q] = NoRow
             /\ request'[q] # Idle =>
                    RequestSound(q, request[q], always[q], ever[q], written[q], now)'
    <2>1. CASE q = r
        BY <1>1, <1>3, <2>1
    <2>2. CASE q # r
        BY <1>1, <1>4, <2>2 DEF PipelineInv
    <2> QED BY <2>1, <2>2
<1>7. ASSUME NEW q \in Requests
      PROVE  /\ request'[q] = Idle \/ request'[q].pc # "done" =>
                    rows'[q] = NoRow /\ writer'[q] = q
             /\ rows'[q] # NoRow => RowSound(q)'
    <2>1. request'[k] # Idle /\ request'[k].pc = "done"
        BY <1>1
    <2>2. CASE q = k
        BY <2>1, <2>2
    <2>3. CASE q # k
        BY <1>1, <1>5, <2>3 DEF PipelineInv
    <2> QED BY <2>2, <2>3
<1>8. /\ table' \in Cases /\ now' \in 0..table'.maxTime
      /\ request' = [q \in Requests |-> request'[q]]
      /\ rows' = [q \in Requests |-> rows'[q]]
      /\ written' = [q \in Requests |-> written'[q]]
      /\ always' = [q \in Requests |-> always'[q]]
      /\ ever' = [q \in Requests |-> ever'[q]]
      /\ writer' \in [Requests -> Requests]
    BY DEF PipelineInv
<1> QED BY <1>6, <1>7, <1>8 DEF PipelineInv, Idle, NoRow

\* A step of the clock or of the application that changes the lists.
LEMMA SurroundingsMove ==
    ASSUME PipelineInv, UNCHANGED <<table, request, rows, writer, written>>,
           now' \in now..table.maxTime,
           always' = [r \in Requests |-> always'[r]], ever' = [r \in Requests |-> ever'[r]],
           \A r \in Requests :
               IF request[r].pc \in {"idle", "done"}
               THEN always'[r] = always[r] /\ ever'[r] = ever[r]
               ELSE /\ always'[r] \subseteq always[r] /\ ever[r] \subseteq ever'[r]
                    /\ always'[r] \subseteq getBlockedFields' /\ getBlockedFields' \subseteq ever'[r]
    PROVE  PipelineInv'
<1>1. now \in Nat /\ now' \in Nat /\ now <= now'
    BY CasesAssumption DEF PipelineInv
<1>2. ASSUME NEW r \in Requests, request[r] = Idle
      PROVE  always'[r] = {} /\ ever'[r] = {} /\ written'[r] = NoRow
    <2>1. request[r].pc = "idle"
        BY <1>2 DEF Idle
    <2> QED BY <1>2, <2>1 DEF PipelineInv
<1>3. ASSUME NEW r \in Requests, request[r] # Idle
      PROVE  RequestSound(r, request[r], always[r], ever[r], written[r], now)'
    <2>1. RequestSound(r, request[r], always[r], ever[r], written[r], now)
        BY <1>3 DEF PipelineInv
    <2>2. request[r].pc # "idle" /\ always[r] \subseteq ever[r]
        BY <2>1 DEF RequestSound, IsJob
    <2>3. /\ always'[r] \subseteq always[r] /\ ever[r] \subseteq ever'[r]
          /\ request[r].pc # "done" =>
                 always'[r] \subseteq getBlockedFields' /\ getBlockedFields' \subseteq ever'[r]
        BY <2>2
    <2>4. PICK job, al2, ev2, wr, t2 : /\ job = request[r] /\ al2 = always'[r] /\ ev2 = ever'[r]
                                      /\ wr = written[r] /\ t2 = now'
        OBVIOUS
    <2>5. RequestSound(r, job, al2, ev2, wr, t2)'
        BY <1>1, <2>1, <2>3, <2>4, RequestKept
    <2>6. job = request'[r] /\ wr = written'[r]
        BY <2>4
    <2> QED BY <2>4, <2>5, <2>6
<1>4. ASSUME NEW k \in Requests, rows[k] # NoRow
      PROVE  RowSound(k)'
    <2>1. RowSound(k)
        BY <1>4 DEF PipelineInv
    <2> QED BY <2>1, RowKept
<1>5. /\ table' \in Cases /\ now' \in 0..table'.maxTime
      /\ request' = [q \in Requests |-> request'[q]]
      /\ rows' = [q \in Requests |-> rows'[q]]
      /\ written' = [q \in Requests |-> written'[q]]
      /\ writer' \in [Requests -> Requests]
      /\ \A q \in Requests : request'[q] = Idle \/ request'[q].pc # "done" =>
             rows'[q] = NoRow /\ writer'[q] = q
    BY <1>1 DEF PipelineInv
<1> QED BY <1>2, <1>3, <1>4, <1>5 DEF PipelineInv, Idle, NoRow

-----------------------------------------------------------------------------
(* Steps that write nothing *)

\* A record is known by its fields.
LEMMA OneJob ==
    ASSUME NEW pc, NEW status, NEW op, NEW body, NEW row, NEW data, NEW since, NEW until,
           NEW job \in [pc : {pc}, status : {status}, op : {op}, body : {body}, row : {row},
                       data : {data}, since : {since}, until : {until}]
    PROVE  job = [pc |-> pc, status |-> status, op |-> op, body |-> body, row |-> row,
                  data |-> data, since |-> since, until |-> until]
    OBVIOUS

\* The local variables of a handler after a step of it.
LEMMA JobRecord ==
    ASSUME NEW job, IsJob(job)
    PROVE  job \in [pc : {job.pc}, status : {job.status}, op : {job.op}, body : {job.body},
                   row : {job.row}, data : {job.data}, since : {job.since}, until : {job.until}]
<1>1. PICK pc, status, op, body, row, data, since, until :
          /\ pc = job.pc /\ status = job.status /\ op = job.op /\ body = job.body
          /\ row = job.row /\ data = job.data /\ since = job.since /\ until = job.until
    OBVIOUS
<1>2. job = [pc |-> pc, status |-> status, op |-> op, body |-> body, row |-> row,
             data |-> data, since |-> since, until |-> until]
    BY <1>1, Zenon DEF IsJob
<1>3. job \in [pc : {pc}, status : {status}, op : {op}, body : {body}, row : {row},
               data : {data}, since : {since}, until : {until}]
    BY <1>2
<1> QED BY <1>1, <1>3, Zenon

LEMMA JobAnswered ==
    ASSUME NEW old, IsJob(old), NEW p, NEW s
    PROVE  [old EXCEPT !.pc = p, !.status = s] =
               [pc |-> p, status |-> s, op |-> old.op, body |-> old.body, row |-> old.row,
                data |-> old.data, since |-> old.since, until |-> old.until]
<1>1. PICK job : job = [old EXCEPT !.pc = p, !.status = s]
    OBVIOUS
<1>2. job \in [pc : {p}, status : {s}, op : {old.op}, body : {old.body},
               row : {old.row}, data : {old.data}, since : {old.since}, until : {old.until}]
    BY <1>1, JobRecord
<1>3. job = [pc |-> p, status |-> s, op |-> old.op, body |-> old.body, row |-> old.row,
             data |-> old.data, since |-> old.since, until |-> old.until]
    BY <1>2, OneJob
<1> QED BY <1>1, <1>3

LEMMA JobCleaned ==
    ASSUME NEW old, IsJob(old), NEW p, NEW d
    PROVE  [old EXCEPT !.pc = p, !.data = d] =
               [pc |-> p, status |-> old.status, op |-> old.op, body |-> old.body, row |-> old.row,
                data |-> d, since |-> old.since, until |-> old.until]
<1>1. PICK job : job = [old EXCEPT !.pc = p, !.data = d]
    OBVIOUS
<1>2. job \in [pc : {p}, status : {old.status}, op : {old.op}, body : {old.body},
               row : {old.row}, data : {d}, since : {old.since}, until : {old.until}]
    BY <1>1, JobRecord
<1>3. job = [pc |-> p, status |-> old.status, op |-> old.op, body |-> old.body, row |-> old.row,
             data |-> d, since |-> old.since, until |-> old.until]
    BY <1>2, OneJob
<1> QED BY <1>1, <1>3

LEMMA JobInjected ==
    ASSUME NEW old, IsJob(old), NEW p, NEW s, NEW d
    PROVE  [old EXCEPT !.data = d, !.pc = p, !.status = s] =
               [pc |-> p, status |-> s, op |-> old.op, body |-> old.body, row |-> old.row,
                data |-> d, since |-> old.since, until |-> old.until]
<1>1. PICK job : job = [old EXCEPT !.data = d, !.pc = p, !.status = s]
    OBVIOUS
<1>2. job \in [pc : {p}, status : {s}, op : {old.op}, body : {old.body},
               row : {old.row}, data : {d}, since : {old.since}, until : {old.until}]
    BY <1>1, JobRecord
<1>3. job = [pc |-> p, status |-> s, op |-> old.op, body |-> old.body, row |-> old.row,
             data |-> d, since |-> old.since, until |-> old.until]
    BY <1>2, OneJob
<1> QED BY <1>1, <1>3

LEMMA JobExecuted ==
    ASSUME NEW old, IsJob(old), NEW p, NEW s, NEW u
    PROVE  [old EXCEPT !.pc = p, !.status = s, !.until = u] =
               [pc |-> p, status |-> s, op |-> old.op, body |-> old.body, row |-> old.row,
                data |-> old.data, since |-> old.since, until |-> u]
<1>1. PICK job, answered : /\ job = [old EXCEPT !.pc = p, !.status = s, !.until = u]
                           /\ answered = [old EXCEPT !.pc = p, !.status = s]
    OBVIOUS
<1>2. answered = [pc |-> p, status |-> s, op |-> old.op, body |-> old.body, row |-> old.row,
                  data |-> old.data, since |-> old.since, until |-> old.until]
    BY <1>1, JobAnswered
<1>3. answered \in [pc : {p}, status : {s}, op : {old.op}, body : {old.body},
                    row : {old.row}, data : {old.data}, since : {old.since}, until : {old.until}]
    BY <1>2
<1>4. job = [answered EXCEPT !.until = u]
    BY <1>1
<1>5. job \in [pc : {p}, status : {s}, op : {old.op}, body : {old.body},
               row : {old.row}, data : {old.data}, since : {old.since}, until : {u}]
    BY <1>3, <1>4
<1>6. job = [pc |-> p, status |-> s, op |-> old.op, body |-> old.body, row |-> old.row,
             data |-> old.data, since |-> old.since, until |-> u]
    BY <1>5, OneJob
<1> QED BY <1>1, <1>6

LEMMA ReceiveKeeps ==
    ASSUME PipelineInv, NEW r \in Requests, NEW op \in {"create", "update"},
           NEW body \in table.posts \cup table.puts, NEW k \in Requests, Receive(r, op, body, k)
    PROVE  PipelineInv'
<1> DEFINE status == Checked(op, body)
           pc == IF status = "none" THEN "valid" ELSE "done"
           job == [pc |-> pc, status |-> status, op |-> op, body |-> body,
                   row |-> k, data |-> NoRow, since |-> now, until |-> now]
<1>1. /\ request[r] = Idle /\ request' = [request EXCEPT ![r] = job]
      /\ always' = [always EXCEPT ![r] = getBlockedFields]
      /\ ever' = [ever EXCEPT ![r] = getBlockedFields]
      /\ UNCHANGED <<table, blocked, now, rows, writer, written>>
    BY DEF Receive
<1>2. /\ status \in {"none", "invalid", "nokey"}
      /\ status = "none" => Accepted(op, body)
      /\ status = "invalid" => ~Accepted(op, body)
    BY Zenon DEF Checked, Accepted
<1>3. /\ now \in Nat /\ \A f \in DOMAIN body : body[f] \in Values
    BY CasesAssumption DEF PipelineInv
<1> HIDE DEF status
<1>4. /\ job.pc = pc /\ job.status = status /\ job.op = op /\ job.body = body /\ job.row = k
      /\ job.data = NoRow /\ job.since = now /\ job.until = now
      /\ job = [pc |-> job.pc, status |-> job.status, op |-> job.op, body |-> job.body,
                row |-> job.row, data |-> job.data, since |-> job.since, until |-> job.until]
      /\ job # Idle
    <2>1. "status" \in DOMAIN job /\ "status" \notin DOMAIN Idle
        BY DEF Idle
    <2>2. job # Idle
        BY <2>1
    <2> QED BY <2>2
<1>5. (status = "none" => pc = "valid") /\ (status # "none" => pc = "done")
    OBVIOUS
<1> HIDE DEF job, pc
<1>6. RequestSound(r, job, getBlockedFields, getBlockedFields, NoRow, now)
    <2>1. IsJob(job)
        BY <1>2, <1>3, <1>4, <1>5 DEF IsJob
    <2>2. kDefaultBlocked \subseteq getBlockedFields
        BY DEF getBlockedFields
    <2> QED BY <1>2, <1>3, <1>4, <1>5, <2>1, <2>2 DEF RequestSound, NoRow
<1> QED BY <1>1, <1>4, <1>6, RequestMoves

\* The steps of a request that has started change nothing about what was
\* blocked while it ran.
LEMMA AnswerKeeps ==
    ASSUME PipelineInv, NEW r \in Requests, request[r].pc = "ready",
           NEW status \in {"notfound", "refused"}, Finish(r, status),
           UNCHANGED <<table, blocked, now, rows, writer, always, ever, written>>
    PROVE  PipelineInv'
<1>1. request[r] # Idle /\ request[r].pc # "done"
    BY DEF Idle
<1>2. RequestSound(r, request[r], always[r], ever[r], written[r], now)
    BY <1>1 DEF PipelineInv
<1>3. written[r] = NoRow
    BY <1>2 DEF RequestSound
<1> DEFINE old == request[r]
           job == [old EXCEPT !.pc = "done", !.status = status]
<1>4. request' = [request EXCEPT ![r] = job]
    BY DEF Finish
<1>5. /\ old = [pc |-> old.pc, status |-> old.status, op |-> old.op, body |-> old.body,
                row |-> old.row, data |-> old.data, since |-> old.since, until |-> old.until]
    BY <1>2 DEF RequestSound, IsJob
<1>6. job = [pc |-> "done", status |-> status, op |-> old.op, body |-> old.body,
             row |-> old.row, data |-> old.data, since |-> old.since, until |-> old.until]
    <2>1. IsJob(old)
        BY <1>2 DEF RequestSound
    <2> HIDE DEF old
    <2> QED BY <2>1, JobAnswered
<1>7. RequestSound(r, job, always[r], ever[r], NoRow, now)
    <2> HIDE DEF job
    <2>1. IsJob(job)
        BY <1>2, <1>6 DEF RequestSound, IsJob
    <2>2. /\ job.pc = "done" /\ job.status = status
          /\ job.op = old.op /\ job.body = old.body
        BY <1>6
    <2>3. Accepted(old.op, old.body)
        BY <1>2 DEF RequestSound
    <2> QED BY <1>2, <2>1, <2>2, <2>3 DEF RequestSound, NoRow
<1>8. job # Idle
    BY <1>6 DEF Idle
<1>9. /\ always' = [always EXCEPT ![r] = always[r]]
      /\ ever' = [ever EXCEPT ![r] = ever[r]]
      /\ UNCHANGED <<table, blocked, now, rows, writer, written>>
    BY DEF PipelineInv
<1>10. PICK j, al, ev : j = job /\ al = always[r] /\ ev = ever[r]
    OBVIOUS
<1> HIDE DEF job, old
<1>11. /\ request' = [request EXCEPT ![r] = j] /\ j # Idle
       /\ always' = [always EXCEPT ![r] = al] /\ ever' = [ever EXCEPT ![r] = ev]
       /\ RequestSound(r, j, al, ev, NoRow, now)
    BY <1>4, <1>7, <1>8, <1>9, <1>10
<1> QED BY <1>1, <1>9, <1>11, RequestMoves

LEMMA SanitizeKeeps ==
    ASSUME PipelineInv, NEW r \in Requests, Sanitize(r)
    PROVE  PipelineInv'
<1>1. request[r].pc = "valid" /\ request[r] # Idle
    BY DEF Sanitize, Idle
<1>2. RequestSound(r, request[r], always[r], ever[r], written[r], now)
    BY <1>1 DEF PipelineInv
<1>3. written[r] = NoRow
    BY <1>1, <1>2 DEF RequestSound
<1> DEFINE old == request[r]
           clients == [f \in DOMAIN old.body |-> [client |-> old.body[f]]]
           clean == sanitize(clients)
           job == [old EXCEPT !.pc = "clean", !.data = clean]
<1>4. request' = [request EXCEPT ![r] = job]
    BY DEF Sanitize
<1>5. /\ DOMAIN clean = DOMAIN old.body \ getBlockedFields
      /\ \A c \in DOMAIN clean : clean[c] = [client |-> old.body[c]]
    BY DEF sanitize, Without
<1> HIDE DEF clean
<1>6. /\ old = [pc |-> old.pc, status |-> old.status, op |-> old.op, body |-> old.body,
                row |-> old.row, data |-> old.data, since |-> old.since, until |-> old.until]
    BY <1>2 DEF RequestSound, IsJob
<1>7. job = [pc |-> "clean", status |-> old.status, op |-> old.op, body |-> old.body,
             row |-> old.row, data |-> clean, since |-> old.since, until |-> old.until]
    BY <1>2, JobCleaned, Zenon DEF RequestSound
<1>8. RequestSound(r, job, always[r], ever[r], NoRow, now)
    <2> HIDE DEF job
    <2>1. IsJob(job)
        BY <1>2, <1>7 DEF RequestSound, IsJob
    <2>2. /\ job.pc = "clean" /\ job.op = old.op /\ job.body = old.body
          /\ job.since = old.since /\ job.data = clean
        BY <1>7
    <2>3. /\ always[r] \subseteq getBlockedFields /\ getBlockedFields \subseteq ever[r]
          /\ Accepted(old.op, old.body) /\ old.since <= now
        BY <1>1, <1>2 DEF RequestSound
    <2>4. Stripped(job, always[r], ever[r])
        BY <1>5, <2>2, <2>3 DEF Stripped, getBlockedFields
    <2> QED BY <1>2, <2>1, <2>2, <2>3, <2>4 DEF RequestSound, NoRow
<1>9. job # Idle
    BY <1>7 DEF Idle
<1>10. /\ always' = [always EXCEPT ![r] = always[r]] /\ ever' = [ever EXCEPT ![r] = ever[r]]
       /\ UNCHANGED <<table, blocked, now, rows, writer, written>>
    BY DEF PipelineInv, Sanitize
<1> HIDE DEF job
<1> QED BY <1>1, <1>4, <1>8, <1>9, <1>10, RequestMoves

LEMMA ChangeBlockedKeeps ==
    ASSUME PipelineInv, NEW fs, ChangeBlocked(fs)
    PROVE  PipelineInv'
<1>1. getBlockedFields' = kDefaultBlocked \cup fs
    BY DEF ChangeBlocked, getBlockedFields, kDefaultBlocked
<1>2. ASSUME NEW r \in Requests, request[r].pc \notin {"idle", "done"}
      PROVE  /\ always'[r] = always[r] \cap (kDefaultBlocked \cup fs)
             /\ ever'[r] = ever[r] \cup fs /\ kDefaultBlocked \subseteq ever[r]
    <2>1. request[r] # Idle
        BY <1>2 DEF Idle
    <2>2. kDefaultBlocked \subseteq ever[r]
        BY <2>1 DEF PipelineInv, RequestSound
    <2> QED BY <1>2, <2>2 DEF ChangeBlocked
<1>3. ASSUME NEW r \in Requests, request[r].pc \in {"idle", "done"}
      PROVE  always'[r] = always[r] /\ ever'[r] = ever[r]
    BY <1>3 DEF ChangeBlocked
<1>4. ASSUME NEW r \in Requests
      PROVE  IF request[r].pc \in {"idle", "done"}
             THEN always'[r] = always[r] /\ ever'[r] = ever[r]
             ELSE /\ always'[r] \subseteq always[r] /\ ever[r] \subseteq ever'[r]
                  /\ always'[r] \subseteq getBlockedFields' /\ getBlockedFields' \subseteq ever'[r]
    <2>1. CASE request[r].pc \in {"idle", "done"}
        BY <1>3, <2>1
    <2>2. CASE request[r].pc \notin {"idle", "done"}
        BY <1>1, <1>2, <2>2
    <2> QED BY <2>1, <2>2
<1>5. /\ always' = [r \in Requests |-> always'[r]] /\ ever' = [r \in Requests |-> ever'[r]]
      /\ UNCHANGED <<table, now, request, rows, writer, written>>
    BY DEF ChangeBlocked
<1>6. now' \in now..table.maxTime
    BY <1>5, CasesAssumption DEF PipelineInv
<1> QED BY <1>4, <1>5, <1>6, SurroundingsMove

LEMMA TickKeeps ==
    ASSUME PipelineInv, Tick
    PROVE  PipelineInv'
<1>1. now' \in now..table.maxTime
    BY CasesAssumption DEF Tick, PipelineInv
<1>2. /\ UNCHANGED <<table, request, rows, writer, written>>
      /\ always' = [r \in Requests |-> always'[r]] /\ ever' = [r \in Requests |-> ever'[r]]
    BY DEF Tick, PipelineInv
<1>3. getBlockedFields' = getBlockedFields /\ always' = always /\ ever' = ever
    BY DEF Tick, getBlockedFields, kDefaultBlocked
<1>4. ASSUME NEW r \in Requests, request[r].pc \notin {"idle", "done"}
      PROVE  always[r] \subseteq getBlockedFields /\ getBlockedFields \subseteq ever[r]
    <2>1. request[r] # Idle
        BY <1>4 DEF Idle
    <2> QED BY <1>4, <2>1 DEF PipelineInv, RequestSound, IsJob
<1> QED BY <1>1, <1>2, <1>3, <1>4, SurroundingsMove

-----------------------------------------------------------------------------
(* The injectors *)

LEMMA AcceptedHasColumns ==
    ASSUME NEW op, NEW body, Accepted(op, body)
    PROVE  DOMAIN body \subseteq Columns
    BY DEF Accepted, validateCreate, validateUpdate, hasColumn

LEMMA InjectedDomain ==
    ASSUME NEW data, NEW add, NEW d, d = Injected(data, add)
    PROVE  DOMAIN d = DOMAIN data \cup (DOMAIN add \cap Columns)
    BY DEF Injected

LEMMA InjectedValues ==
    ASSUME NEW data, NEW add, NEW d, d = Injected(data, add), NEW f \in DOMAIN d
    PROVE  (f \in DOMAIN add => d[f] = add[f]) /\ (f \notin DOMAIN add => d[f] = data[f])
    BY DEF Injected

\* What the database wants of a POST that was accepted is in its body, unless
\* it is a field that the server fills or that FieldGuard strips.
LEMMA WantedIsSent ==
    ASSUME table \in Cases, NEW body, validateCreate(body),
           NEW c \in Columns, NeedsValue(c), ~Misjudged(c), c \notin autoFields
    PROVE  c \in DOMAIN body /\ ~IsNull(body[c])
<1>1. /\ table.columns[c].nullable = FALSE /\ table.columns[c].default = FALSE
      /\ table.columns[c].auto = FALSE
    BY CasesAssumption DEF NeedsValue, Columns
<1>2. ~Meta[c].isAutoIncrement
    BY <1>1 DEF Misjudged
<1>3. Required(Meta[c])
    BY <1>1, MetaDescribes DEF Required
<1> QED BY <1>2, <1>3 DEF validateCreate

\* After the injectors of a POST.
LEMMA CreateFills ==
    ASSUME table \in Cases, NEW r, NEW job, NEW al, NEW ev, job.op = "create",
           Stripped(job, al, ev), kDefaultBlocked \subseteq ev,
           validateCreate(job.body), job.since \in Nat, now \in Nat, job.since <= now,
           NEW job2, job2.op = "create", job2.body = job.body, job2.since = job.since,
           job2.data = injectCode(injectCreateWithMeta(job.data, r), r)
    PROVE  /\ Filled(r, job2, al, ev, now)
           /\ DOMAIN job2.data = {} => DOMAIN job.body \subseteq ev
<1> DEFINE body == job.body
           d0 == job.data
           d1 == injectCreateWithMeta(d0, r)
           d == job2.data
           clock == [clock |-> now]
           user == [user |-> r]
           uuid == [uuid |-> r]
           sent == "code" \in DOMAIN d1 /\ ~IsNull(d1["code"].client)
                                        /\ d1["code"].client # EmptyString
<1>1. /\ DOMAIN d0 \subseteq DOMAIN body /\ DOMAIN body \subseteq Columns
      /\ DOMAIN body \ ev \subseteq DOMAIN d0
      /\ DOMAIN d0 \cap (al \cup kDefaultBlocked) = {}
      /\ \A c \in DOMAIN d0 : d0[c] = [client |-> body[c]]
    <2>1. DOMAIN body \subseteq Columns
        BY DEF validateCreate, hasColumn
    <2> QED BY <2>1 DEF Stripped
<1>2. \A c \in DOMAIN d0 : c \notin AuditFields
    BY <1>1 DEF AuditFields, kDefaultBlocked
<1>3. /\ DOMAIN d1 = DOMAIN d0 \cup (AuditFields \cap Columns)
      /\ \A c \in DOMAIN d0 : d1[c] = [client |-> body[c]]
      /\ \A c \in Columns \cap {"created_at", "updated_at"} : d1[c] = clock
      /\ \A c \in Columns \cap {"created_by", "modified_by"} : d1[c] = user
    <2> DEFINE add == [created_at |-> clock, updated_at |-> clock,
                       created_by |-> user, modified_by |-> user]
    <2>1. /\ DOMAIN add = AuditFields
          /\ add["created_at"] = clock /\ add["updated_at"] = clock
          /\ add["created_by"] = user /\ add["modified_by"] = user
        BY DEF AuditFields
    <2>2. d1 = Injected(d0, add)
        BY DEF injectCreateWithMeta
    <2> HIDE DEF add, clock, user, d1, d0
    <2>3. /\ DOMAIN d1 = DOMAIN d0 \cup (AuditFields \cap Columns)
          /\ \A f \in DOMAIN d1 : d1[f] = IF f \in AuditFields THEN add[f] ELSE d0[f]
        <3>1. DOMAIN d1 = DOMAIN d0 \cup (DOMAIN add \cap Columns)
            BY <2>2, InjectedDomain
        <3>2. ASSUME NEW f \in DOMAIN d1
              PROVE  (f \in DOMAIN add => d1[f] = add[f]) /\ (f \notin DOMAIN add => d1[f] = d0[f])
            BY <2>2, <3>2, InjectedValues
        <3> QED BY <2>1, <3>1, <3>2
    <2>4. \A c \in DOMAIN d0 : d1[c] = [client |-> body[c]]
        BY <1>1, <1>2, <2>3
    <2>5. \A c \in Columns \cap {"created_at", "updated_at"} : d1[c] = clock
        BY <2>1, <2>3 DEF AuditFields
    <2>6. \A c \in Columns \cap {"created_by", "modified_by"} : d1[c] = user
        BY <2>1, <2>3 DEF AuditFields
    <2> QED BY <2>3, <2>4, <2>5, <2>6
<1>4. /\ sent => d = d1
      /\ ~sent => /\ DOMAIN d = DOMAIN d1 \cup ({"code"} \cap Columns)
                  /\ \A c \in DOMAIN d : d[c] = IF c = "code" THEN uuid ELSE d1[c]
    <2> DEFINE add == [code |-> uuid]
    <2>1. DOMAIN add = {"code"} /\ add["code"] = uuid
        OBVIOUS
    <2>2. sent => d = d1
        BY DEF injectCode
    <2>3. ~sent => d = Injected(d1, add)
        BY DEF injectCode
    <2> HIDE DEF add, uuid, sent, d, d1
    <2>4. ~sent => DOMAIN d = DOMAIN d1 \cup (DOMAIN add \cap Columns)
        BY <2>3, InjectedDomain
    <2>5. ASSUME ~sent, NEW f \in DOMAIN d
          PROVE  (f \in DOMAIN add => d[f] = add[f]) /\ (f \notin DOMAIN add => d[f] = d1[f])
        BY <2>3, <2>5, InjectedValues
    <2> QED BY <2>1, <2>2, <2>4, <2>5
<1>5. sent <=> /\ "code" \in DOMAIN d0 /\ ~IsNull(body["code"]) /\ body["code"] # EmptyString
    <2>1. "code" \in DOMAIN d1 <=> "code" \in DOMAIN d0
        BY <1>3 DEF AuditFields
    <2>2. "code" \in DOMAIN d0 => d1["code"].client = body["code"]
        <3> HIDE DEF sent, d1, d0, d, body
        <3> QED BY <1>3
    <2> QED BY <2>1, <2>2
<1> HIDE DEF sent, d1, d0, d, body, clock, user, uuid
<1>6. /\ DOMAIN d \subseteq Columns /\ DOMAIN d0 \subseteq DOMAIN d
      /\ AuditFields \cap Columns \subseteq DOMAIN d
      /\ "code" \in Columns => "code" \in DOMAIN d
      /\ DOMAIN d \subseteq DOMAIN d0 \cup AuditFields \cup {"code"}
    BY <1>1, <1>3, <1>4, <1>5
<1>7. /\ \A c \in Columns \cap {"created_at", "updated_at"} : d[c] = clock
      /\ \A c \in Columns \cap {"created_by", "modified_by"} : d[c] = user
      /\ \A c \in DOMAIN d0 \ {"code"} : d[c] = [client |-> body[c]]
    BY <1>1, <1>3, <1>4, <1>6 DEF AuditFields
<1>8. /\ sent => d["code"] = [client |-> body["code"]]
      /\ ~sent /\ "code" \in DOMAIN d => d["code"] = uuid
    BY <1>3, <1>4, <1>5
<1>9. ASSUME NEW c \in DOMAIN d
      PROVE  FromClient(job2, al, c) \/ FromServer(r, job2, now, c)
    <2>1. CASE c \in DOMAIN d0 \ {"code"}
        <3>1. c \in DOMAIN job2.body \ (al \cup kDefaultBlocked)
            BY <1>1, <2>1 DEF body, d0
        <3>2. job2.data[c] = [client |-> job2.body[c]]
            BY <1>7, <2>1 DEF body, d
        <3> QED BY <3>1, <3>2 DEF FromClient
    <2>2. CASE c \in AuditFields
        <3>1. c \in Columns
            BY <1>6
        <3>2. clock \in Stamps(job2, now)
            BY DEF Stamps, clock
        <3>3. \/ c \in {"created_at", "updated_at"} /\ job2.data[c] \in Stamps(job2, now)
              \/ c \in {"created_by", "modified_by"} /\ job2.data[c] = [user |-> r]
            BY <1>7, <2>2, <3>1, <3>2 DEF AuditFields, d, user
        <3> QED BY <3>3 DEF FromServer
    <2>3. CASE c = "code" /\ sent
        <3>1. c \in DOMAIN job2.body \ (al \cup kDefaultBlocked)
            BY <1>1, <1>5, <2>3 DEF body, d0
        <3>2. job2.data[c] = [client |-> job2.body[c]]
            BY <1>8, <2>3 DEF body, d
        <3> QED BY <3>1, <3>2 DEF FromClient
    <2>4. CASE c = "code" /\ ~sent
        <3>1. job2.data[c] = [uuid |-> r]
            BY <1>8, <1>9, <2>4 DEF d, uuid
        <3> QED BY <2>4, <3>1 DEF FromServer
    <2> QED BY <1>6, <1>9, <2>1, <2>2, <2>3, <2>4
<1>10. ASSUME NEW c \in DOMAIN body \ ev, ~NoValue("create", body, c)
       PROVE  c \in DOMAIN d /\ d[c] = [client |-> body[c]]
    <2>1. c \in DOMAIN d0
        BY <1>1, <1>10
    <2>2. CASE c = "code"
        <3>1. sent
            BY <1>5, <1>10, <2>1, <2>2 DEF NoValue
        <3> QED BY <1>6, <1>8, <2>1, <2>2, <3>1
    <2>3. CASE c # "code"
        BY <1>6, <1>7, <2>1, <2>3
    <2> QED BY <2>2, <2>3
<1>11. ASSUME NEW c \in Columns, NeedsValue(c), ~Misjudged(c)
       PROVE  \/ c \in DOMAIN d /\ ~IsNullJson(d[c])
              \/ c \in ev \ AuditFields
    <2>1. CASE c \in AuditFields
        <3>1. c \in DOMAIN d /\ (d[c] = clock \/ d[c] = user)
            BY <1>6, <1>7, <2>1 DEF AuditFields
        <3>2. ~IsNullJson(clock) /\ ~IsNullJson(user)
            BY DEF IsNullJson, clock, user
        <3> QED BY <3>1, <3>2
    <2>2. CASE c \in kDefaultBlocked \ AuditFields
        BY <2>2
    <2>3. CASE c = "code"
        <3>1. c \in DOMAIN d
            BY <1>6, <2>3
        <3>2. CASE sent
            <4>1. d[c] = [client |-> body["code"]] /\ ~IsNull(body["code"])
                BY <1>5, <1>8, <2>3, <3>2
            <4> QED BY <3>1, <4>1 DEF IsNullJson
        <3>3. CASE ~sent
            <4>1. d[c] = uuid
                BY <1>8, <2>3, <3>1, <3>3
            <4>2. ~IsNullJson(uuid)
                BY DEF IsNullJson, uuid
            <4> QED BY <3>1, <4>1, <4>2
        <3> QED BY <3>2, <3>3
    <2>4. CASE c \notin autoFields
        <3>1. c \in DOMAIN body /\ ~IsNull(body[c])
            BY <1>11, <2>4, WantedIsSent DEF body
        <3>2. c # "code" /\ c \notin AuditFields
            BY <2>4 DEF autoFields, AuditFields
        <3>3. CASE c \in ev
            BY <3>2, <3>3
        <3>4. CASE c \notin ev
            <4>1. c \in DOMAIN d /\ d[c] = [client |-> body[c]]
                BY <1>1, <1>6, <1>7, <3>1, <3>2, <3>4
            <4> QED BY <3>1, <4>1 DEF IsNullJson
        <3> QED BY <3>3, <3>4
    <2> QED BY <2>1, <2>2, <2>3, <2>4 DEF autoFields, kDefaultBlocked
<1>12. Filled(r, job2, al, ev, now)
    <2>1. \A c \in Columns \cap {"updated_at", "modified_by"} : c \in DOMAIN job2.data
        BY <1>6 DEF AuditFields, d
    <2>2. \A c \in Columns \cap {"created_at", "created_by"} :
              c \in DOMAIN job2.data <=> job2.op = "create"
        BY <1>6 DEF AuditFields, d
    <2>3. \A c \in DOMAIN job2.body \ ev : ~NoValue(job2.op, job2.body, c) =>
              c \in DOMAIN job2.data /\ job2.data[c] = [client |-> job2.body[c]]
        BY <1>10 DEF body, d
    <2>4. DOMAIN job2.data \subseteq Columns
        BY <1>6 DEF d
    <2>5. \A c \in DOMAIN job2.data : FromClient(job2, al, c) \/ FromServer(r, job2, now, c)
        BY <1>9 DEF d
    <2>6. \A c \in Columns : NeedsValue(c) /\ ~Misjudged(c) =>
              \/ c \in DOMAIN job2.data /\ ~IsNullJson(job2.data[c])
              \/ c \in ev \ AuditFields
        BY <1>11 DEF d
    <2> QED BY <2>1, <2>2, <2>3, <2>4, <2>5, <2>6, Zenon DEF Filled
<1>13. DOMAIN job2.data = {} => DOMAIN job.body \subseteq ev
    BY <1>1, <1>6 DEF d, body
<1> QED BY <1>12, <1>13

\* After the injectors of a PUT.
LEMMA UpdateFills ==
    ASSUME table \in Cases, NEW r, NEW job, NEW al, NEW ev, job.op = "update",
           Stripped(job, al, ev), kDefaultBlocked \subseteq ev,
           validateUpdate(job.body), job.since \in Nat, now \in Nat, job.since <= now,
           NEW job2, job2.op = "update", job2.body = job.body, job2.since = job.since,
           job2.data = injectUpdateWithMeta(job.data, r)
    PROVE  /\ Filled(r, job2, al, ev, now)
           /\ DOMAIN job2.data = {} => DOMAIN job.body \subseteq ev
<1> DEFINE body == job.body
           d0 == job.data
           d == job2.data
           clock == [clock |-> now]
           user == [user |-> r]
           add == [updated_at |-> clock, modified_by |-> user]
           fills == {"updated_at", "modified_by"}
<1>1. /\ DOMAIN d0 \subseteq DOMAIN body /\ DOMAIN body \subseteq Columns
      /\ DOMAIN body \ ev \subseteq DOMAIN d0
      /\ DOMAIN d0 \cap (al \cup kDefaultBlocked) = {}
      /\ \A c \in DOMAIN d0 : d0[c] = [client |-> body[c]]
    <2>1. DOMAIN body \subseteq Columns
        BY DEF validateUpdate, hasColumn
    <2> QED BY <2>1 DEF Stripped
<1>2. \A c \in DOMAIN d0 : c \notin AuditFields
    BY <1>1 DEF AuditFields, kDefaultBlocked
<1>3. /\ DOMAIN d = DOMAIN d0 \cup (fills \cap Columns)
      /\ \A c \in DOMAIN d0 : d[c] = [client |-> body[c]]
      /\ "updated_at" \in DOMAIN d => d["updated_at"] = clock
      /\ "modified_by" \in DOMAIN d => d["modified_by"] = user
    <2>1. DOMAIN add = fills /\ add["updated_at"] = clock /\ add["modified_by"] = user
        OBVIOUS
    <2>2. d = Injected(d0, add)
        BY DEF injectUpdateWithMeta
    <2> HIDE DEF add, clock, user, d, d0
    <2>3. DOMAIN d = DOMAIN d0 \cup (DOMAIN add \cap Columns)
        BY <2>2, InjectedDomain
    <2>4. ASSUME NEW f \in DOMAIN d
          PROVE  (f \in DOMAIN add => d[f] = add[f]) /\ (f \notin DOMAIN add => d[f] = d0[f])
        BY <2>2, <2>4, InjectedValues
    <2>5. \A c \in DOMAIN d0 : c \notin fills
        BY <1>2 DEF AuditFields
    <2> QED BY <1>1, <2>1, <2>3, <2>4, <2>5
<1> HIDE DEF d0, d, body, clock, user, add
<1>4. DOMAIN d \subseteq Columns /\ DOMAIN d0 \subseteq DOMAIN d
    BY <1>1, <1>3
<1>5. ASSUME NEW c \in DOMAIN d
      PROVE  FromClient(job2, al, c) \/ FromServer(r, job2, now, c)
    <2>1. CASE c \in DOMAIN d0
        <3>1. c \in DOMAIN job2.body \ (al \cup kDefaultBlocked)
            BY <1>1, <2>1 DEF body, d0
        <3>2. job2.data[c] = [client |-> job2.body[c]]
            BY <1>3, <2>1 DEF body, d
        <3> QED BY <3>1, <3>2 DEF FromClient
    <2>2. CASE c = "updated_at"
        <3>1. clock \in Stamps(job2, now)
            BY DEF Stamps, clock
        <3>2. job2.data[c] \in Stamps(job2, now)
            BY <1>3, <1>5, <2>2, <3>1 DEF d
        <3> QED BY <2>2, <3>2 DEF FromServer
    <2>3. CASE c = "modified_by"
        <3>1. job2.data[c] = [user |-> r]
            BY <1>3, <1>5, <2>3 DEF d, user
        <3> QED BY <2>3, <3>1 DEF FromServer
    <2> QED BY <1>3, <1>5, <2>1, <2>2, <2>3
<1>6. Filled(r, job2, al, ev, now)
    <2>1. \A c \in Columns \cap {"updated_at", "modified_by"} : c \in DOMAIN job2.data
        BY <1>3 DEF d
    <2>2. \A c \in Columns \cap {"created_at", "created_by"} :
              c \in DOMAIN job2.data <=> job2.op = "create"
        BY <1>2, <1>3 DEF AuditFields, d
    <2>3. \A c \in DOMAIN job2.body \ ev : ~NoValue(job2.op, job2.body, c) =>
              c \in DOMAIN job2.data /\ job2.data[c] = [client |-> job2.body[c]]
        BY <1>1, <1>3, <1>4 DEF body, d
    <2>4. DOMAIN job2.data \subseteq Columns
        BY <1>4 DEF d
    <2>5. \A c \in DOMAIN job2.data : FromClient(job2, al, c) \/ FromServer(r, job2, now, c)
        BY <1>5 DEF d
    <2>6. job2.op # "create"
        OBVIOUS
    <2> QED BY <2>1, <2>2, <2>3, <2>4, <2>5, <2>6, Zenon DEF Filled
<1>7. DOMAIN job2.data = {} => DOMAIN job.body \subseteq ev
    BY <1>1, <1>4 DEF d, body
<1> QED BY <1>6, <1>7

LEMMA InjectKeeps ==
    ASSUME PipelineInv, NEW r \in Requests, Inject(r)
    PROVE  PipelineInv'
<1>1. request[r].pc = "clean" /\ request[r] # Idle
    BY DEF Inject, Idle
<1>2. RequestSound(r, request[r], always[r], ever[r], written[r], now)
    BY <1>1 DEF PipelineInv
<1>3. written[r] = NoRow
    BY <1>1, <1>2 DEF RequestSound
<1> DEFINE old == request[r]
           data == IF old.op = "create"
                   THEN injectCode(injectCreateWithMeta(old.data, r), r)
                   ELSE injectUpdateWithMeta(old.data, r)
           status == Built(data)
           pc == IF status = "none" THEN "ready" ELSE "done"
           job == [old EXCEPT !.data = data, !.pc = pc, !.status = status]
<1>4. request' = [request EXCEPT ![r] = job]
    BY DEF Inject
<1>5. IsJob(old) /\ old.op \in {"create", "update"}
    BY <1>2 DEF RequestSound, IsJob
<1>6. /\ old.op = "create" => data = injectCode(injectCreateWithMeta(old.data, r), r)
      /\ old.op = "update" => data = injectUpdateWithMeta(old.data, r)
    OBVIOUS
<1>7. /\ status \in {"empty", "none", "nocolumn"}
      /\ status = "empty" => DOMAIN data = {}
      /\ status = "nocolumn" => ~(DOMAIN data \subseteq Columns)
    BY DEF Built, hasColumn
<1>8. pc = (IF status = "none" THEN "ready" ELSE "done")
    OBVIOUS
<1> HIDE DEF data, status, pc
<1>9. job = [pc |-> pc, status |-> status, op |-> old.op, body |-> old.body,
             row |-> old.row, data |-> data, since |-> old.since, until |-> old.until]
    <2>1. PICK p, s, d, o : p = pc /\ s = status /\ d = data /\ o = old
        OBVIOUS
    <2>2. IsJob(o)
        BY <1>5, <2>1
    <2>3. [o EXCEPT !.data = d, !.pc = p, !.status = s] =
              [pc |-> p, status |-> s, op |-> o.op, body |-> o.body, row |-> o.row,
               data |-> d, since |-> o.since, until |-> o.until]
        BY <2>2, JobInjected
    <2> QED BY <2>1, <2>3
<1> HIDE DEF job
<1>10. /\ job.pc = pc /\ job.status = status /\ job.op = old.op /\ job.body = old.body
       /\ job.row = old.row /\ job.data = data /\ job.since = old.since
       /\ job.until = old.until /\ job # Idle
    <2>1. "op" \in DOMAIN job /\ "op" \notin DOMAIN Idle
        BY <1>9 DEF Idle
    <2>2. job # Idle
        BY <2>1
    <2> QED BY <1>9, <2>2
<1>11. /\ always[r] \subseteq getBlockedFields /\ getBlockedFields \subseteq ever[r]
       /\ Accepted(old.op, old.body) /\ old.since <= now /\ old.since \in Nat /\ now \in Nat
       /\ Stripped(old, always[r], ever[r]) /\ kDefaultBlocked \subseteq ever[r]
    BY <1>1, <1>2, CasesAssumption DEF RequestSound, PipelineInv, IsJob
<1>12. /\ Filled(r, job, always[r], ever[r], now)
       /\ DOMAIN data = {} => DOMAIN old.body \subseteq ever[r]
    <2>1. table \in Cases
        BY DEF PipelineInv
    <2> HIDE DEF old
    <2>2. CASE old.op = "create"
        <3>1. validateCreate(old.body)
            BY <1>11, <2>2 DEF Accepted
        <3> QED BY <1>6, <1>10, <1>11, <2>1, <2>2, <3>1, CreateFills
    <2>3. CASE old.op = "update"
        <3>1. validateUpdate(old.body)
            BY <1>11, <2>3 DEF Accepted
        <3> QED BY <1>6, <1>10, <1>11, <2>1, <2>3, <3>1, UpdateFills
    <2> QED BY <1>5, <2>2, <2>3
<1>13. RequestSound(r, job, always[r], ever[r], NoRow, now)
    <2>1. DOMAIN data \subseteq Columns
        BY <1>10, <1>12 DEF Filled
    <2>2. IsJob(job)
        BY <1>5, <1>7, <1>8, <1>9, <1>10 DEF IsJob
    <2>3. status # "nocolumn" /\ always[r] \subseteq ever[r]
        BY <1>2, <1>7, <2>1 DEF RequestSound
    <2> HIDE DEF old
    <2> QED BY <1>7, <1>8, <1>10, <1>11, <1>12, <2>2, <2>3 DEF RequestSound, NoRow
<1>14. /\ always' = [always EXCEPT ![r] = always[r]] /\ ever' = [ever EXCEPT ![r] = ever[r]]
       /\ UNCHANGED <<table, blocked, now, rows, writer, written>>
    BY DEF PipelineInv, Inject
<1>15. request[r].pc # "done"
    BY <1>1
<1> QED BY <1>4, <1>10, <1>13, <1>14, <1>15, RequestMoves

-----------------------------------------------------------------------------
(* Statements that are executed *)

\* What becomes of a client's value, and of one of the server.
LEMMA ClientCell ==
    ASSUME NEW v \in Values, NEW x, x = jsonValueToString([client |-> v])
    PROVE  /\ x \in Cell
           /\ ~IsNull(v) /\ Kept(v) => x = [client |-> v]
<1>1. CASE IsNull(v)
    <2>1. x = [client |-> EmptyString]
        BY <1>1 DEF jsonValueToString, IsNull
    <2>2. EmptyString \in Values /\ ~IsNull(EmptyString)
        BY DEF EmptyString, Values, JsonTypes, IsNull
    <2> HIDE DEF Values
    <2> QED BY <1>1, <2>1, <2>2 DEF Cell
<1>2. CASE ~IsNull(v) /\ v.type = "number" /\ v.size > 6
    <2> DEFINE w == [v EXCEPT !.size = 6]
    <2>1. x = [client |-> w]
        BY <1>2 DEF jsonValueToString
    <2>2. w \in Values /\ w.type = v.type
        BY DEF Values
    <2> HIDE DEF w
    <2>3. ~IsNull(w)
        BY <1>2, <2>2 DEF IsNull
    <2> QED BY <1>2, <2>1, <2>2, <2>3 DEF Cell, Kept
<1>3. CASE ~IsNull(v) /\ ~(v.type = "number" /\ v.size > 6)
    <2>1. x = [client |-> v]
        BY <1>3 DEF jsonValueToString
    <2> QED BY <1>3, <2>1 DEF Cell
<1> QED BY <1>1, <1>2, <1>3

LEMMA ServerCell ==
    ASSUME NEW x, "client" \notin DOMAIN x
    PROVE  jsonValueToString(x) = x /\ ~IsNullJson(x)
    BY DEF jsonValueToString, IsNullJson

\* The cells that a statement of job sets.
SetBy(job, cells) ==
    /\ cells = [f \in DOMAIN job.data |-> cells[f]]
    /\ \A f \in DOMAIN job.data :
           cells[f] = IF job.op = "update" /\ IsNullJson(job.data[f]) THEN [db |-> Null]
                      ELSE jsonValueToString(job.data[f])

\* A statement of a body that was filled stores what was accepted.
LEMMA FilledStores ==
    ASSUME NEW r \in Requests, NEW job, NEW al, NEW ev, NEW cells, now \in 0..table.maxTime,
           table \in Cases, IsJob(job), Filled(r, job, al, ev, now), SetBy(job, cells)
    PROVE  Stored(job, al, ev, cells) /\ \A c \in DOMAIN cells : cells[c] \in Cell
<1>1. ASSUME NEW c \in DOMAIN cells
      PROVE  cells[c] \in Cell /\ ("client" \in DOMAIN cells[c] => c \in DOMAIN job.body \ al)
    <2>1. c \in DOMAIN job.data
        BY <1>1 DEF SetBy
    <2>2. cells[c] = IF job.op = "update" /\ IsNullJson(job.data[c]) THEN [db |-> Null]
                     ELSE jsonValueToString(job.data[c])
        BY <2>1 DEF SetBy
    <2>3. CASE FromClient(job, al, c)
        <3>1. /\ c \in DOMAIN job.body \ al /\ job.data[c] = [client |-> job.body[c]]
              /\ job.body[c] \in Values
            BY <2>3 DEF FromClient, IsJob
        <3>2. jsonValueToString(job.data[c]) \in Cell
            BY <3>1, ClientCell
        <3>3. [db |-> Null] \in Cell
            BY DEF Cell
        <3> QED BY <2>2, <3>1, <3>2, <3>3
    <2>4. CASE FromServer(r, job, now, c)
        <3>1. job.data[c] \in Stamps(job, now) \cup {[user |-> r], [uuid |-> r]}
            BY <2>4 DEF FromServer
        <3>2. "client" \notin DOMAIN job.data[c]
            BY <3>1 DEF Stamps
        <3>3. job.data[c] \in Cell
            <4>1. now \in Nat /\ job.since \in Nat
                BY CasesAssumption DEF IsJob
            <4>2. Stamps(job, now) \subseteq [clock : 0..table.maxTime]
                BY <4>1, CasesAssumption DEF Stamps
            <4> QED BY <3>1, <4>2 DEF Cell
        <3>4. cells[c] = job.data[c]
            BY <2>2, <3>2, ServerCell
        <3> QED BY <3>2, <3>3, <3>4
    <2> QED BY <2>1, <2>3, <2>4 DEF Filled
<1>2. ASSUME NEW c \in DOMAIN job.body \ ev, ~NoValue(job.op, job.body, c), Kept(job.body[c])
      PROVE  cells[c] = IF IsNull(job.body[c]) THEN [db |-> Null] ELSE [client |-> job.body[c]]
    <2>1. c \in DOMAIN job.data /\ job.data[c] = [client |-> job.body[c]]
        BY <1>2 DEF Filled
    <2>2. job.body[c] \in Values /\ job.op \in {"create", "update"}
        BY DEF IsJob
    <2>3. IsNullJson(job.data[c]) <=> IsNull(job.body[c])
        BY <2>1 DEF IsNullJson
    <2>4. cells[c] = IF job.op = "update" /\ IsNullJson(job.data[c]) THEN [db |-> Null]
                     ELSE jsonValueToString(job.data[c])
        BY <2>1 DEF SetBy
    <2>5. ~IsNull(job.body[c]) => jsonValueToString(job.data[c]) = [client |-> job.body[c]]
        BY <1>2, <2>1, <2>2, ClientCell
    <2>6. IsNull(job.body[c]) => job.op = "update"
        BY <1>2, <2>2 DEF NoValue
    <2> QED BY <2>3, <2>4, <2>5, <2>6
<1> QED BY <1>1, <1>2 DEF Stored

\* It stamps the row with the moment and the user.
LEMMA FilledStamps ==
    ASSUME NEW r \in Requests, NEW job, NEW al, NEW ev, NEW cells,
           Filled(r, job, al, ev, now), SetBy(job, cells)
    PROVE  /\ DOMAIN cells = DOMAIN job.data
           /\ \A c \in DOMAIN cells \cap {"created_at", "updated_at"} : cells[c] \in Stamps(job, now)
           /\ \A c \in DOMAIN cells \cap {"created_by", "modified_by"} : cells[c] = [user |-> r]
<1>1. DOMAIN cells = DOMAIN job.data
    BY DEF SetBy
<1>2. ASSUME NEW c \in DOMAIN cells \cap AuditFields
      PROVE  cells[c] = job.data[c] /\ FromServer(r, job, now, c)
    <2>1. FromServer(r, job, now, c)
        BY <1>1, <1>2 DEF Filled, FromClient, AuditFields, kDefaultBlocked
    <2>2. "client" \notin DOMAIN job.data[c]
        BY <2>1 DEF FromServer, Stamps
    <2>3. cells[c] = IF job.op = "update" /\ IsNullJson(job.data[c]) THEN [db |-> Null]
                     ELSE jsonValueToString(job.data[c])
        BY <1>1, <1>2 DEF SetBy
    <2> QED BY <2>1, <2>2, <2>3, ServerCell
<1> QED BY <1>1, <1>2 DEF FromServer, AuditFields

\* A client's value, as it is bound, has the type that it had.
LEMMA TypeIsBound ==
    ASSUME NEW v \in Values, ~IsNull(v), NEW x, x = jsonValueToString([client |-> v])
    PROVE  \E w \in Values : x = [client |-> w] /\ w.type = v.type
<1>1. CASE v.type = "number" /\ v.size > 6
    <2> DEFINE w == [v EXCEPT !.size = 6]
    <2>1. x = [client |-> w]
        BY <1>1 DEF jsonValueToString
    <2>2. w \in Values /\ w.type = v.type
        BY DEF Values
    <2> HIDE DEF w
    <2> QED BY <2>1, <2>2
<1>2. CASE ~(v.type = "number" /\ v.size > 6)
    BY <1>2 DEF jsonValueToString
<1> QED BY <1>1, <1>2

\* The validator lets no JSON through but objects.
LEMMA JsonIsObject ==
    ASSUME table \in Cases, NEW op, NEW body, Accepted(op, body), NEW c \in DOMAIN body,
           c \in Columns, ~IsNull(body[c]), Meta[c].sqlType = "Json",
           c \notin autoFields, ~Meta[c].isAutoIncrement
    PROVE  body[c].type = "object"
<1>1. Fits(body[c], Meta[c])
    BY DEF Accepted, validateCreate, validateUpdate
<1>2. Meta[c].jsonType = "Object"
    <2>1. PICK kind \in Kinds : Meta[c].sqlType = kind.sql /\ Meta[c].jsonType = kind.json
        BY MetaDescribes
    <2>2. kind.sql = "Json" => kind.json = "Object"
        BY DEF Kinds, Kind
    <2> QED BY <2>1, <2>2
<1> QED BY <1>1, <1>2 DEF Fits, isTypeCompatible

\* The cells of a statement that the database takes are sound.
LEMMA FilledCells ==
    ASSUME NEW r \in Requests, NEW job, NEW al, NEW ev, NEW cells, table \in Cases,
           IsJob(job), Accepted(job.op, job.body), Filled(r, job, al, ev, now),
           SetBy(job, cells), JsonTexts(cells), job.op = "update" => NullsAllowed(cells),
           NEW c \in DOMAIN cells
    PROVE  CellSound(c, cells[c])
<1>1. c \in DOMAIN job.data /\ c \in Columns
    BY DEF SetBy, Filled
<1>2. cells[c] = IF job.op = "update" /\ IsNullJson(job.data[c]) THEN [db |-> Null]
                 ELSE jsonValueToString(job.data[c])
    BY <1>1 DEF SetBy
<1>3. ASSUME "client" \notin DOMAIN cells[c], ~IsNullCell(c, cells[c])
      PROVE  CellSound(c, cells[c])
    BY <1>3 DEF CellSound, Unchecked
<1>4. CASE FromServer(r, job, now, c)
    <2>1. job.data[c] \in Stamps(job, now) \cup {[user |-> r], [uuid |-> r]}
        BY <1>4 DEF FromServer
    <2>2. "client" \notin DOMAIN job.data[c] /\ "db" \notin DOMAIN job.data[c]
        BY <2>1 DEF Stamps
    <2>3. cells[c] = job.data[c]
        BY <1>2, <2>2, ServerCell
    <2> QED BY <1>3, <2>2, <2>3 DEF IsNullCell
<1>5. CASE FromClient(job, al, c)
    <2>1. PICK v \in Values : v = job.body[c] /\ job.data[c] = [client |-> v]
        BY <1>5 DEF FromClient, IsJob
    <2>2. c \in DOMAIN job.body
        BY <1>5 DEF FromClient
    <2>3. IsNullJson(job.data[c]) <=> IsNull(v)
        BY <2>1 DEF IsNullJson
    <2>4. CASE IsNull(v) /\ job.op = "update"
        <3>1. cells[c] = [db |-> Null]
            BY <1>2, <2>3, <2>4
        <3>2. table.columns[c].nullable
            BY <2>4, <3>1 DEF NullsAllowed
        <3>3. "client" \notin DOMAIN cells[c]
            BY <3>1
        <3> QED BY <3>2, <3>3 DEF CellSound, Unchecked
    <2>5. CASE IsNull(v) /\ job.op # "update"
        <3>1. cells[c] = [client |-> EmptyString]
            BY <1>2, <2>1, <2>5 DEF jsonValueToString, IsNull
        <3>2. Meta[c].sqlType # "Json"
            BY <3>1 DEF JsonTexts
        <3>3. ~IsNullCell(c, cells[c])
            BY <3>1 DEF IsNullCell
        <3> QED BY <3>2, <3>3 DEF CellSound
    <2>6. CASE ~IsNull(v)
        <3>1. PICK w \in Values : cells[c] = [client |-> w] /\ w.type = v.type
            BY <1>2, <2>1, <2>3, <2>6, TypeIsBound
        <3>2. ~IsNullCell(c, cells[c])
            BY <3>1 DEF IsNullCell
        <3>3. Meta[c].sqlType = "Json" /\ c \notin autoFields /\ ~Meta[c].isAutoIncrement =>
                  v.type = "object"
            BY <1>1, <2>1, <2>2, <2>6, JsonIsObject
        <3> QED BY <3>1, <3>2, <3>3 DEF CellSound, Unchecked
    <2> QED BY <2>4, <2>5, <2>6
<1> QED BY <1>1, <1>4, <1>5 DEF Filled

\* A handler that has executed its statement is sound.
LEMMA ExecutedSound ==
    ASSUME NEW r \in Requests, NEW job, NEW al, NEW ev, NEW cells, now \in 0..table.maxTime,
           table \in Cases, RequestSound(r, job, al, ev, NoRow, now), job.pc = "ready",
           SetBy(job, cells), NEW job2,
           job2 = [pc |-> "done", status |-> "ok", op |-> job.op, body |-> job.body,
                   row |-> job.row, data |-> job.data, since |-> job.since, until |-> now]
    PROVE  RequestSound(r, job2, al, ev, cells, now)
<1>1. /\ IsJob(job) /\ Filled(r, job, al, ev, now) /\ job.since <= now
      /\ al \subseteq ev /\ kDefaultBlocked \subseteq ev /\ Accepted(job.op, job.body)
    BY DEF RequestSound
<1>2. Stored(job, al, ev, cells) /\ \A c \in DOMAIN cells : cells[c] \in Cell
    BY <1>1, FilledStores
<1>3. /\ job2.pc = "done" /\ job2.status = "ok" /\ job2.op = job.op /\ job2.body = job.body
      /\ job2.row = job.row /\ job2.since = job.since /\ job2.until = now
    OBVIOUS
<1>4. IsJob(job2)
    <2>1. now \in Nat
        BY CasesAssumption
    <2> QED BY <1>1, <1>3, <2>1 DEF IsJob
<1>5. Stored(job2, al, ev, cells)
    BY <1>2, <1>3 DEF Stored
<1> QED BY <1>1, <1>2, <1>3, <1>4, <1>5 DEF RequestSound

LEMMA InsertKeeps ==
    ASSUME PipelineInv, NEW r \in Requests, Insert(r)
    PROVE  PipelineInv'
<1>1. request[r].pc = "ready" /\ request[r].op = "create" /\ request[r] # Idle
    BY DEF Insert, Idle
<1>2. RequestSound(r, request[r], always[r], ever[r], written[r], now)
    BY <1>1 DEF PipelineInv
<1>3. /\ written[r] = NoRow /\ writer[r] = r /\ table \in Cases /\ now \in 0..table.maxTime
      /\ IsJob(request[r]) /\ Filled(r, request[r], always[r], ever[r], now)
    BY <1>1, <1>2 DEF RequestSound, PipelineInv
<1>4. PICK old, cells, job, row :
          /\ old = request[r] /\ cells = InsertCells(old.data)
          /\ job = [old EXCEPT !.pc = "done", !.status = "ok", !.until = now]
          /\ row = [c \in Columns |-> IF c \in DOMAIN cells THEN cells[c] ELSE [db |-> "default"]]
    OBVIOUS
<1>5. /\ request' = [request EXCEPT ![r] = job] /\ written' = [written EXCEPT ![r] = cells]
      /\ rows' = [rows EXCEPT ![r] = row] /\ writer' = [writer EXCEPT ![r] = r]
      /\ UNCHANGED <<table, blocked, now, always, ever>>
    <2>1. writer' = [writer EXCEPT ![r] = r]
        BY <1>3 DEF Insert, PipelineInv
    <2> QED BY <1>4, <2>1 DEF Insert
<1>6. job = [pc |-> "done", status |-> "ok", op |-> old.op, body |-> old.body,
             row |-> old.row, data |-> old.data, since |-> old.since, until |-> now]
    <2>1. PICK t : t = now
        OBVIOUS
    <2>2. IsJob(old) /\ job = [old EXCEPT !.pc = "done", !.status = "ok", !.until = t]
        BY <1>3, <1>4, <2>1
    <2>3. [old EXCEPT !.pc = "done", !.status = "ok", !.until = t] =
              [pc |-> "done", status |-> "ok", op |-> old.op, body |-> old.body,
               row |-> old.row, data |-> old.data, since |-> old.since, until |-> t]
        BY <2>2, JobExecuted
    <2> QED BY <2>1, <2>2, <2>3
<1>7. SetBy(old, cells)
    <2>1. DOMAIN old.data \subseteq NamesSet
        BY <1>3, <1>4, CasesAssumption DEF Filled, Columns, NamesSet
    <2>2. cells = [f \in DOMAIN old.data |-> jsonValueToString(old.data[f])]
        BY <1>4, <2>1, InsertCellsRight
    <2> QED BY <1>1, <1>4, <2>2 DEF SetBy
<1>8. RequestSound(r, job, always[r], ever[r], cells, now)
    BY <1>1, <1>2, <1>3, <1>4, <1>6, <1>7, ExecutedSound
<1>9. RowSound(r)'
    <2>1. /\ request'[r] = job /\ rows'[r] = row /\ writer'[r] = r
          /\ job.pc = "done" /\ job # Idle /\ job.since = old.since /\ job.until = now
        BY <1>3, <1>5, <1>6 DEF PipelineInv, Idle
    <2>2. Columns' = Columns /\ Cell' = Cell
        BY <1>5, SameTable
    <2>3. /\ \A c \in DOMAIN cells : cells[c] \in Cell
          /\ DOMAIN cells = DOMAIN old.data
          /\ \A c \in DOMAIN cells \cap {"created_at", "updated_at"} : cells[c] \in Stamps(old, now)
          /\ \A c \in DOMAIN cells \cap {"created_by", "modified_by"} : cells[c] = [user |-> r]
        <3>1. IsJob(old) /\ Filled(r, old, always[r], ever[r], now)
            BY <1>3, <1>4
        <3>2. \A c \in DOMAIN cells : cells[c] \in Cell
            BY <1>3, <1>7, <3>1, FilledStores
        <3> QED BY <1>7, <3>1, <3>2, FilledStamps
    <2>4. /\ row = [c \in Columns |-> row[c]]
          /\ \A c \in Columns : row[c] = IF c \in DOMAIN cells THEN cells[c] ELSE [db |-> "default"]
        BY <1>4
    <2>5. \A c \in Columns : row[c] \in Cell
        <3>1. [db |-> "default"] \in Cell
            BY DEF Cell
        <3> QED BY <2>3, <2>4, <3>1
    <2>6. \A c \in Columns \cap AuditFields : c \in DOMAIN cells
        BY <1>1, <1>3, <1>4, <2>3 DEF Filled, AuditFields
    <2>7. /\ \A c \in Columns \cap {"created_at", "updated_at"} : row[c] \in Stamps(old, now)
          /\ \A c \in Columns \cap {"created_by", "modified_by"} : row[c] = [user |-> r]
        BY <2>3, <2>4, <2>6 DEF AuditFields
    <2>8. WorkedBy(r)' = {[user |-> r]} /\ WorkedWhen(r)' = Stamps(old, now)
        BY <2>1 DEF WorkedBy, WorkedWhen, Stamps
    <2>9. WorkedBy(writer[r])' = {[user |-> r]} /\ WorkedWhen(writer[r])' = Stamps(old, now)
        BY <2>1 DEF WorkedBy, WorkedWhen, Stamps
    <2>10. /\ Says(r, "created_by", WorkedBy(r))'
           /\ Says(r, "created_at", WorkedWhen(r))'
        BY <2>1, <2>2, <2>7, <2>8 DEF Says
    <2>11. /\ Says(r, "modified_by", WorkedBy(writer[r]))'
           /\ Says(r, "updated_at", WorkedWhen(writer[r]))'
        BY <2>1, <2>2, <2>7, <2>9 DEF Says
    <2>12. ASSUME NEW c \in Columns
           PROVE  CellSound(c, row[c])
        <3>1. JsonTexts(cells) /\ (NeedsValue(c) => c \in DOMAIN old.data)
            BY <1>4 DEF Insert
        <3>2. CASE c \in DOMAIN cells
            <4>1. Accepted(old.op, old.body) /\ old.op # "update"
                BY <1>1, <1>2, <1>4 DEF RequestSound
            <4>2. CellSound(c, cells[c])
                BY <1>3, <1>4, <1>7, <3>1, <3>2, <4>1, FilledCells
            <4> QED BY <2>4, <3>2, <4>2
        <3>3. CASE c \notin DOMAIN cells
            <4>1. row[c] = [db |-> "default"] /\ ~NeedsValue(c)
                BY <2>3, <2>4, <3>1, <3>3
            <4>2. IsNullCell(c, row[c]) => table.columns[c].nullable
                <5>1. [db |-> "default"] # [db |-> Null]
                    BY DEF Null
                <5>2. IsNullCell(c, row[c]) => ~table.columns[c].default /\ ~table.columns[c].auto
                    BY <4>1, <5>1 DEF IsNullCell
                <5> QED BY <4>1, <5>2 DEF NeedsValue
            <4>3. "client" \notin DOMAIN row[c]
                BY <4>1
            <4> QED BY <4>2, <4>3 DEF CellSound, Unchecked
        <3> QED BY <3>2, <3>3
    <2>13. \A c \in Columns : CellSound(c, row[c])'
        BY <1>5, <2>12, SameTable
    <2> QED BY <2>1, <2>2, <2>4, <2>5, <2>10, <2>11, <2>13 DEF RowSound, Idle
<1>10. job # Idle /\ job.pc = "done"
    BY <1>6 DEF Idle
<1> QED BY <1>1, <1>5, <1>8, <1>9, <1>10, RowWritten

LEMMA UpdateKeeps ==
    ASSUME PipelineInv, NEW r \in Requests, Update(r)
    PROVE  PipelineInv'
<1>1. request[r].pc = "ready" /\ request[r].op = "update" /\ request[r] # Idle
    BY DEF Update, Idle
<1>2. RequestSound(r, request[r], always[r], ever[r], written[r], now)
    BY <1>1 DEF PipelineInv
<1>3. /\ written[r] = NoRow /\ table \in Cases /\ now \in 0..table.maxTime
      /\ IsJob(request[r]) /\ Filled(r, request[r], always[r], ever[r], now)
    BY <1>1, <1>2 DEF RequestSound, PipelineInv
<1>4. PICK old, cells, where, k :
          /\ old = request[r] /\ cells = UpdateCells(old.data, old.row)
          /\ where = UpdateParams(old.data, old.row)[WhereIdx(old.data)]
          /\ k = old.row
    OBVIOUS
<1>5. where = [row |-> k] /\ k \in Requests
    BY <1>3, <1>4, WhereRight DEF IsJob
<1>6. "row" \in DOMAIN where /\ where.row = k
    BY <1>5
<1>7. CASE rows[k] = NoRow
    <2>1. Finish(r, "notfound") /\ UNCHANGED <<table, blocked, now, rows, writer, always, ever, written>>
        BY <1>4, <1>6, <1>7 DEF Update
    <2> QED BY <1>1, <2>1, AnswerKeeps
<1>8. CASE rows[k] # NoRow
    <2>1. PICK job, row :
              /\ job = [old EXCEPT !.pc = "done", !.status = "ok", !.until = now]
              /\ row = [c \in Columns |-> IF c \in DOMAIN cells THEN cells[c] ELSE rows[k][c]]
        OBVIOUS
    <2>2. /\ request' = [request EXCEPT ![r] = job] /\ written' = [written EXCEPT ![r] = cells]
          /\ rows' = [rows EXCEPT ![k] = row] /\ writer' = [writer EXCEPT ![k] = r]
          /\ UNCHANGED <<table, blocked, now, always, ever>>
        BY <1>4, <1>6, <1>8, <2>1 DEF Update
    <2>3. job = [pc |-> "done", status |-> "ok", op |-> old.op, body |-> old.body,
                 row |-> old.row, data |-> old.data, since |-> old.since, until |-> now]
        <3>1. PICK t : t = now
            OBVIOUS
        <3>2. IsJob(old) /\ job = [old EXCEPT !.pc = "done", !.status = "ok", !.until = t]
            BY <1>3, <1>4, <2>1, <3>1
        <3>3. [old EXCEPT !.pc = "done", !.status = "ok", !.until = t] =
                  [pc |-> "done", status |-> "ok", op |-> old.op, body |-> old.body,
                   row |-> old.row, data |-> old.data, since |-> old.since, until |-> t]
            BY <3>2, JobExecuted
        <3> QED BY <3>1, <3>2, <3>3
    <2>4. SetBy(old, cells)
        <3>1. DOMAIN old.data \subseteq NamesSet
            BY <1>3, <1>4, CasesAssumption DEF Filled, Columns, NamesSet
        <3>2. cells = [f \in DOMAIN old.data |-> IF f \notin NotNull(old.data) THEN [db |-> Null]
                                                ELSE jsonValueToString(old.data[f])]
            BY <1>4, <3>1, UpdateCellsRight
        <3>3. \A f \in DOMAIN old.data : f \notin NotNull(old.data) <=> IsNullJson(old.data[f])
            BY DEF NotNull
        <3> QED BY <1>1, <1>4, <3>2, <3>3 DEF SetBy
    <2>5. RequestSound(r, job, always[r], ever[r], cells, now)
        BY <1>1, <1>2, <1>3, <1>4, <2>3, <2>4, ExecutedSound
    <2>6. /\ RowSound(k) /\ request[k] # Idle /\ request[k].pc = "done" /\ k # r
        BY <1>1, <1>5, <1>8 DEF PipelineInv
    <2>7. RowSound(k)'
        <3>1. /\ request'[r] = job /\ rows'[k] = row /\ writer'[k] = r
              /\ request'[k] = request[k]
              /\ job.pc = "done" /\ job # Idle /\ job.since = old.since /\ job.until = now
            BY <1>5, <2>2, <2>3, <2>6 DEF PipelineInv, Idle
        <3>2. Columns' = Columns /\ Cell' = Cell
            BY <2>2, SameTable
        <3>3. /\ \A c \in DOMAIN cells : cells[c] \in Cell
              /\ DOMAIN cells = DOMAIN old.data
              /\ \A c \in DOMAIN cells \cap {"created_at", "updated_at"} : cells[c] \in Stamps(old, now)
              /\ \A c \in DOMAIN cells \cap {"created_by", "modified_by"} : cells[c] = [user |-> r]
            <4>1. IsJob(old) /\ Filled(r, old, always[r], ever[r], now)
                BY <1>3, <1>4
            <4>2. \A c \in DOMAIN cells : cells[c] \in Cell
                BY <1>3, <2>4, <4>1, FilledStores
            <4> QED BY <2>4, <4>1, <4>2, FilledStamps
        <3>4. /\ row = [c \in Columns |-> row[c]]
              /\ \A c \in Columns : row[c] = IF c \in DOMAIN cells THEN cells[c] ELSE rows[k][c]
            BY <2>1
        <3>5. \A c \in Columns : row[c] \in Cell
            BY <2>6, <3>3, <3>4 DEF RowSound
        <3>6. /\ \A c \in Columns \cap {"updated_at", "modified_by"} : c \in DOMAIN cells
              /\ \A c \in Columns \cap {"created_at", "created_by"} : c \notin DOMAIN cells
            BY <1>1, <1>3, <1>4, <3>3 DEF Filled
        <3>7. /\ "updated_at" \in Columns => row["updated_at"] \in Stamps(old, now)
              /\ "modified_by" \in Columns => row["modified_by"] = [user |-> r]
              /\ \A c \in Columns \cap {"created_at", "created_by"} : row[c] = rows[k][c]
            BY <3>3, <3>4, <3>6
        <3>8. WorkedBy(writer[k])' = {[user |-> r]} /\ WorkedWhen(writer[k])' = Stamps(old, now)
            BY <3>1 DEF WorkedBy, WorkedWhen, Stamps
        <3>9. WorkedBy(k)' = WorkedBy(k) /\ WorkedWhen(k)' = WorkedWhen(k)
            BY <3>1 DEF WorkedBy, WorkedWhen
        <3>10. /\ Says(k, "created_by", WorkedBy(k))'
               /\ Says(k, "created_at", WorkedWhen(k))'
            <4>1. Says(k, "created_by", WorkedBy(k)) /\ Says(k, "created_at", WorkedWhen(k))
                BY <2>6 DEF RowSound
            <4> QED BY <3>1, <3>2, <3>7, <3>9, <4>1 DEF Says
        <3>11. /\ Says(k, "modified_by", WorkedBy(writer[k]))'
               /\ Says(k, "updated_at", WorkedWhen(writer[k]))'
            BY <3>1, <3>2, <3>7, <3>8 DEF Says
        <3>12. ASSUME NEW c \in Columns
               PROVE  CellSound(c, row[c])
            <4>1. JsonTexts(cells) /\ NullsAllowed(cells)
                BY <1>4, <1>6, <1>8 DEF Update
            <4>2. Accepted(old.op, old.body)
                BY <1>1, <1>2, <1>4 DEF RequestSound
            <4>3. CASE c \in DOMAIN cells
                <5>1. CellSound(c, cells[c])
                    BY <1>3, <1>4, <2>4, <4>1, <4>2, <4>3, FilledCells
                <5> QED BY <3>4, <4>3, <5>1
            <4>4. CASE c \notin DOMAIN cells
                BY <2>6, <3>4, <4>4 DEF RowSound
            <4> QED BY <4>3, <4>4
        <3>13. \A c \in Columns : CellSound(c, row[c])'
            BY <2>2, <3>12, SameTable
        <3> QED BY <3>1, <3>2, <3>4, <3>5, <3>10, <3>11, <3>13 DEF RowSound, Idle
    <2>8. job # Idle /\ job.pc = "done"
        BY <2>3 DEF Idle
    <2> QED BY <1>1, <1>5, <2>2, <2>5, <2>6, <2>7, <2>8, RowWritten
<1> QED BY <1>7, <1>8

-----------------------------------------------------------------------------
(* The inductive invariant *)

LEMMA InitPipelineInv == Init => PipelineInv
<1> SUFFICES ASSUME Init PROVE PipelineInv
    OBVIOUS
<1>1. table \in Cases /\ now \in 0..table.maxTime
    BY CasesAssumption DEF Init
<1>2. /\ request = [r \in Requests |-> request[r]] /\ rows = [r \in Requests |-> rows[r]]
      /\ written = [r \in Requests |-> written[r]] /\ always = [r \in Requests |-> always[r]]
      /\ ever = [r \in Requests |-> ever[r]] /\ writer \in [Requests -> Requests]
    BY DEF Init
<1>3. \A r \in Requests : /\ request[r] = Idle /\ always[r] = {} /\ ever[r] = {}
                          /\ written[r] = NoRow /\ rows[r] = NoRow /\ writer[r] = r
    BY DEF Init
<1> QED BY <1>1, <1>2, <1>3 DEF PipelineInv

LEMMA NextKeepsPipelineInv == PipelineInv /\ [Next]_vars => PipelineInv'
<1> SUFFICES ASSUME PipelineInv, [Next]_vars PROVE PipelineInv'
    OBVIOUS
<1>1. ASSUME NEW r \in Requests, NEW body \in table.posts, Receive(r, "create", body, r)
      PROVE  PipelineInv'
    BY <1>1, ReceiveKeeps
<1>2. ASSUME NEW r \in Requests, NEW body \in table.puts, NEW k \in Requests,
             Receive(r, "update", body, k)
      PROVE  PipelineInv'
    BY <1>2, ReceiveKeeps
<1>3. ASSUME NEW r \in Requests, Sanitize(r) PROVE PipelineInv'
    BY <1>3, SanitizeKeeps
<1>4. ASSUME NEW r \in Requests, Inject(r) PROVE PipelineInv'
    BY <1>4, InjectKeeps
<1>5. ASSUME NEW r \in Requests, Insert(r) PROVE PipelineInv'
    BY <1>5, InsertKeeps
<1>6. ASSUME NEW r \in Requests, Update(r) PROVE PipelineInv'
    BY <1>6, UpdateKeeps
<1>7. ASSUME NEW r \in Requests, Refused(r) PROVE PipelineInv'
    BY <1>7, AnswerKeeps DEF Refused
<1>8. ASSUME NEW fs \in table.lists,
             setBlockedFields(fs) \/ \E f \in fs : addBlockedField(f)
      PROVE  PipelineInv'
    BY <1>8, ChangeBlockedKeeps DEF setBlockedFields, addBlockedField
<1>9. ASSUME resetAll PROVE PipelineInv'
    BY <1>9, ChangeBlockedKeeps DEF resetAll
<1>10. ASSUME Tick PROVE PipelineInv'
    BY <1>10, TickKeeps
<1>11. ASSUME UNCHANGED vars PROVE PipelineInv'
    <2>1. getBlockedFields' = getBlockedFields
        BY <1>11 DEF vars, getBlockedFields, kDefaultBlocked
    <2>2. now' \in now..table.maxTime
        BY <1>11, CasesAssumption DEF vars, PipelineInv
    <2>3. ASSUME NEW r \in Requests, request[r].pc \notin {"idle", "done"}
          PROVE  always[r] \subseteq getBlockedFields /\ getBlockedFields \subseteq ever[r]
        <3>1. request[r] # Idle
            BY <2>3 DEF Idle
        <3> QED BY <2>3, <3>1 DEF PipelineInv, RequestSound, IsJob
    <2>4. /\ always' = [r \in Requests |-> always'[r]] /\ ever' = [r \in Requests |-> ever'[r]]
          /\ UNCHANGED <<table, request, rows, writer, written>>
          /\ always' = always /\ ever' = ever
        BY <1>11 DEF vars, PipelineInv
    <2> QED BY <2>1, <2>2, <2>3, <2>4, SurroundingsMove
<1> QED BY <1>1, <1>2, <1>3, <1>4, <1>5, <1>6, <1>7, <1>8, <1>9, <1>10, <1>11 DEF Next

LEMMA PipelineInvHolds == Spec => []PipelineInv
    BY InitPipelineInv, NextKeepsPipelineInv, PTL DEF Spec

-----------------------------------------------------------------------------
(* The properties *)

\* The columns of every row and of every statement have cells of the right
\* types, whatever the bodies and the tables.
THEOREM TypeCorrect == Spec => []TypeOK
<1>1. PipelineInv => TypeOK
    <2> SUFFICES ASSUME PipelineInv PROVE TypeOK
        OBVIOUS
    <2>1. table \in Cases /\ now \in 0..table.maxTime
        BY DEF PipelineInv
    <2>2. ASSUME NEW r \in Requests
          PROVE  /\ request[r] = Idle
                    \/ /\ request[r].pc \in {"valid", "clean", "ready", "done"}
                       /\ request[r].since <= request[r].until
                       /\ request[r].row \in Requests
                 /\ \A c \in DOMAIN rows[r] : rows[r][c] \in Cell
                 /\ \A c \in DOMAIN written[r] : written[r][c] \in Cell
                 /\ writer[r] \in Requests
                 /\ always[r] \subseteq ever[r]
        <3>1. writer[r] \in Requests
            BY DEF PipelineInv
        <3>2. DOMAIN NoRow = {}
            BY DEF NoRow
        <3>3. \A c \in DOMAIN rows[r] : rows[r][c] \in Cell
            <4>1. CASE rows[r] = NoRow
                BY <3>2, <4>1
            <4>2. CASE rows[r] # NoRow
                <5>1. RowSound(r)
                    BY <4>2 DEF PipelineInv
                <5>2. DOMAIN rows[r] = Columns /\ \A c \in Columns : rows[r][c] \in Cell
                    BY <5>1 DEF RowSound
                <5> QED BY <5>2
            <4> QED BY <4>1, <4>2
        <3>4. CASE request[r] = Idle
            BY <3>1, <3>2, <3>3, <3>4 DEF PipelineInv
        <3>5. CASE request[r] # Idle
            <4>1. RequestSound(r, request[r], always[r], ever[r], written[r], now)
                BY <3>5 DEF PipelineInv
            <4> QED BY <3>1, <3>3, <4>1 DEF RequestSound, IsJob
        <3> QED BY <3>4, <3>5
    <2> QED BY <2>1, <2>2 DEF TypeOK
<1> QED BY <1>1, PipelineInvHolds, PTL

\* A statement was executed by a request that was answered with ok.
LEMMA WrittenIsStored ==
    ASSUME PipelineInv, NEW r \in Requests, NEW c \in DOMAIN written[r]
    PROVE  /\ request[r] # Idle /\ Done(r, "ok")
           /\ Stored(request[r], always[r], ever[r], written[r])
<1>1. written[r] # NoRow
    BY DEF NoRow
<1>2. request[r] # Idle
    BY <1>1 DEF PipelineInv
<1>3. RequestSound(r, request[r], always[r], ever[r], written[r], now)
    BY <1>2 DEF PipelineInv
<1> QED BY <1>1, <1>2, <1>3 DEF RequestSound, Done

\* FieldGuard: whoever changes its lists while a request runs, no statement
\* writes a client's value to a column that was blocked all the while.
THEOREM ProtectedStayProtected == Spec => []ProtectedColumns
<1>1. PipelineInv => ProtectedColumns
    BY WrittenIsStored DEF ProtectedColumns, Stored
<1> QED BY <1>1, PipelineInvHolds, PTL

\* A request that has been answered, with what is known of it.
LEMMA DoneIsSound ==
    ASSUME PipelineInv, NEW r \in Requests, request[r].pc # "idle"
    PROVE  RequestSound(r, request[r], always[r], ever[r], written[r], now)
    BY DEF PipelineInv, Idle

\* The placeholders and the parameters of every statement put every accepted
\* value into its own column.
THEOREM AcceptedIsWritten == Spec => []WrittenAsAccepted
<1>1. PipelineInv => WrittenAsAccepted
    <2> SUFFICES ASSUME PipelineInv, NEW r \in Requests, Done(r, "ok")
                 PROVE  /\ \A c \in DOMAIN request[r].body \ ever[r] :
                              ~Vacant(r, c) /\ Kept(request[r].body[c]) =>
                                 written[r][c] = IF IsNull(request[r].body[c]) THEN [db |-> Null]
                                                 ELSE [client |-> request[r].body[c]]
                        /\ \A c \in DOMAIN written[r] : "client" \in DOMAIN written[r][c] =>
                              c \in DOMAIN request[r].body
        BY DEF WrittenAsAccepted
    <2>1. request[r].pc = "done" /\ request[r].status = "ok"
        BY DEF Done
    <2>2. RequestSound(r, request[r], always[r], ever[r], written[r], now)
        BY <2>1, DoneIsSound
    <2>3. Stored(request[r], always[r], ever[r], written[r])
        BY <2>1, <2>2 DEF RequestSound
    <2>4. \A c : Vacant(r, c) <=> NoValue(request[r].op, request[r].body, c)
        BY DEF Vacant, NoValue
    <2> QED BY <2>3, <2>4 DEF Stored
<1> QED BY <1>1, PipelineInvHolds, PTL

\* AuditInjector: however requests overlap, a row names its creator and its last
\* writer, and a moment of the request of each.
THEOREM RowsNameTheirAuthors == Spec => []AuditTrail
<1>1. PipelineInv => AuditTrail
    BY DEF PipelineInv, RowSound, AuditTrail
<1> QED BY <1>1, PipelineInvHolds, PTL

\* The validator, FieldGuard, the injectors and the query builder agree on who
\* supplies a column, for any table.
THEOREM AcceptedCanBeWritten == Spec => []AcceptedIsWritable
<1>1. PipelineInv => AcceptedIsWritable
    <2> SUFFICES ASSUME PipelineInv, NEW r \in Requests
                 PROVE  /\ ~Done(r, "nocolumn")
                        /\ Done(r, "empty") => DOMAIN request[r].body \subseteq ever[r]
                        /\ Creating(r) => \A c \in Columns :
                              NeedsValue(c) /\ ~Misjudged(c) => Supplied(r, c)
        BY Zenon DEF AcceptedIsWritable
    <2>1. CASE request[r].pc = "idle"
        BY <2>1 DEF Done, Creating
    <2>2. CASE request[r].pc # "idle"
        <3>1. RequestSound(r, request[r], always[r], ever[r], written[r], now)
            BY <2>2, DoneIsSound
        <3>2. ~Done(r, "nocolumn") /\ (Done(r, "empty") => DOMAIN request[r].body \subseteq ever[r])
            BY <3>1 DEF RequestSound, Done
        <3>3. ASSUME Creating(r), NEW c \in Columns, NeedsValue(c), ~Misjudged(c)
              PROVE  Supplied(r, c)
            <4>1. Filled(r, request[r], always[r], ever[r], now)
                BY <3>1, <3>3 DEF RequestSound, Creating
            <4> QED BY <3>3, <4>1 DEF Filled, AuditFields, Supplied, Creating
        <3> QED BY <3>2, <3>3
    <2> QED BY <2>1, <2>2
<1> QED BY <1>1, PipelineInvHolds, PTL

\* The OpenAPI document says what the validator wants, of every column of every
\* type: a body that is as published is rejected exactly if it has a string of
\* more bytes than its column has characters.
THEOREM SchemaIsHonoured == Spec => []PublishedSchemaHonoured
<1>1. PipelineInv => PublishedSchemaHonoured
    <2> SUFFICES ASSUME PipelineInv, NEW r \in Requests, request[r].pc # "idle",
                        AsPublished(r), ~Done(r, "nokey")
                 PROVE  Done(r, "invalid") <=> TooManyBytes(request[r].body)
        BY DEF PublishedSchemaHonoured
    <2>1. RequestSound(r, request[r], always[r], ever[r], written[r], now)
        BY DoneIsSound
    <2>2. IsJob(request[r])
        BY <2>1 DEF RequestSound
    <2>3. Done(r, "invalid") <=> ~Accepted(request[r].op, request[r].body)
        BY <2>1, <2>2 DEF RequestSound, IsJob, Done
    <2>4. table \in Cases /\ \A f \in DOMAIN request[r].body : request[r].body[f] \in Values
        BY <2>2 DEF PipelineInv, IsJob
    <2>5. CASE TooManyBytes(request[r].body)
        <3>1. ~Accepted(request[r].op, request[r].body)
            BY <2>4, <2>5, TooManyBytesRejected DEF Accepted, AsPublished
        <3> QED BY <2>3, <2>5, <3>1
    <2>6. CASE ~TooManyBytes(request[r].body)
        <3>1. Accepted(request[r].op, request[r].body)
            BY <2>4, <2>6, ConformingAccepted DEF Accepted, AsPublished
        <3> QED BY <2>3, <2>6, <3>1
    <2> QED BY <2>5, <2>6
<1> QED BY <1>1, PipelineInvHolds, PTL

\* Every row is answered with values of the published types, nulls included,
\* whoever wrote it and over what; but for JSON that no validator has looked at.
THEOREM RowsAnsweredAsPublished == Spec => []RowsAsPublished
<1>1. PipelineInv => RowsAsPublished
    <2> SUFFICES ASSUME PipelineInv, NEW k \in Requests, rows[k] # NoRow, NEW c \in Columns,
                        ~Unchecked(c, rows[k][c])
                 PROVE  AnsweredAsPublished(k, c)
        BY DEF RowsAsPublished
    <2>1. table \in Cases /\ CellSound(c, rows[k][c])
        BY DEF PipelineInv, RowSound
    <2>2. PICK kind \in Kinds : Meta[c].sqlType = kind.sql
        BY <2>1, MetaDescribes
    <2>3. PICK cell : cell = rows[k][c]
        OBVIOUS
    <2>4. /\ generateTableSchema[c].type = sqlTypeToOpenApiType(kind.sql)
          /\ generateTableSchema[c].nullable = table.columns[c].nullable
        BY <2>1, <2>2, MetaDescribes DEF generateTableSchema, Schema, generateColumnSchema
    <2>5. CASE IsNullCell(c, cell)
        <3>1. serializeRow(c, cell) = {"null"} /\ table.columns[c].nullable
            BY <2>1, <2>3, <2>5 DEF serializeRow, CellSound
        <3> QED BY <2>3, <2>4, <3>1 DEF AnsweredAsPublished, Allows
    <2>6. CASE ~IsNullCell(c, cell)
        <3>1. kind.sql = "Json" => "client" \in DOMAIN cell /\ cell.client.type = "object"
            BY <2>1, <2>2, <2>3, <2>6 DEF CellSound, Unchecked
        <3>2. serializeRow(c, cell) = {sqlTypeToOpenApiType(kind.sql)}
            BY <2>2, <2>6, <3>1 DEF serializeRow, sqlTypeToOpenApiType, Kinds, Kind
        <3> QED BY <2>3, <2>4, <3>2 DEF AnsweredAsPublished, Allows
    <2> QED BY <2>5, <2>6
<1> QED BY <1>1, PipelineInvHolds, PTL
=============================================================================
