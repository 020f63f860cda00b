------------------------ MODULE CategorisationProofs ------------------------
(***************************************************************************)
(* Theorems about Categorisation for any requests, imports and scrutins:   *)
(* the types, and what the row locks and the deferred trigger give to      *)
(* requests that write together; then, removals included, what holds of    *)
(* every scrutin that no request wrote without having seen the last commit.*)
(***************************************************************************)
EXTENDS Categorisation, FiniteSetTheorems, SequenceTheorems, TLAPS

-----------------------------------------------------------------------------
(* What a request touches is its own.                                        *)

Functions ==
  /\ pc = [r \in Requests |-> pc[r]] /\ input = [r \in Requests |-> input[r]]
  /\ loaded = [r \in Requests |-> loaded[r]] /\ plan = [r \in Requests |-> plan[r]]
  /\ targets = [r \in Requests |-> targets[r]] /\ deleted = [r \in Requests |-> deleted[r]]
  /\ inserted = [r \in Requests |-> inserted[r]]
  /\ file = [i \in Imports |-> file[i]] /\ apercu = [i \in Imports |-> apercu[i]]
  /\ istatus = [i \in Imports |-> istatus[i]]

Frame(r) ==
  \A q \in Requests \ {r} :
    /\ pc'[q] = pc[q] /\ input'[q] = input[q] /\ loaded'[q] = loaded[q] /\ plan'[q] = plan[q]
    /\ targets'[q] = targets[q] /\ deleted'[q] = deleted[q] /\ inserted'[q] = inserted[q]

\* A request that leaves keeps what it asked and nothing else.
LEMMA LeaveGives ==
  ASSUME Functions, NEW r \in Requests, NEW how, Leave(r, how)
  PROVE  /\ pc'[r] = how /\ input' = input /\ loaded'[r] = Empty /\ plan'[r] = Empty
         /\ targets'[r] = {} /\ deleted'[r] = {} /\ inserted'[r] = {}
         /\ Frame(r)
BY DEF Leave, Functions, Frame

\* The requests that open.
Opening(r) == OpenSave(r) \/ OpenDeposit(r) \/ OpenApply(r) \/ OpenReject(r)

LEMMA OpenGives ==
  ASSUME Functions, NEW r \in Requests, NEW asked, NEW step, Open(r, asked, step)
  PROVE  /\ pc[r] = "new" /\ UNCHANGED <<tables, loaded, plan, targets, deleted, inserted>>
         /\ Functions' /\ Frame(r) /\ pc'[r] = step /\ input'[r] = asked
         /\ Cardinality({q \in Requests : pc[q] # "new" /\ ~Over(q)}) < MaxOpen
BY DEF Open, tables, Functions, Frame

LEMMA OpeningGives ==
  ASSUME Functions, NEW r \in Requests, Opening(r)
  PROVE  /\ pc[r] = "new" /\ UNCHANGED <<tables, loaded, plan, targets, deleted, inserted>>
         /\ Functions' /\ Frame(r)
         /\ Cardinality({q \in Requests : pc[q] # "new" /\ ~Over(q)}) < MaxOpen
         /\ \/ /\ pc'[r] = "read" /\ input'[r].kind = "save"
               /\ input'[r].scrutin \in Scrutins /\ input'[r].weights \in Contents
            \/ pc'[r] = "plan" /\ input'[r].kind = "deposit" /\ input'[r].file \in Files
            \/ pc'[r] = "load" /\ input'[r].kind \in {"apply", "reject"} /\ input'[r].import \in Imports
<1>1. CASE OpenSave(r)
  <2>1. PICK s \in Scrutins, c \in Contents : Open(r, [kind |-> "save", scrutin |-> s, weights |-> c], "read")
    BY <1>1 DEF OpenSave
  <2> DEFINE asked == [kind |-> "save", scrutin |-> s, weights |-> c]
  <2>2. asked.kind = "save" /\ asked.scrutin \in Scrutins /\ asked.weights \in Contents
    OBVIOUS
  <2>0. Open(r, asked, "read")
    BY <2>1
  <2> HIDE DEF asked
  <2>3. /\ pc[r] = "new" /\ UNCHANGED <<tables, loaded, plan, targets, deleted, inserted>>
        /\ Functions' /\ Frame(r) /\ pc'[r] = "read" /\ input'[r] = asked
        /\ Cardinality({q \in Requests : pc[q] # "new" /\ ~Over(q)}) < MaxOpen
    BY <2>0, OpenGives, Zenon
  <2> QED
    BY <2>2, <2>3
<1>2. CASE OpenDeposit(r)
  <2>1. PICK f \in Files : Open(r, [kind |-> "deposit", file |-> f], "plan")
    BY <1>2 DEF OpenDeposit
  <2> DEFINE asked == [kind |-> "deposit", file |-> f]
  <2>2. asked.kind = "deposit" /\ asked.file \in Files
    OBVIOUS
  <2>0. Open(r, asked, "plan")
    BY <2>1
  <2> HIDE DEF asked
  <2>3. /\ pc[r] = "new" /\ UNCHANGED <<tables, loaded, plan, targets, deleted, inserted>>
        /\ Functions' /\ Frame(r) /\ pc'[r] = "plan" /\ input'[r] = asked
        /\ Cardinality({q \in Requests : pc[q] # "new" /\ ~Over(q)}) < MaxOpen
    BY <2>0, OpenGives, Zenon
  <2> QED
    BY <2>2, <2>3
<1>3. CASE OpenApply(r)
  <2>1. PICK i \in Imports, box \in BOOLEAN : Open(r, [kind |-> "apply", import |-> i, box |-> box], "load")
    BY <1>3 DEF OpenApply
  <2> DEFINE asked == [kind |-> "apply", import |-> i, box |-> box]
  <2>2. asked.kind \in {"apply", "reject"} /\ asked.import \in Imports
    OBVIOUS
  <2>0. Open(r, asked, "load")
    BY <2>1
  <2> HIDE DEF asked
  <2>3. /\ pc[r] = "new" /\ UNCHANGED <<tables, loaded, plan, targets, deleted, inserted>>
        /\ Functions' /\ Frame(r) /\ pc'[r] = "load" /\ input'[r] = asked
        /\ Cardinality({q \in Requests : pc[q] # "new" /\ ~Over(q)}) < MaxOpen
    BY <2>0, OpenGives, Zenon
  <2> QED
    BY <2>2, <2>3
<1>4. CASE OpenReject(r)
  <2>1. PICK i \in Imports : Open(r, [kind |-> "reject", import |-> i], "load")
    BY <1>4 DEF OpenReject
  <2> DEFINE asked == [kind |-> "reject", import |-> i]
  <2>2. asked.kind \in {"apply", "reject"} /\ asked.import \in Imports
    OBVIOUS
  <2>0. Open(r, asked, "load")
    BY <2>1
  <2> HIDE DEF asked
  <2>3. /\ pc[r] = "new" /\ UNCHANGED <<tables, loaded, plan, targets, deleted, inserted>>
        /\ Functions' /\ Frame(r) /\ pc'[r] = "load" /\ input'[r] = asked
        /\ Cardinality({q \in Requests : pc[q] # "new" /\ ~Over(q)}) < MaxOpen
    BY <2>0, OpenGives, Zenon
  <2> QED
    BY <2>2, <2>3
<1> QED
  BY <1>1, <1>2, <1>3, <1>4 DEF Opening

LEMMA HandleFrame ==
  ASSUME Functions, NEW r \in Requests, Handle(r)
  PROVE  Functions' /\ Frame(r)
<1>1. CASE Opening(r)
  BY <1>1, OpeningGives
<1>2. CASE Load(r) \/ Fail(r)
  BY <1>2 DEF Load, Fail, Leave, Goto, tables, Functions, Frame
<1>3. CASE BuildPlan(r) \/ Read(r) \/ Aim(r) \/ Delete(r)
  BY <1>3 DEF BuildPlan, Read, Aim, Delete, Goto, tables, Functions, Frame
<1>4. CASE Store(r) \/ Mark(r) \/ Compare(r)
  BY <1>4 DEF Store, Mark, Compare, Leave, Goto, Functions, Frame
<1>5. CASE Insert(r) \/ Check(r)
  BY <1>5 DEF Insert, Check, Leave, Goto, tables, Functions, Frame
<1>6. CASE Commit(r)
  BY <1>6 DEF Commit, Leave, Goto, Functions, Frame
<1> QED
  BY <1>1, <1>2, <1>3, <1>4, <1>5, <1>6 DEF Handle, Opening
-----------------------------------------------------------------------------
(* The types.                                                                *)

Steps == {"new", "load", "plan", "store", "compare", "mark", "read", "delete",
          "wait", "insert", "commit", "done", "failed"}

IsSequence(h) == h \in Seq({h[n] : n \in DOMAIN h})

\* The rows, and the deposited imports.
StoreTyped ==
  /\ \A x \in labels : IsRow(x)
  /\ DOMAIN history = Scrutins /\ \A s \in Scrutins : IsSequence(history[s])
  /\ \A i \in Imports :
       /\ istatus[i] \in {"none", "pending", "applied", "rejected"}
       /\ istatus[i] = "none" => file[i] = Empty
       /\ istatus[i] # "none" => file[i] \in Files
       /\ DOMAIN apercu[i] = DOMAIN file[i]

\* Which handler is at which step, what it was asked, and that an import it
\* works on was deposited.
AskTyped(r) ==
  /\ pc[r] \in Steps
  /\ pc[r] = "read" => input[r].kind = "save"
  /\ pc[r] = "load" => input[r].kind \in {"apply", "reject"}
  /\ pc[r] = "plan" => input[r].kind \in {"deposit", "apply"}
  /\ pc[r] = "store" => input[r].kind = "deposit"
  /\ pc[r] = "compare" => input[r].kind = "apply"
  /\ pc[r] = "mark" => input[r].kind \in {"apply", "reject"}
  /\ pc[r] \in {"delete", "wait", "insert", "commit"} => input[r].kind \in {"save", "apply"}
  /\ input[r].kind = "save" => input[r].scrutin \in Scrutins /\ input[r].weights \in Contents
  /\ input[r].kind = "deposit" => input[r].file \in Files
  /\ input[r].kind \in {"apply", "reject"} => input[r].import \in Imports
  /\ input[r].kind \in {"apply", "reject"} /\ pc[r] \notin {"new", "load", "done", "failed"} =>
       istatus[input[r].import] # "none"

\* What it plans is about scrutins, in weights that can be written.
IsPlan(p) ==
  /\ DOMAIN p \subseteq Scrutins
  /\ \A s \in DOMAIN p : IsWeights(p[s].apres.weights)

PlanTyped(r) ==
  /\ IsPlan(plan[r])
  /\ pc[r] = "store" => DOMAIN plan[r] = DOMAIN input[r].file
  /\ pc[r] = "compare" => DOMAIN plan[r] = DOMAIN file[input[r].import]

\* What its transaction holds: nothing before the DELETE ends, committed rows
\* nobody else deletes, and rows of its plan.
Held(r) ==
  /\ pc[r] \notin {"insert", "commit"} => deleted[r] = {} /\ inserted[r] = {}
  /\ deleted[r] \subseteq labels
  /\ \A q \in Requests \ {r} : deleted[q] \cap deleted[r] = {}
  /\ pc[r] \in {"insert", "commit"} => inserted[r] \subseteq NewRows(r)

TypeInv ==
  /\ Functions /\ StoreTyped
  /\ \A r \in Requests : AskTyped(r) /\ PlanTyped(r) /\ Held(r)

\* A new row: its scrutin is touched, its weight is the planned one.
LEMMA NewRowsAre ==
  ASSUME NEW r, NEW x
  PROVE  x \in NewRows(r) <=>
           \E s \in Touched(r) : \E t \in DOMAIN plan[r][s].apres.weights :
             x = [scrutin |-> s, theme |-> t, poids |-> plan[r][s].apres.weights[t],
                  method |-> IF input[r].kind = "save" THEN "manual" ELSE "import", by |-> r]
<1> DEFINE New(s, t) == [scrutin |-> s, theme |-> t, poids |-> plan[r][s].apres.weights[t],
                         method |-> IF input[r].kind = "save" THEN "manual" ELSE "import", by |-> r]
           Of(s) == {New(s, t) : t \in DOMAIN plan[r][s].apres.weights}
<1>1. NewRows(r) = UNION {Of(s) : s \in Touched(r)}
  BY DEF NewRows
<1>2. \A s : x \in Of(s) <=> \E t \in DOMAIN plan[r][s].apres.weights : x = New(s, t)
  OBVIOUS
<1> HIDE DEF Of
<1>3. x \in NewRows(r) <=> \E s \in Touched(r) : x \in Of(s)
  BY <1>1
<1> QED
  BY <1>2, <1>3

LEMMA TouchedPlanned ==
  ASSUME NEW r
  PROVE  Touched(r) \subseteq DOMAIN plan[r]
BY DEF Touched

LEMMA NewRowsTyped ==
  ASSUME NEW r, IsPlan(plan[r]), NEW x \in NewRows(r)
  PROVE  IsRow(x) /\ x.by = r /\ x.scrutin \in Touched(r)
<1>1. PICK s \in Touched(r) : \E t \in DOMAIN plan[r][s].apres.weights :
             x = [scrutin |-> s, theme |-> t, poids |-> plan[r][s].apres.weights[t],
                  method |-> IF input[r].kind = "save" THEN "manual" ELSE "import", by |-> r]
  BY NewRowsAre
<1>2. PICK t \in DOMAIN plan[r][s].apres.weights :
             x = [scrutin |-> s, theme |-> t, poids |-> plan[r][s].apres.weights[t],
                  method |-> IF input[r].kind = "save" THEN "manual" ELSE "import", by |-> r]
  BY <1>1
<1>3. s \in Scrutins /\ plan[r][s].apres.weights[t] \in 1..Whole
  BY TouchedPlanned DEF IsPlan, IsWeights
<1>4. x.scrutin = s /\ x.poids = plan[r][s].apres.weights[t] /\ x.by = r
      /\ x.method = IF input[r].kind = "save" THEN "manual" ELSE "import"
  BY <1>2
<1> QED
  BY <1>3, <1>4 DEF IsRow

\* A plan of a file of the program can be written.
LEMMA PlanOfTyped ==
  ASSUME NEW f \in Files, NEW rows
  PROVE  IsPlan(PlanOf(f, rows)) /\ DOMAIN PlanOf(f, rows) = DOMAIN f
<1>1. \A s \in DOMAIN f : PlanOf(f, rows)[s].apres = f[s]
  BY DEF PlanOf
<1> QED
  BY <1>1, StartAssumption DEF IsPlan, PlanOf

LEMMA Appended ==
  ASSUME NEW h, IsSequence(h), NEW e
  PROVE  /\ IsSequence(h \o <<e>>) /\ h \o <<>> = h
         /\ Len(h) \in Nat /\ DOMAIN h = 1..Len(h) /\ Len(h \o <<e>>) = Len(h) + 1
         /\ \A n \in 1..Len(h) : (h \o <<e>>)[n] = h[n]
         /\ Last(h \o <<e>>) = e
<1> DEFINE S == {h[n] : n \in DOMAIN h} \cup {e}
           k == h \o <<e>>
<1>1. h \in Seq(S) /\ <<e>> \in Seq(S)
  <2>1. h \in Seq(S)
    BY SeqMonotonic DEF IsSequence
  <2> QED
    BY <2>1
<1>2. k \in Seq(S) /\ Len(h) \in Nat /\ DOMAIN h = 1..Len(h) /\ h \o <<>> = h
  <2> HIDE DEF S
  <2> QED
    BY <1>1
<1>3. Len(k) = Len(h) + 1 /\ (\A n \in 1..Len(h) : k[n] = h[n]) /\ k[Len(h) + 1] = e
  <2> HIDE DEF S
  <2> QED
    BY <1>1
<1> HIDE DEF k, S
<1>4. IsSequence(k)
  BY <1>2 DEF IsSequence
<1> QED
  BY <1>2, <1>3, <1>4 DEF Last, k

LEMMA EmptyTyped == IsPlan(Empty) /\ DOMAIN Empty = {}
<1>1. DOMAIN <<>> = {}
  BY SMT
<1> QED
  BY <1>1 DEF IsPlan, Empty

LEMMA TypeInit == Init => TypeInv
<1> SUFFICES ASSUME Init PROVE TypeInv
  OBVIOUS
<1>1. Functions
  BY DEF Init, Functions
<1>2. StoreTyped
  <2>1. IsSequence(<<>>)
    BY EmptySeq DEF IsSequence
  <2> QED
    BY <2>1, StartAssumption DEF Init, StoreTyped
<1>3. ASSUME NEW r \in Requests PROVE AskTyped(r)
  BY DEF Init, AskTyped, Steps
<1>4. ASSUME NEW r \in Requests PROVE PlanTyped(r)
  BY EmptyTyped DEF Init, PlanTyped
<1>5. ASSUME NEW r \in Requests PROVE Held(r)
  BY DEF Init, Held
<1> QED
  BY <1>1, <1>2, <1>3, <1>4, <1>5 DEF TypeInv
\* What a request writes depends on its plan and on what it asked.
LEMMA WritesFrame ==
  ASSUME NEW q, plan'[q] = plan[q], input'[q] = input[q]
  PROVE  Touched(q)' = Touched(q) /\ NewRows(q)' = NewRows(q)
BY DEF Touched, NewRows

\* An import that was deposited stays so, with its file.
Deposited ==
  \A i \in Imports : istatus[i] # "none" => istatus'[i] # "none" /\ file'[i] = file[i]

\* What a step of r must respect for the others to stay typed.
LEMMA OthersTyped ==
  ASSUME TypeInv, NEW r \in Requests, Frame(r), Deposited,
         \A q \in Requests \ {r} : deleted[q] \subseteq labels',
         \A q \in Requests \ {r} : deleted[q] \cap deleted'[r] = {},
         NEW q \in Requests \ {r}
  PROVE  AskTyped(q)' /\ PlanTyped(q)' /\ Held(q)'
<1>1. AskTyped(q) /\ PlanTyped(q) /\ Held(q)
  BY DEF TypeInv
<1>2. AskTyped(q)'
  BY <1>1 DEF AskTyped, Frame, Deposited
<1>3. PlanTyped(q)'
  <2>1. pc[q] = "compare" => file'[input[q].import] = file[input[q].import]
    BY <1>1 DEF AskTyped, Deposited
  <2> QED
    BY <1>1, <2>1 DEF PlanTyped, Frame, IsPlan
<1>4. Held(q)'
  <2>1. \A p \in Requests \ {q} : deleted'[p] \cap deleted'[q] = {}
    BY <1>1 DEF Held, Frame
  <2>2. NewRows(q)' = NewRows(q)
    BY WritesFrame DEF Frame
  <2> QED
    BY <1>1, <2>1, <2>2 DEF Held, Frame
<1> QED
  BY <1>2, <1>3, <1>4

\* A request that writes no row of its own and does not touch the imports.
LEMMA QuietTyped ==
  ASSUME TypeInv, NEW r \in Requests, Functions', Frame(r), UNCHANGED tables,
         deleted'[r] \subseteq deleted[r], AskTyped(r)', PlanTyped(r)', Held(r)'
  PROVE  TypeInv'
<1>1. \A q \in Requests : Held(q)
  BY DEF TypeInv
<1>2. \A q \in Requests \ {r} : deleted[q] \cap deleted'[r] = {}
  BY <1>1 DEF Held
<1>3. \A q \in Requests \ {r} : deleted[q] \subseteq labels'
  BY <1>1 DEF Held, tables
<1>4. Deposited
  BY DEF Deposited, tables
<1>5. StoreTyped'
  BY DEF TypeInv, StoreTyped, tables
<1>6. \A q \in Requests \ {r} : AskTyped(q)' /\ PlanTyped(q)' /\ Held(q)'
  BY <1>2, <1>3, <1>4, OthersTyped
<1> QED
  BY <1>5, <1>6 DEF TypeInv

\* A request that leaves: nothing is left to type.
LEMMA LeaveTyped ==
  ASSUME TypeInv, NEW r \in Requests, NEW how \in {"done", "failed"}, Leave(r, how)
  PROVE  /\ AskTyped(r)' /\ PlanTyped(r)' /\ Held(r)' /\ Frame(r) /\ deleted'[r] = {}
<1>1. Functions /\ AskTyped(r)
  BY DEF TypeInv
<1>2. /\ pc'[r] = how /\ input' = input /\ loaded'[r] = Empty /\ plan'[r] = Empty
      /\ targets'[r] = {} /\ deleted'[r] = {} /\ inserted'[r] = {}
      /\ Frame(r)
  BY <1>1, LeaveGives
<1>3. AskTyped(r)'
  BY <1>1, <1>2 DEF AskTyped, Steps
<1>4. PlanTyped(r)'
  BY <1>2, EmptyTyped DEF PlanTyped, IsPlan
<1>5. Held(r)'
  BY <1>2 DEF Held
<1> QED
  BY <1>2, <1>3, <1>4, <1>5
LEMMA TypeStep == TypeInv /\ [Next]_vars => TypeInv'
<1> SUFFICES ASSUME TypeInv, [Next]_vars PROVE TypeInv'
  OBVIOUS
<1>1. CASE UNCHANGED vars
  BY <1>1 DEF vars, tables, request, TypeInv, Functions, StoreTyped, AskTyped, PlanTyped, IsPlan,
              Held, NewRows, Touched
<1>2. ASSUME NEW r \in Requests, Handle(r) PROVE TypeInv'
  <2> USE <1>2
  <2>0. /\ Functions' /\ Frame(r) /\ StoreTyped
        /\ AskTyped(r) /\ PlanTyped(r) /\ Held(r) /\ Functions
    BY HandleFrame DEF TypeInv
  <2>1. CASE Opening(r)
    <3>1. /\ UNCHANGED <<tables, loaded, plan, targets, deleted, inserted>> /\ pc[r] = "new"
          /\ \/ /\ pc'[r] = "read" /\ input'[r].kind = "save"
                /\ input'[r].scrutin \in Scrutins /\ input'[r].weights \in Contents
             \/ pc'[r] = "plan" /\ input'[r].kind = "deposit" /\ input'[r].file \in Files
             \/ pc'[r] = "load" /\ input'[r].kind \in {"apply", "reject"} /\ input'[r].import \in Imports
      BY <2>0, <2>1, OpeningGives, Zenon
    <3>2. AskTyped(r)'
      BY <3>1 DEF AskTyped, Steps
    <3>3. PlanTyped(r)'
      BY <2>0, <3>1 DEF PlanTyped
    <3>4. Held(r)'
      BY <2>0, <3>1 DEF Held, tables, Frame
    <3> QED
      BY <2>0, <3>1, <3>2, <3>3, <3>4, QuietTyped
  <2>2. CASE Load(r)
    <3>1. CASE Leave(r, "done")
      BY <2>0, <2>2, <3>1, LeaveTyped, QuietTyped DEF Load
    <3>2. CASE ~Leave(r, "done")
      <4>1. /\ pc[r] = "load" /\ istatus[input[r].import] = "pending"
            /\ pc'[r] = IF input[r].kind = "apply" THEN "plan" ELSE "mark"
            /\ UNCHANGED <<tables, input, plan, targets, deleted, inserted>>
        BY <2>0, <2>2, <3>2 DEF Load, Goto, Functions
      <4>2. AskTyped(r)'
        BY <2>0, <4>1 DEF AskTyped, Steps, tables
      <4>3. PlanTyped(r)'
        BY <2>0, <4>1 DEF PlanTyped
      <4>4. Held(r)'
        BY <2>0, <4>1, WritesFrame DEF Held, tables
      <4> QED
        BY <2>0, <4>1, <4>2, <4>3, <4>4, QuietTyped
    <3> QED
      BY <3>1, <3>2
  <2>3. CASE BuildPlan(r)
    <3> DEFINE f == IF input[r].kind = "deposit" THEN input[r].file ELSE file[input[r].import]
    <3>1. /\ pc[r] = "plan" /\ plan'[r] = PlanOf(f, labels)
          /\ pc'[r] = IF input[r].kind = "deposit" THEN "store" ELSE "compare"
          /\ UNCHANGED <<tables, input, loaded, targets, deleted, inserted>>
      BY <2>0, <2>3 DEF BuildPlan, Goto, Functions
    <3>2. f \in Files
      BY <2>0, <3>1 DEF AskTyped, StoreTyped
    <3>3. IsPlan(plan'[r]) /\ DOMAIN plan'[r] = DOMAIN f
      BY <3>1, <3>2, PlanOfTyped
    <3>4. AskTyped(r)'
      BY <2>0, <3>1 DEF AskTyped, Steps, tables
    <3>5. PlanTyped(r)'
      BY <3>1, <3>3 DEF PlanTyped, IsPlan, tables
    <3>6. Held(r)'
      BY <2>0, <3>1 DEF Held, tables
    <3> QED
      BY <2>0, <3>1, <3>4, <3>5, <3>6, QuietTyped
  <2>4. CASE Store(r)
    <3>1. PICK i \in Imports :
             /\ pc[r] = "store" /\ istatus[i] = "none"
             /\ istatus' = [istatus EXCEPT ![i] = "pending"]
             /\ file' = [file EXCEPT ![i] = input[r].file]
             /\ apercu' = [apercu EXCEPT ![i] = plan[r]]
             /\ Leave(r, "done") /\ UNCHANGED <<labels, history>>
      BY <2>4 DEF Store
    <3>2. Deposited
      BY <2>0, <3>1 DEF Deposited, Functions
    <3>3. StoreTyped'
      BY <2>0, <3>1 DEF StoreTyped, Functions, AskTyped, PlanTyped
    <3>4. AskTyped(r)' /\ PlanTyped(r)' /\ Held(r)' /\ deleted'[r] = {}
      BY <3>1, LeaveTyped
    <3>5. \A q \in Requests : deleted[q] \subseteq labels'
      BY <3>1 DEF TypeInv, Held
    <3> QED
      BY <2>0, <3>2, <3>3, <3>4, <3>5, OthersTyped DEF TypeInv
  <2>5. CASE Compare(r)
    <3>1. pc[r] = "compare" /\ UNCHANGED <<labels, history, file, istatus>>
      BY <2>5 DEF Compare
    <3>2. CASE plan[r] # loaded[r]
      <4>1. apercu' = [apercu EXCEPT ![input[r].import] = plan[r]] /\ Leave(r, "done")
        BY <2>5, <3>2 DEF Compare
      <4>2. StoreTyped'
        BY <2>0, <3>1, <4>1 DEF StoreTyped, Functions, AskTyped, PlanTyped
      <4>3. AskTyped(r)' /\ PlanTyped(r)' /\ Held(r)' /\ deleted'[r] = {}
        BY <4>1, LeaveTyped
      <4>4. \A q \in Requests : deleted[q] \subseteq labels'
        BY <3>1 DEF TypeInv, Held
      <4>5. Deposited
        BY <3>1 DEF Deposited
      <4> QED
        BY <2>0, <4>2, <4>3, <4>4, <4>5, OthersTyped DEF TypeInv
    <3>3. CASE plan[r] = loaded[r]
      <4>1. /\ pc'[r] \in {"mark", "delete"} /\ UNCHANGED tables
            /\ UNCHANGED <<input, loaded, plan, targets, deleted, inserted>>
        BY <2>0, <2>5, <3>1, <3>3 DEF Compare, Goto, Functions, tables
      <4>2. AskTyped(r)'
        BY <2>0, <3>1, <4>1 DEF AskTyped, Steps, tables
      <4>3. PlanTyped(r)'
        BY <2>0, <4>1 DEF PlanTyped
      <4>4. Held(r)'
        BY <2>0, <3>1, <4>1, WritesFrame DEF Held, tables
      <4> QED
        BY <2>0, <4>1, <4>2, <4>3, <4>4, QuietTyped
    <3> QED
      BY <3>2, <3>3
  <2>6. CASE Mark(r)
    <3>1. /\ pc[r] = "mark" /\ Leave(r, "done") /\ UNCHANGED <<labels, history, file, apercu>>
          /\ istatus' = [istatus EXCEPT ![input[r].import] =
                           IF input[r].kind = "apply" THEN "applied" ELSE "rejected"]
      BY <2>6 DEF Mark
    <3>2. istatus[input[r].import] # "none" /\ input[r].import \in Imports
      BY <2>0, <3>1 DEF AskTyped
    <3>3. \A i \in Imports : /\ istatus'[i] \in {"none", "pending", "applied", "rejected"}
                             /\ istatus'[i] = "none" <=> istatus[i] = "none"
      BY <2>0, <3>1, <3>2 DEF StoreTyped, Functions
    <3>4. Deposited /\ StoreTyped'
      BY <2>0, <3>1, <3>3 DEF StoreTyped, Deposited
    <3>5. AskTyped(r)' /\ PlanTyped(r)' /\ Held(r)' /\ deleted'[r] = {}
      BY <3>1, LeaveTyped
    <3>6. \A q \in Requests : deleted[q] \subseteq labels'
      BY <3>1 DEF TypeInv, Held
    <3> QED
      BY <2>0, <3>4, <3>5, <3>6, OthersTyped DEF TypeInv
  <2>7. CASE Read(r)
    <3> DEFINE s == input[r].scrutin
    <3>1. /\ pc[r] = "read" /\ pc'[r] = "delete"
          /\ plan'[r] = [x \in {s} |-> [avant |-> Exact(Weights(labels, s)),
                                        apres |-> Exact(input[r].weights)]]
          /\ UNCHANGED <<tables, input, loaded, targets, deleted, inserted>>
      BY <2>0, <2>7 DEF Read, Goto, Functions
    <3>2. s \in Scrutins /\ IsWeights(input[r].weights)
      BY <2>0, <3>1, StartAssumption DEF AskTyped
    <3>3. DOMAIN plan'[r] = {s} /\ plan'[r][s].apres.weights = input[r].weights
      BY <3>1 DEF Exact
    <3>4. AskTyped(r)'
      BY <2>0, <3>1 DEF AskTyped, Steps, tables
    <3>5. PlanTyped(r)'
      BY <3>1, <3>2, <3>3 DEF PlanTyped, IsPlan
    <3>6. Held(r)'
      BY <2>0, <3>1 DEF Held, tables
    <3> QED
      BY <2>0, <3>1, <3>4, <3>5, <3>6, QuietTyped
  <2>8. CASE Aim(r)
    <3>1. /\ pc[r] = "delete" /\ pc'[r] = "wait"
          /\ UNCHANGED <<tables, input, loaded, plan, deleted, inserted>>
      BY <2>0, <2>8 DEF Aim, Goto, Functions
    <3>2. AskTyped(r)'
      BY <2>0, <3>1 DEF AskTyped, Steps, tables
    <3>3. PlanTyped(r)'
      BY <2>0, <3>1 DEF PlanTyped
    <3>4. Held(r)'
      BY <2>0, <3>1 DEF Held, tables
    <3> QED
      BY <2>0, <3>1, <3>2, <3>3, <3>4, QuietTyped
  <2>9. CASE Delete(r)
    <3>1. /\ pc[r] = "wait" /\ pc'[r] = "insert"
          /\ \A q \in Requests \ {r} : deleted[q] \cap targets[r] = {}
          /\ deleted'[r] = targets[r] \cap labels
          /\ UNCHANGED <<tables, input, loaded, plan, targets, inserted>>
      BY <2>0, <2>9 DEF Delete, Goto, Functions
    <3>2. AskTyped(r)'
      BY <2>0, <3>1 DEF AskTyped, Steps, tables
    <3>3. PlanTyped(r)'
      BY <2>0, <3>1 DEF PlanTyped
    <3>4. Held(r)'
      BY <2>0, <3>1 DEF Held, tables, Frame
    <3>5. Deposited /\ StoreTyped'
      BY <2>0, <3>1 DEF StoreTyped, Deposited, tables
    <3>6. /\ \A q \in Requests \ {r} : deleted[q] \subseteq labels'
          /\ \A q \in Requests \ {r} : deleted[q] \cap deleted'[r] = {}
      BY <3>1 DEF TypeInv, Held, tables
    <3> QED
      BY <2>0, <3>2, <3>3, <3>4, <3>5, <3>6, OthersTyped DEF TypeInv
  <2>10. CASE Insert(r)
    <3>1. PICK x \in NewRows(r) \ inserted[r] :
             /\ IF \E y \in labels \ deleted[r] : SameKey(x, y)
                THEN Leave(r, "failed")
                ELSE /\ inserted' = [inserted EXCEPT ![r] = @ \cup {x}]
                     /\ UNCHANGED <<pc, input, loaded, plan, targets, deleted>>
             /\ UNCHANGED tables /\ pc[r] = "insert"
      BY <2>10 DEF Insert
    <3>2. CASE Leave(r, "failed")
      BY <2>0, <3>1, <3>2, LeaveTyped, QuietTyped
    <3>3. CASE ~Leave(r, "failed")
      <4>1. /\ inserted'[r] = inserted[r] \cup {x}
            /\ UNCHANGED <<pc, input, loaded, plan, targets, deleted>>
        BY <2>0, <3>1, <3>3 DEF Functions
      <4>2. AskTyped(r)' /\ PlanTyped(r)'
        BY <2>0, <3>1, <4>1 DEF AskTyped, PlanTyped, tables
      <4>3. Held(r)'
        BY <2>0, <3>1, <4>1, WritesFrame DEF Held, tables
      <4> QED
        BY <2>0, <3>1, <4>1, <4>2, <4>3, QuietTyped
    <3> QED
      BY <3>2, <3>3
  <2>11. CASE Check(r)
    <3>1. pc[r] = "insert" /\ UNCHANGED tables
      BY <2>11 DEF Check
    <3>2. CASE Leave(r, "failed")
      BY <2>0, <3>1, <3>2, LeaveTyped, QuietTyped
    <3>3. CASE ~Leave(r, "failed")
      <4>1. pc'[r] = "commit" /\ UNCHANGED <<input, loaded, plan, targets, deleted, inserted>>
        BY <2>0, <2>11, <3>3 DEF Check, Goto, Functions
      <4>2. AskTyped(r)' /\ PlanTyped(r)'
        BY <2>0, <3>1, <4>1 DEF AskTyped, PlanTyped, tables, Steps
      <4>3. Held(r)'
        BY <2>0, <3>1, <4>1, WritesFrame DEF Held, tables
      <4> QED
        BY <2>0, <3>1, <4>1, <4>2, <4>3, QuietTyped
    <3> QED
      BY <3>2, <3>3
  <2>12. CASE Commit(r)
    <3>1. /\ pc[r] = "commit" /\ labels' = (labels \ deleted[r]) \cup inserted[r]
          /\ DOMAIN history' = Scrutins /\ UNCHANGED <<file, apercu, istatus>>
      BY <2>12 DEF Commit
    <3>2. StoreTyped' /\ Deposited
      <4>1. ASSUME NEW s \in Scrutins PROVE IsSequence(history'[s])
        <5>1. history'[s] = history[s] \o Revisions(r, s) /\ IsSequence(history[s])
          BY <2>0, <2>12 DEF Commit, StoreTyped
        <5>2. Revisions(r, s) = <<>> \/ \E e : Revisions(r, s) = <<e>>
          BY DEF Revisions
        <5>3. CASE Revisions(r, s) = <<>>
          BY <5>1, <5>3, Appended
        <5>4. ASSUME NEW e, Revisions(r, s) = <<e>> PROVE IsSequence(history'[s])
          <6>1. IsSequence(history[s] \o <<e>>)
            BY <5>1, Appended
          <6> QED
            BY <5>1, <5>4, <6>1
        <5> QED
          BY <5>2, <5>3, <5>4
      <4> QED
        BY <2>0, <3>1, <4>1, NewRowsTyped DEF StoreTyped, Deposited, Held, PlanTyped
    <3>3. \A q \in Requests \ {r} : deleted[q] \subseteq labels'
      BY <3>1 DEF TypeInv, Held
    <3>4. AskTyped(r)' /\ PlanTyped(r)' /\ Held(r)' /\ deleted'[r] = {}
      <4>1. CASE input[r].kind = "save"
        BY <2>12, <4>1, LeaveTyped DEF Commit
      <4>2. CASE input[r].kind # "save"
        <5>1. /\ pc'[r] = "mark" /\ deleted'[r] = {} /\ inserted'[r] = {}
              /\ UNCHANGED <<input, plan>>
          BY <2>0, <2>12, <4>2 DEF Commit, Goto, Functions
        <5> QED
          BY <2>0, <3>1, <5>1, <4>2 DEF AskTyped, PlanTyped, Held, Steps
      <4> QED
        BY <4>1, <4>2
    <3> QED
      BY <2>0, <3>2, <3>3, <3>4, OthersTyped DEF TypeInv
  <2>13. CASE Fail(r)
    BY <2>0, <2>13, LeaveTyped, QuietTyped DEF Fail
  <2> QED
    BY <2>1, <2>2, <2>3, <2>4, <2>5, <2>6, <2>7, <2>8, <2>9, <2>10, <2>11, <2>12, <2>13
       DEF Handle, Opening
<1> QED
  BY <1>1, <1>2 DEF Next

LEMMA TypeHolds == Spec => []TypeInv
BY TypeInit, TypeStep, PTL DEF Spec
\* The types hold for any requests, imports and scrutins: above all, a row
\* that a transaction deletes is a committed row and has one deleter, and an
\* import that is applied or rejected was deposited (TypeOK).
THEOREM LabelTypesCorrect == Spec => []TypeOK
<1>1. TypeInv => TypeOK
  <2> SUFFICES ASSUME TypeInv PROVE TypeOK
    OBVIOUS
  <2>1. \A i \in Imports : istatus[i] = "none" <=> file[i] = Empty
    BY StartAssumption DEF TypeInv, StoreTyped, Empty
  <2> QED
    BY <2>1 DEF TypeInv, StoreTyped, AskTyped, PlanTyped, IsPlan, Held, Steps, TypeOK
<1> QED
  BY <1>1, TypeHolds, PTL
-----------------------------------------------------------------------------
(* Requests that write together, while nobody takes a scrutin's last label.  *)

RowsOf(rows, s) == {x \in rows : x.scrutin = s}

\* Every scrutin is categorised, and `supprimer` is not asked: without this
\* two requests can both find a scrutin empty and both fill it.
NothingRemoved ==
  /\ \A c \in Contents : DOMAIN c # {}
  /\ \A s \in Scrutins : RowsOf(StartLabels, s) # {}

\* A plan that leaves every scrutin with a label.
Fills(p) == \A s \in DOMAIN p : DOMAIN p[s].apres.weights # {}

\* The requests whose rows can be committed.
Past(r) == pc[r] \in {"mark", "done", "failed"}

LabelsInv ==
  /\ IsFiniteSet(labels)
  /\ \A s \in Scrutins : RowsOf(labels, s) # {}
  /\ OneDecision /\ WeightsCoherent
  /\ \A x \in labels, r \in Requests : x.by = r => Past(r)

\* What a transaction found is, for each scrutin, its rows or the rows of a
\* decision that was replaced since; what it deleted, all its rows or none;
\* and when it may commit, all of them.
WriteInv(r) ==
  /\ Fills(plan[r])
  /\ \A x \in targets[r], q \in Requests : x.by = q => Past(q)
  /\ pc[r] = "wait" =>
       /\ \A x \in targets[r] : x.scrutin \in Touched(r)
       /\ \A s \in Touched(r) : \/ RowsOf(targets[r], s) = RowsOf(labels, s)
                                \/ RowsOf(targets[r], s) \cap labels = {}
  /\ IsFiniteSet(inserted[r])
  /\ \A x \in deleted[r] : x.scrutin \in Touched(r)
  /\ pc[r] = "insert" =>
       \A s \in Touched(r) : \/ RowsOf(deleted[r], s) = {}
                             \/ RowsOf(deleted[r], s) = RowsOf(labels, s)
  /\ pc[r] = "commit" =>
       /\ inserted[r] = NewRows(r)
       /\ \A s \in Touched(r) : /\ RowsOf(deleted[r], s) = RowsOf(labels, s)
                                /\ Coherent(NewRows(r), s)

TogetherInv ==
  NothingRemoved /\ LabelsInv /\ \A r \in Requests : WriteInv(r)

\* The trigger looks at the rows of one scrutin, and so do the weights.
LEMMA CoherentLocal ==
  ASSUME NEW A, NEW B, NEW s, RowsOf(A, s) = RowsOf(B, s)
  PROVE  (Coherent(A, s) <=> Coherent(B, s)) /\ Weights(A, s) = Weights(B, s)
<1>1. \A S : Coherent(S, s) <=> (RowsOf(S, s) = {} \/ Cardinality(Units(RowsOf(S, s))) = Whole)
  BY DEF RowsOf, Coherent
<1> DEFINE W(own) == [t \in {x.theme : x \in own} |-> (CHOOSE x \in own : x.theme = t).poids]
<1>2. ASSUME NEW S PROVE Weights(S, s) = W(RowsOf(S, s))
  BY DEF RowsOf, Weights
<1> HIDE DEF W
<1> QED
  BY <1>1, <1>2

\* Two coherent sets of rows of a scrutin, one in the other, are the same:
\* the trigger refuses the labels of two requests on top of each other.
LEMMA CoherentIsWhole ==
  ASSUME NEW A, NEW B, NEW s, IsFiniteSet(B), A \subseteq B, \A x \in B : IsRow(x),
         RowsOf(A, s) # {}, Coherent(A, s), Coherent(B, s)
  PROVE  RowsOf(A, s) = RowsOf(B, s)
<1> DEFINE U == Units(RowsOf(A, s))
           V == Units(RowsOf(B, s))
<1>1. Cardinality(U) = Whole /\ Cardinality(V) = Whole
  BY DEF Coherent, RowsOf
<1>2. ASSUME NEW S, NEW p PROVE (p \in Units(S)) <=> \E x \in S : \E n \in 1..x.poids : p = <<x, n>>
  <2>1. (p \in Units(S)) <=> \E x \in S : p \in {x} \X (1..x.poids)
    BY DEF Units
  <2> QED
    BY <2>1
<1>3. V \subseteq B \X (1..Whole)
  <2> SUFFICES ASSUME NEW p \in V PROVE p \in B \X (1..Whole)
    OBVIOUS
  <2>1. PICK x \in RowsOf(B, s) : \E n \in 1..x.poids : p = <<x, n>>
    BY <1>2
  <2>2. x \in B /\ x.poids \in 1..Whole
    BY DEF RowsOf, IsRow
  <2>3. 1..x.poids \subseteq 1..Whole
    BY <2>2, StartAssumption
  <2> QED
    BY <2>1, <2>2, <2>3
<1>4. IsFiniteSet(V)
  <2>0. 1 \in Int /\ Whole \in Int
    BY StartAssumption
  <2>1. IsFiniteSet(B \X (1..Whole))
    BY <2>0, FS_Interval, FS_Product, Zenon
  <2> HIDE DEF V
  <2> QED
    BY <1>3, <2>1, FS_Subset
<1>5. U \subseteq V
  <2> SUFFICES ASSUME NEW p \in U PROVE p \in V
    OBVIOUS
  <2>1. PICK x \in RowsOf(A, s) : \E n \in 1..x.poids : p = <<x, n>>
    BY <1>2
  <2> QED
    BY <2>1, <1>2 DEF RowsOf
<1>6. U = V
  <2> HIDE DEF U, V
  <2> QED
    BY <1>1, <1>4, <1>5, FS_Subset
<1>7. ASSUME NEW x \in RowsOf(B, s) PROVE x \in RowsOf(A, s)
  <2>1. 1 \in 1..x.poids
    BY StartAssumption DEF RowsOf, IsRow
  <2>2. <<x, 1>> \in U
    BY <1>2, <1>6, <2>1
  <2>3. PICK y \in RowsOf(A, s) : \E n \in 1..y.poids : <<x, 1>> = <<y, n>>
    BY <1>2, <2>2
  <2> QED
    BY <2>3
<1> QED
  BY <1>7 DEF RowsOf

\* What is written for a scrutin is read back as planned.
LEMMA WrittenWeights ==
  ASSUME NEW r, IsPlan(plan[r]), NEW s \in Touched(r), NEW rows,
         RowsOf(rows, s) = RowsOf(NewRows(r), s)
  PROVE  Weights(rows, s) = plan[r][s].apres.weights
<1> DEFINE w == plan[r][s].apres.weights
           own == RowsOf(NewRows(r), s)
           New(t) == [scrutin |-> s, theme |-> t, poids |-> w[t],
                      method |-> IF input[r].kind = "save" THEN "manual" ELSE "import", by |-> r]
<1>1. IsWeights(w)
  BY TouchedPlanned DEF IsPlan
<1>2. ASSUME NEW x \in own PROVE \E t \in DOMAIN w : x.theme = t /\ x.poids = w[t]
  <2>1. PICK z \in Touched(r) : \E t \in DOMAIN plan[r][z].apres.weights :
             x = [scrutin |-> z, theme |-> t, poids |-> plan[r][z].apres.weights[t],
                  method |-> IF input[r].kind = "save" THEN "manual" ELSE "import", by |-> r]
    BY NewRowsAre DEF RowsOf
  <2>2. z = s
    BY <2>1 DEF RowsOf
  <2> QED
    BY <2>1, <2>2
<1>3. ASSUME NEW t \in DOMAIN w PROVE \E x \in own : x.theme = t
  <2>1. New(t) \in own
    BY NewRowsAre DEF RowsOf
  <2>2. New(t).theme = t
    OBVIOUS
  <2> QED
    BY <2>1, <2>2
<1> HIDE DEF own
<1>4. {x.theme : x \in own} = DOMAIN w
  BY <1>2, <1>3
<1>5. ASSUME NEW t \in DOMAIN w PROVE (CHOOSE x \in own : x.theme = t).poids = w[t]
  <2>1. \E x \in own : x.theme = t
    BY <1>3
  <2>2. PICK x \in own : x = (CHOOSE y \in own : y.theme = t) /\ x.theme = t
    BY <2>1
  <2>3. x.poids = w[t]
    BY <2>2, <1>2
  <2> QED
    BY <2>2, <2>3
<1> DEFINE W(mine) == [t \in {x.theme : x \in mine} |-> (CHOOSE x \in mine : x.theme = t).poids]
<1>6. Weights(rows, s) = W(RowsOf(rows, s))
  BY DEF Weights, RowsOf
<1>7. W(own) = [t \in DOMAIN w |-> w[t]]
  BY <1>4, <1>5
<1>8. Weights(rows, s) = W(own)
  <2> HIDE DEF W
  <2> QED
    BY <1>6 DEF own
<1> QED
  BY <1>1, <1>7, <1>8 DEF IsWeights

\* A scrutin that is filled has a new row.
LEMMA FilledRows ==
  ASSUME NEW r, Fills(plan[r]), NEW s \in Touched(r)
  PROVE  RowsOf(NewRows(r), s) # {}
<1>1. PICK t \in DOMAIN plan[r][s].apres.weights : TRUE
  BY TouchedPlanned DEF Fills
<1>2. [scrutin |-> s, theme |-> t, poids |-> plan[r][s].apres.weights[t],
       method |-> IF input[r].kind = "save" THEN "manual" ELSE "import", by |-> r] \in NewRows(r)
  BY <1>1, NewRowsAre
<1> QED
  BY <1>2 DEF RowsOf
LEMMA PastStays ==
  ASSUME Functions, NEW r \in Requests, Handle(r), NEW q \in Requests, Past(q)
  PROVE  Past(q)'
<1>1. Frame(r)
  BY HandleFrame
<1>2. CASE q # r
  BY <1>1, <1>2 DEF Frame, Past
<1>3. CASE q = r
  <2>1. CASE Opening(r)
    BY <1>3, <2>1, OpeningGives DEF Past
  <2>2. CASE Mark(r) \/ Fail(r)
    BY <1>3, <2>2, LeaveGives DEF Mark, Fail, Past
  <2>3. CASE ~(Mark(r) \/ Fail(r) \/ Opening(r))
    BY <1>3, <2>3 DEF Handle, Opening, Past, Load, BuildPlan, Store, Compare, Read, Aim, Delete,
                      Insert, Check, Commit
  <2> QED
    BY <2>1, <2>2, <2>3
<1> QED
  BY <1>2, <1>3

\* A step that commits nothing disturbs nobody else.
LEMMA QuietTogether ==
  ASSUME TypeInv, TogetherInv, NEW r \in Requests, Handle(r), labels' = labels, WriteInv(r)'
  PROVE  TogetherInv'
<1>1. Functions /\ Frame(r)
  BY HandleFrame DEF TypeInv
<1>2. \A q \in Requests : Past(q) => Past(q)'
  BY <1>1, PastStays
<1>3. LabelsInv'
  BY <1>2 DEF TogetherInv, LabelsInv, OneDecision, WeightsCoherent
<1>4. ASSUME NEW q \in Requests \ {r} PROVE WriteInv(q)'
  <2>1. WriteInv(q) /\ Touched(q)' = Touched(q) /\ NewRows(q)' = NewRows(q)
    BY <1>1, WritesFrame DEF TogetherInv, Frame
  <2>2. /\ pc'[q] = pc[q] /\ plan'[q] = plan[q] /\ targets'[q] = targets[q]
        /\ deleted'[q] = deleted[q] /\ inserted'[q] = inserted[q]
    BY <1>1 DEF Frame
  <2>3. Fills(plan[q])'
    BY <2>1, <2>2 DEF WriteInv, Fills
  <2> QED
    BY <1>2, <2>1, <2>2, <2>3 DEF WriteInv
<1> QED
  BY <1>3, <1>4 DEF TogetherInv, NothingRemoved

LEMMA TogetherInit == Init /\ NothingRemoved => TogetherInv
<1> SUFFICES ASSUME Init, NothingRemoved PROVE TogetherInv
  OBVIOUS
<1>1. LabelsInv
  BY StartAssumption DEF Init, LabelsInv, NothingRemoved, OneDecision, WeightsCoherent
<1>2. ASSUME NEW r \in Requests PROVE WriteInv(r)
  BY EmptyTyped, FS_EmptySet DEF Init, WriteInv, Fills
<1> QED
  BY <1>1, <1>2 DEF TogetherInv

\* What a request that leaves still has to write is nothing.
LEMMA LeaveWrites ==
  ASSUME TypeInv, NEW r \in Requests, NEW how \in {"done", "failed"}, Leave(r, how)
  PROVE  WriteInv(r)'
<1>1. /\ pc'[r] = how /\ plan'[r] = Empty
      /\ targets'[r] = {} /\ deleted'[r] = {} /\ inserted'[r] = {}
  BY LeaveGives DEF TypeInv
<1>2. Fills(plan[r])'
  BY <1>1, EmptyTyped DEF Fills
<1> QED
  BY <1>1, <1>2, FS_EmptySet DEF WriteInv

\* At the commit, what a request touched has its rows, and the rest has what
\* it had.
LEMMA CommitGives ==
  ASSUME TypeInv, TogetherInv, NEW r \in Requests, Commit(r), NEW s
  PROVE  /\ s \in Touched(r) => RowsOf(labels', s) = RowsOf(NewRows(r), s)
         /\ s \notin Touched(r) => RowsOf(labels', s) = RowsOf(labels, s)
<1>1. /\ pc[r] = "commit" /\ labels' = (labels \ deleted[r]) \cup inserted[r]
      /\ WriteInv(r) /\ Held(r) /\ PlanTyped(r)
  BY DEF Commit, TypeInv, TogetherInv
<1>2. inserted[r] = NewRows(r)
  BY <1>1 DEF WriteInv
<1>3. \A x \in NewRows(r) : x.scrutin \in Touched(r)
  BY <1>1, NewRowsTyped DEF PlanTyped
<1>4. CASE s \in Touched(r)
  <2>1. RowsOf(deleted[r], s) = RowsOf(labels, s)
    BY <1>1, <1>4 DEF WriteInv
  <2> QED
    BY <1>1, <1>2, <1>4, <2>1 DEF RowsOf
<1>5. CASE s \notin Touched(r)
  BY <1>1, <1>2, <1>3, <1>5 DEF WriteInv, RowsOf
<1> QED
  BY <1>4, <1>5
\* Past the deferred trigger, a transaction has replaced all it touched: had
\* it found a scrutin that another one rewrote meanwhile, its rows would come
\* on top of that one's, and the sum would be wrong.
LEMMA CheckWrites ==
  ASSUME TypeInv, TogetherInv, NEW r \in Requests, Check(r), pc'[r] = "commit"
  PROVE  WriteInv(r)'
<1> DEFINE V == (labels \ deleted[r]) \cup inserted[r]
<1>1. /\ pc[r] = "insert" /\ inserted[r] = NewRows(r) /\ UNCHANGED tables
      /\ \A x \in deleted[r] \cup inserted[r] : Coherent(V, x.scrutin)
      /\ UNCHANGED <<input, loaded, plan, targets, deleted, inserted>>
  BY LeaveGives DEF Check, TypeInv
<1>2. /\ WriteInv(r) /\ AskTyped(r) /\ PlanTyped(r) /\ Held(r) /\ LabelsInv /\ StoreTyped /\ Functions
  BY DEF TypeInv, TogetherInv
<1>3. \A x \in NewRows(r) : IsRow(x) /\ x.by = r /\ x.scrutin \in Touched(r)
  BY <1>2, NewRowsTyped DEF PlanTyped
<1>4. IsFiniteSet(V)
  <2>1. IsFiniteSet(labels \ deleted[r])
    BY <1>2, FS_Difference DEF LabelsInv
  <2> QED
    BY <1>2, <2>1, FS_Union DEF WriteInv
<1>5. ASSUME NEW s \in Touched(r)
      PROVE  RowsOf(deleted[r], s) = RowsOf(labels, s) /\ Coherent(NewRows(r), s)
  <2>1. PICK x \in NewRows(r) : x.scrutin = s
    BY <1>2, FilledRows DEF WriteInv, RowsOf
  <2>2. s \in Scrutins
    BY <1>2, TouchedPlanned DEF PlanTyped, IsPlan
  <2>3. Coherent(V, s)
    BY <1>1, <2>1
  <2>4. RowsOf(deleted[r], s) = RowsOf(labels, s)
    <3> SUFFICES ASSUME RowsOf(deleted[r], s) = {} PROVE FALSE
      BY <1>1, <1>2 DEF WriteInv
    <3> DEFINE A == RowsOf(labels, s)
    <3>1. A \subseteq V /\ RowsOf(A, s) = RowsOf(labels, s)
      BY DEF RowsOf
    <3>2. Coherent(A, s) /\ RowsOf(A, s) # {}
      BY <1>2, <2>2, <3>1, CoherentLocal DEF LabelsInv, WeightsCoherent
    <3>3. \A y \in V : IsRow(y)
      BY <1>1, <1>2, <1>3 DEF StoreTyped
    <3>4. RowsOf(A, s) = RowsOf(V, s)
      <4> HIDE DEF A, V
      <4> QED
        BY <1>4, <2>3, <3>1, <3>2, <3>3, CoherentIsWhole
    <3>5. x \in labels /\ x.by = r
      BY <1>1, <1>3, <2>1, <3>1, <3>4 DEF RowsOf
    <3> QED
      BY <1>1, <1>2, <3>5 DEF LabelsInv, Past
  <2>5. RowsOf(V, s) = RowsOf(NewRows(r), s)
    BY <1>1, <2>4 DEF RowsOf
  <2> HIDE DEF V
  <2> QED
    BY <2>3, <2>4, <2>5, CoherentLocal
<1>6. Past(r) <=> Past(r)'
  BY <1>1 DEF Past
<1>7. \A x \in targets[r], q \in Requests : x.by = q => Past(q)'
  <2>1. Handle(r)
    BY DEF Handle
  <2> QED
    BY <1>2, <2>1, PastStays DEF WriteInv
<1>8. Touched(r)' = Touched(r) /\ NewRows(r)' = NewRows(r)
  BY <1>1, WritesFrame
<1> HIDE DEF V
<1> QED
  BY <1>1, <1>2, <1>5, <1>7, <1>8 DEF WriteInv, Fills, tables

\* A commit replaces whole decisions by whole decisions, and no other
\* transaction has what it replaces.
LEMMA CommitTogether ==
  ASSUME TypeInv, TogetherInv, NEW r \in Requests, Commit(r)
  PROVE  TogetherInv'
<1>1. /\ pc[r] = "commit" /\ labels' = (labels \ deleted[r]) \cup inserted[r]
      /\ WriteInv(r) /\ Held(r) /\ PlanTyped(r) /\ LabelsInv /\ Functions
      /\ inserted[r] = NewRows(r)
  BY DEF Commit, TypeInv, TogetherInv, WriteInv
<1>2. /\ Handle(r) /\ Frame(r)
  BY <1>1, HandleFrame DEF Handle
<1>3. \A q \in Requests : Past(q) => Past(q)'
  BY <1>1, <1>2, PastStays
<1>4. /\ \A s \in Touched(r) : RowsOf(labels', s) = RowsOf(NewRows(r), s)
      /\ \A s : s \notin Touched(r) => RowsOf(labels', s) = RowsOf(labels, s)
  BY CommitGives
<1>5. \A x \in NewRows(r) : x.by = r /\ x.scrutin \in Touched(r)
  BY <1>1, NewRowsTyped DEF PlanTyped
<1>6. Past(r)' /\ WriteInv(r)'
  <2>1. CASE input[r].kind = "save"
    <3>1. Leave(r, "done")
      BY <2>1 DEF Commit
    <3> QED
      BY <1>1, <3>1, LeaveWrites, LeaveGives DEF Past
  <2>2. CASE input[r].kind # "save"
    <3>1. /\ pc'[r] = "mark" /\ deleted'[r] = {} /\ inserted'[r] = {} /\ targets'[r] = {}
          /\ plan'[r] = plan[r]
      BY <1>1, <2>2 DEF Commit, Goto, Functions
    <3> QED
      BY <1>1, <3>1, FS_EmptySet DEF WriteInv, Fills, Past
  <2> QED
    BY <2>1, <2>2
<1>7. LabelsInv'
  <2>1. IsFiniteSet(labels')
    <3>1. IsFiniteSet(labels \ deleted[r])
      BY <1>1, FS_Difference DEF LabelsInv
    <3> QED
      BY <1>1, <3>1, FS_Union DEF WriteInv
  <2>2. \A s \in Scrutins : RowsOf(labels', s) # {}
    BY <1>1, <1>4, FilledRows DEF LabelsInv, WriteInv
  <2>3. ASSUME NEW s \in Scrutins PROVE Coherent(labels', s)
    <3>1. CASE s \in Touched(r)
      BY <1>1, <1>4, <3>1, CoherentLocal DEF WriteInv
    <3>2. CASE s \notin Touched(r)
      BY <1>1, <1>4, <3>2, CoherentLocal DEF LabelsInv, WeightsCoherent
    <3> QED
      BY <3>1, <3>2
  <2>4. ASSUME NEW x \in labels', NEW y \in labels', x.scrutin = y.scrutin PROVE x.by = y.by
    <3>1. x \in RowsOf(labels', x.scrutin) /\ y \in RowsOf(labels', x.scrutin)
      BY <2>4 DEF RowsOf
    <3>2. CASE x.scrutin \in Touched(r)
      BY <1>4, <1>5, <3>1, <3>2 DEF RowsOf
    <3>3. CASE x.scrutin \notin Touched(r)
      BY <1>1, <1>4, <2>4, <3>1, <3>3 DEF RowsOf, LabelsInv, OneDecision
    <3> QED
      BY <3>2, <3>3
  <2>5. ASSUME NEW x \in labels', NEW q \in Requests, x.by = q PROVE Past(q)'
    <3>1. CASE x \in NewRows(r)
      BY <1>5, <1>6, <2>5, <3>1
    <3>2. CASE x \in labels
      BY <1>1, <1>3, <2>5, <3>2 DEF LabelsInv
    <3> QED
      BY <1>1, <3>1, <3>2
  <2> QED
    BY <2>1, <2>2, <2>3, <2>4, <2>5 DEF LabelsInv, OneDecision, WeightsCoherent
<1>8. ASSUME NEW q \in Requests \ {r} PROVE WriteInv(q)'
  <2>1. /\ WriteInv(q) /\ Held(q) /\ PlanTyped(q)
        /\ Touched(q)' = Touched(q) /\ NewRows(q)' = NewRows(q)
    BY <1>2, WritesFrame DEF TogetherInv, TypeInv, Frame
  <2>2. /\ pc'[q] = pc[q] /\ plan'[q] = plan[q] /\ targets'[q] = targets[q]
        /\ deleted'[q] = deleted[q] /\ inserted'[q] = inserted[q]
    BY <1>2 DEF Frame
  <2>3. Touched(q) \subseteq Scrutins
    BY <2>1, TouchedPlanned DEF PlanTyped, IsPlan
  <2>4. ASSUME NEW s \in Touched(q), RowsOf(deleted[q], s) = RowsOf(labels, s)
        PROVE  s \notin Touched(r)
    <3> SUFFICES ASSUME s \in Touched(r) PROVE FALSE
      OBVIOUS
    <3>1. RowsOf(deleted[r], s) = RowsOf(labels, s)
      BY <1>1 DEF WriteInv
    <3>2. PICK x \in labels : x.scrutin = s
      BY <1>1, <2>3 DEF LabelsInv, RowsOf
    <3>3. x \in deleted[r] /\ x \in deleted[q]
      BY <2>4, <3>1, <3>2 DEF RowsOf
    <3> QED
      BY <1>1, <3>3 DEF Held
  <2>5. ASSUME pc[q] = "wait", NEW s \in Touched(q)
        PROVE  \/ RowsOf(targets[q], s) = RowsOf(labels', s)
               \/ RowsOf(targets[q], s) \cap labels' = {}
    <3>1. CASE s \in Touched(r)
      <4> SUFFICES ASSUME NEW x \in RowsOf(targets[q], s), x \in labels' PROVE FALSE
        OBVIOUS
      <4>1. x \in NewRows(r) /\ x \in targets[q]
        BY <1>4, <3>1 DEF RowsOf
      <4> QED
        BY <1>1, <1>5, <2>1, <4>1 DEF WriteInv, Past
    <3>2. CASE s \notin Touched(r)
      <4>1. RowsOf(labels', s) = RowsOf(labels, s)
        BY <1>4, <3>2
      <4>2. RowsOf(targets[q], s) = RowsOf(labels, s) \/ RowsOf(targets[q], s) \cap labels = {}
        BY <2>1, <2>5 DEF WriteInv
      <4> QED
        BY <4>1, <4>2 DEF RowsOf
    <3> QED
      BY <3>1, <3>2
  <2>6. ASSUME pc[q] = "insert", NEW s \in Touched(q)
        PROVE  RowsOf(deleted[q], s) = {} \/ RowsOf(deleted[q], s) = RowsOf(labels', s)
    BY <1>4, <2>1, <2>4, <2>6 DEF WriteInv
  <2>7. ASSUME pc[q] = "commit", NEW s \in Touched(q)
        PROVE  RowsOf(deleted[q], s) = RowsOf(labels', s) /\ Coherent(NewRows(q), s)
    BY <1>4, <2>1, <2>4, <2>7 DEF WriteInv
  <2>8. Fills(plan[q])'
    BY <2>1, <2>2 DEF WriteInv, Fills
  <2>9. \A x \in targets[q], p \in Requests : x.by = p => Past(p)'
    BY <1>3, <2>1 DEF WriteInv
  <2> QED
    BY <2>1, <2>2, <2>5, <2>6, <2>7, <2>8, <2>9 DEF WriteInv
<1> QED
  BY <1>6, <1>7, <1>8 DEF TogetherInv, NothingRemoved
LEMMA TogetherStep == TypeInv /\ TogetherInv /\ [Next]_vars => TogetherInv'
<1> SUFFICES ASSUME TypeInv, TogetherInv, [Next]_vars PROVE TogetherInv'
  OBVIOUS
<1>1. CASE UNCHANGED vars
  <2>1. LabelsInv'
    BY <1>1 DEF vars, tables, request, TogetherInv, LabelsInv, OneDecision, WeightsCoherent, Past
  <2>2. ASSUME NEW r \in Requests PROVE WriteInv(r)'
    <3>1. UNCHANGED <<labels, pc, input, plan, targets, deleted, inserted>> /\ WriteInv(r)
      BY <1>1 DEF vars, tables, request, TogetherInv
    <3>2. Touched(r)' = Touched(r) /\ NewRows(r)' = NewRows(r)
      BY <3>1, WritesFrame
    <3> QED
      BY <3>1, <3>2 DEF WriteInv, Fills, Past
  <2> QED
    BY <2>1, <2>2 DEF TogetherInv, NothingRemoved
<1>2. ASSUME NEW r \in Requests, Handle(r) PROVE TogetherInv'
  <2> USE <1>2
  <2>0. /\ Functions /\ Frame(r) /\ WriteInv(r) /\ AskTyped(r) /\ PlanTyped(r) /\ Held(r)
        /\ LabelsInv /\ StoreTyped /\ NothingRemoved
    BY HandleFrame DEF TypeInv, TogetherInv
  <2>1. \A q \in Requests : Past(q) => Past(q)'
    BY <2>0, PastStays
  <2>2. CASE Opening(r) \/ Load(r)
    <3>1. CASE Leave(r, "done") /\ UNCHANGED tables
      BY <3>1, LeaveWrites, QuietTogether DEF tables
    <3>2. CASE ~(Leave(r, "done") /\ UNCHANGED tables)
      <4>1. /\ UNCHANGED <<tables, plan, targets, deleted, inserted>>
            /\ pc'[r] \in {"read", "plan", "load", "mark"} /\ pc[r] \in {"new", "load"}
        BY <2>0, <2>2, <3>2, OpeningGives DEF Load, Goto, Functions
      <4>2. \A x \in targets[r], q \in Requests : x.by = q => Past(q)'
        BY <2>0, <2>1 DEF WriteInv
      <4>3. deleted[r] = {}
        BY <2>0, <4>1 DEF Held
      <4>4. WriteInv(r)'
        BY <2>0, <4>1, <4>2, <4>3 DEF WriteInv, Fills
      <4> QED
        BY <4>1, <4>4, QuietTogether DEF tables
    <3> QED
      BY <3>1, <3>2
  <2>3. CASE BuildPlan(r) \/ Read(r)
    <3>1. /\ UNCHANGED <<tables, targets, deleted, inserted>>
          /\ pc'[r] \in {"store", "compare", "delete"} /\ pc[r] \in {"plan", "read"}
      BY <2>0, <2>3 DEF BuildPlan, Read, Goto, Functions
    <3>2. \A x \in targets[r], q \in Requests : x.by = q => Past(q)'
      BY <2>0, <2>1 DEF WriteInv
    <3>3. Fills(plan'[r])
      <4>1. CASE BuildPlan(r)
        <5> DEFINE f == IF input[r].kind = "deposit" THEN input[r].file ELSE file[input[r].import]
        <5>1. pc[r] = "plan" /\ plan'[r] = PlanOf(f, labels)
          BY <2>0, <4>1 DEF BuildPlan, Functions
        <5>2. f \in Files
          BY <2>0, <5>1 DEF AskTyped, StoreTyped
        <5> HIDE DEF f
        <5>3. \A s \in DOMAIN plan'[r] : s \in DOMAIN f /\ plan'[r][s].apres = f[s]
          BY <5>1 DEF PlanOf
        <5> QED
          BY <5>2, <5>3, StartAssumption DEF Fills
      <4>2. CASE Read(r)
        <5> DEFINE s == input[r].scrutin
        <5>1. /\ pc[r] = "read"
              /\ plan'[r] = [x \in {s} |-> [avant |-> Exact(Weights(labels, s)),
                                            apres |-> Exact(input[r].weights)]]
          BY <2>0, <4>2 DEF Read, Functions
        <5>2. DOMAIN plan'[r] = {s} /\ plan'[r][s].apres.weights = input[r].weights
          BY <5>1 DEF Exact
        <5> QED
          BY <2>0, <5>1, <5>2 DEF Fills, AskTyped, NothingRemoved
      <4> QED
        BY <2>3, <4>1, <4>2
    <3>4. deleted[r] = {}
      BY <2>0, <3>1 DEF Held
    <3>5. WriteInv(r)'
      BY <2>0, <3>1, <3>2, <3>3, <3>4 DEF WriteInv, Fills
    <3> QED
      BY <3>1, <3>5, QuietTogether DEF tables
  <2>4. CASE Store(r) \/ Mark(r) \/ Fail(r)
    <3>1. /\ Leave(r, "done") \/ Leave(r, "failed")
          /\ labels' = labels
      BY <2>4 DEF Store, Mark, Fail, tables
    <3> QED
      BY <3>1, LeaveWrites, QuietTogether
  <2>5. CASE Compare(r)
    <3>1. labels' = labels /\ pc[r] = "compare"
      BY <2>5 DEF Compare
    <3>2. CASE Leave(r, "done")
      BY <3>1, <3>2, LeaveWrites, QuietTogether
    <3>3. CASE ~Leave(r, "done")
      <4>1. /\ UNCHANGED <<input, plan, targets, deleted, inserted>>
            /\ pc'[r] \in {"mark", "delete"}
        BY <2>0, <2>5, <3>3 DEF Compare, Goto, Functions
      <4>2. \A x \in targets[r], q \in Requests : x.by = q => Past(q)'
        BY <2>0, <2>1 DEF WriteInv
      <4>3. deleted[r] = {}
        BY <2>0, <3>1 DEF Held
      <4>4. WriteInv(r)'
        BY <2>0, <4>1, <4>2, <4>3 DEF WriteInv, Fills
      <4> QED
        BY <3>1, <4>4, QuietTogether
    <3> QED
      BY <3>2, <3>3
  <2>6. CASE Aim(r)
    <3>1. /\ pc[r] = "delete" /\ pc'[r] = "wait" /\ labels' = labels
          /\ targets'[r] = {x \in labels : x.scrutin \in Touched(r)}
          /\ UNCHANGED <<input, plan, deleted, inserted>>
      BY <2>0, <2>6 DEF Aim, Goto, Functions, tables
    <3>2. Touched(r)' = Touched(r)
      BY <3>1, WritesFrame
    <3>3. deleted[r] = {}
      BY <2>0, <3>1 DEF Held
    <3>4. \A s \in Touched(r) : RowsOf(targets'[r], s) = RowsOf(labels, s)
      BY <3>1 DEF RowsOf
    <3>5. \A x \in targets'[r], q \in Requests : x.by = q => Past(q)'
      BY <2>0, <2>1, <3>1 DEF LabelsInv
    <3>6. WriteInv(r)'
      BY <2>0, <3>1, <3>2, <3>3, <3>4, <3>5 DEF WriteInv, Fills
    <3> QED
      BY <3>1, <3>6, QuietTogether
  <2>7. CASE Delete(r)
    <3>1. /\ pc[r] = "wait" /\ pc'[r] = "insert" /\ labels' = labels
          /\ deleted'[r] = targets[r] \cap labels
          /\ UNCHANGED <<input, plan, targets, inserted>>
      BY <2>0, <2>7 DEF Delete, Goto, Functions, tables
    <3>2. Touched(r)' = Touched(r)
      BY <3>1, WritesFrame
    <3>3. \A x \in deleted'[r] : x.scrutin \in Touched(r)
      BY <2>0, <3>1 DEF WriteInv
    <3>4. \A s \in Touched(r) : \/ RowsOf(deleted'[r], s) = {}
                                \/ RowsOf(deleted'[r], s) = RowsOf(labels, s)
      BY <2>0, <3>1 DEF WriteInv, RowsOf
    <3>5. \A x \in targets[r], q \in Requests : x.by = q => Past(q)'
      BY <2>0, <2>1 DEF WriteInv
    <3>6. WriteInv(r)'
      BY <2>0, <3>1, <3>2, <3>3, <3>4, <3>5 DEF WriteInv, Fills
    <3> QED
      BY <3>1, <3>6, QuietTogether
  <2>8. CASE Insert(r)
    <3>1. PICK x \in NewRows(r) \ inserted[r] :
             /\ IF \E y \in labels \ deleted[r] : SameKey(x, y)
                THEN Leave(r, "failed")
                ELSE /\ inserted' = [inserted EXCEPT ![r] = @ \cup {x}]
                     /\ UNCHANGED <<pc, input, loaded, plan, targets, deleted>>
             /\ labels' = labels /\ pc[r] = "insert"
      BY <2>8 DEF Insert, tables
    <3>2. CASE Leave(r, "failed")
      BY <3>1, <3>2, LeaveWrites, QuietTogether
    <3>3. CASE ~Leave(r, "failed")
      <4>1. /\ inserted'[r] = inserted[r] \cup {x}
            /\ UNCHANGED <<pc, input, plan, targets, deleted>>
        BY <2>0, <3>1, <3>3 DEF Functions
      <4>2. IsFiniteSet(inserted'[r])
        BY <2>0, <4>1, FS_AddElement DEF WriteInv
      <4>3. Touched(r)' = Touched(r)
        BY <4>1, WritesFrame
      <4>4. \A z \in targets[r], q \in Requests : z.by = q => Past(q)'
        BY <2>0, <2>1 DEF WriteInv
      <4>5. WriteInv(r)'
        BY <2>0, <3>1, <4>1, <4>2, <4>3, <4>4 DEF WriteInv, Fills
      <4> QED
        BY <3>1, <4>5, QuietTogether
    <3> QED
      BY <3>2, <3>3
  <2>9. CASE Check(r)
    <3>1. labels' = labels
      BY <2>9 DEF Check, tables
    <3>2. CASE Leave(r, "failed")
      BY <3>1, <3>2, LeaveWrites, QuietTogether
    <3>3. CASE ~Leave(r, "failed")
      <4>1. pc'[r] = "commit"
        BY <2>0, <2>9, <3>3 DEF Check, Goto, Functions
      <4> QED
        BY <2>9, <3>1, <4>1, CheckWrites, QuietTogether
    <3> QED
      BY <3>2, <3>3
  <2>10. CASE Commit(r)
    BY <2>10, CommitTogether
  <2> QED
    BY <2>2, <2>3, <2>4, <2>5, <2>6, <2>7, <2>8, <2>9, <2>10 DEF Handle, Opening
<1> QED
  BY <1>1, <1>2 DEF Next

LEMMA TogetherHolds == NothingRemoved /\ Spec => [](TypeInv /\ TogetherInv)
<1>1. Init /\ NothingRemoved => TypeInv /\ TogetherInv
  BY TypeInit, TogetherInit
<1>2. TypeInv /\ TogetherInv /\ [Next]_vars => (TypeInv /\ TogetherInv)'
  BY TypeStep, TogetherStep
<1> QED
  BY <1>1, <1>2, PTL DEF Spec

\* However many forms and imports are written at once, the committed weights
\* of every scrutin add up to the whole (WeightsCoherent), as long as every
\* scrutin is categorised at the start and no label is removed.
THEOREM WeightsCoherentTogether == NothingRemoved /\ Spec => []WeightsCoherent
<1>1. TypeInv /\ TogetherInv => WeightsCoherent
  BY DEF TogetherInv, LabelsInv
<1> QED
  BY <1>1, TogetherHolds, PTL

\* Under the same conditions, the rows of a scrutin are never mixed from two
\* requests: the one that commits second either waited for the rows of the
\* first or is refused by the trigger (OneDecision).
THEOREM OneDecisionTogether == NothingRemoved /\ Spec => []OneDecision
<1>1. TypeInv /\ TogetherInv => OneDecision
  BY DEF TogetherInv, LabelsInv
<1> QED
  BY <1>1, TogetherHolds, PTL

\* Under the same conditions, the `apres` of a revision is what its scrutin
\* holds in the transaction that writes it, whoever else writes at the same
\* time (RevisionTellsTruth).
THEOREM RevisionTellsTruthTogether == NothingRemoved /\ Spec => RevisionTellsTruth
<1>1. TypeInv /\ TogetherInv /\ [Next]_vars =>
        [\A s \in Scrutins :
           history'[s] # history[s] => Weights(labels', s) = Last(history'[s]).apres.weights]_vars
  <2> SUFFICES ASSUME TypeInv, TogetherInv, NEW r \in Requests, Handle(r),
                      NEW s \in Scrutins, history'[s] # history[s]
               PROVE  Weights(labels', s) = Last(history'[s]).apres.weights
    BY DEF Next
  <2>1. Commit(r)
    BY OpeningGives DEF TypeInv, Handle, Opening, Load, BuildPlan, Store, Compare, Mark, Read, Aim,
                        Delete, Insert, Check, Fail, tables
  <2>2. /\ history'[s] = history[s] \o Revisions(r, s)
        /\ IsSequence(history[s]) /\ PlanTyped(r)
    BY <2>1 DEF Commit, TypeInv, StoreTyped
  <2>3. s \in Touched(r)
        /\ Revisions(r, s) = <<[avant |-> plan[r][s].avant, apres |-> plan[r][s].apres]>>
    <3>1. Revisions(r, s) # <<>>
      BY <2>2, Appended
    <3> QED
      BY <3>1 DEF Revisions
  <2> DEFINE e == [avant |-> plan[r][s].avant, apres |-> plan[r][s].apres]
  <2>4. Last(history'[s]) = e
    <3> HIDE DEF e
    <3>1. history'[s] = history[s] \o <<e>>
      BY <2>2, <2>3 DEF e
    <3>2. Last(history[s] \o <<e>>) = e
      BY <2>2, Appended
    <3> QED
      BY <3>1, <3>2
  <2>5. RowsOf(labels', s) = RowsOf(NewRows(r), s)
    BY <2>1, <2>3, CommitGives
  <2>6. Weights(labels', s) = plan[r][s].apres.weights
    BY <2>2, <2>3, <2>5, WrittenWeights DEF PlanTyped
  <2> QED
    BY <2>4, <2>6
<1> QED
  BY <1>1, TogetherHolds, PTL DEF Spec, RevisionTellsTruth

-----------------------------------------------------------------------------
(* What a request saw, for any requests, imports, files and scrutins,        *)
(* removals included: a scrutin it has missed no commit on is as its plan    *)
(* says, so that what it writes there is what it says to replace.            *)

\* What a request knows of the scrutins of its plan.  The rows it deletes are
\* of what it touches; of a scrutin with no missed commit, they are all.
SeenInv(r) ==
  /\ pc[r] \in {"compare", "delete", "wait", "insert", "commit", "mark"} /\ input[r].kind = "apply" =>
       DOMAIN plan[r] = DOMAIN file[input[r].import]
  /\ pc[r] \in {"compare", "delete", "wait", "insert", "commit"} /\ input[r].kind = "apply" =>
       \A s \in DOMAIN plan[r] \ missed[r] : plan[r][s] = PlanOf(file[input[r].import], labels)[s]
  /\ pc[r] \in {"delete", "wait", "insert", "commit"} =>
       /\ input[r].kind = "apply" => loaded[r] = plan[r]
       /\ \A s \in DOMAIN plan[r] \ missed[r] : plan[r][s].avant = Exact(Weights(labels, s))
  /\ pc[r] = "wait" =>
       /\ \A x \in targets[r] : x.scrutin \in Touched(r)
       /\ \A s \in Touched(r) \ missed[r] : RowsOf(labels, s) \subseteq targets[r]
  /\ pc[r] \in {"insert", "commit"} =>
       /\ \A x \in deleted[r] : x.scrutin \in Touched(r)
       /\ \A s \in Touched(r) \ missed[r] : RowsOf(labels, s) \subseteq deleted[r]
  /\ pc[r] = "commit" =>
       /\ inserted[r] = NewRows(r)
       /\ \A x \in NewRows(r) : x.scrutin \notin missed[r] => Coherent(NewRows(r), x.scrutin)
  /\ pc[r] = "mark" /\ input[r].kind = "apply" /\ input[r].box =>
       \A s \in DOMAIN plan[r] \ missed[r] :
         Weights(labels, s) = file[input[r].import][s].weights

\* The base is what the history says, each scrutin one whole decision, where
\* nothing was committed blindly.
BaseInv == HistoryChain /\ LastRevisionIsCurrent /\ WholeUnlessBlind

WatchInv == BaseInv /\ \A r \in Requests : SeenInv(r)

LEMMA WatchInit == Init => WatchInv
<1> SUFFICES ASSUME Init PROVE WatchInv
  OBVIOUS
<1>1. \A s \in Scrutins : history[s] = <<>> /\ labels = StartLabels
  BY DEF Init
<1>2. DOMAIN <<>> = {}
  BY SMT
<1>3. BaseInv
  BY <1>1, <1>2, StartAssumption
     DEF BaseInv, LastRevisionIsCurrent, HistoryChain, WholeUnlessBlind
<1>4. \A r \in Requests : pc[r] = "new"
  BY DEF Init
<1> QED
  BY <1>3, <1>4 DEF WatchInv, SeenInv

\* A plan says what it replaces, and leaves out what would not change.
LEMMA PlanOfGives ==
  ASSUME NEW f, NEW rows, NEW s \in DOMAIN f
  PROVE  /\ DOMAIN PlanOf(f, rows) = DOMAIN f
         /\ PlanOf(f, rows)[s].avant = Exact(Weights(rows, s))
         /\ PlanOf(f, rows)[s].apres = f[s]
         /\ (PlanOf(f, rows)[s].classement = "inchange") => f[s] = Exact(Weights(rows, s))
         /\ (PlanOf(f, rows)[s].classement \notin {"inchange", "conflit"}) =>
              \A x \in rows : x.scrutin = s => x.method # "manual"
<1> DEFINE avant == Exact(Weights(rows, s))
           own == {x \in rows : x.scrutin = s}
<1>1. PlanOf(f, rows)[s] = [avant |-> avant, apres |-> f[s],
                            classement |-> Classement(avant, f[s], own)]
  BY DEF PlanOf
<1>2. DOMAIN PlanOf(f, rows) = DOMAIN f
  BY DEF PlanOf
<1> HIDE DEF avant
<1>3. Classement(avant, f[s], own) = "inchange" => avant = f[s]
  BY DEF Classement
<1>4. ASSUME Classement(avant, f[s], own) \notin {"inchange", "conflit"},
             NEW x \in rows, x.scrutin = s
      PROVE  x.method # "manual"
  BY <1>4 DEF Classement
<1> QED
  BY <1>1, <1>2, <1>3, <1>4 DEF avant

\* What a plan says of a scrutin comes from the rows of that scrutin.
LEMMA PlanOfLocal ==
  ASSUME NEW f, NEW s \in DOMAIN f, NEW before, NEW after, RowsOf(before, s) = RowsOf(after, s)
  PROVE  PlanOf(f, before)[s] = PlanOf(f, after)[s]
<1>1. Weights(before, s) = Weights(after, s)
  BY CoherentLocal
<1>2. {x \in before : x.scrutin = s} = {x \in after : x.scrutin = s}
  BY DEF RowsOf
<1> QED
  BY <1>1, <1>2 DEF PlanOf

\* When the box is ticked, what is left alone already is what the file says.
LEMMA UntouchedAsFile ==
  ASSUME NEW r, NEW f, NEW s \in DOMAIN f, s \in DOMAIN plan[r],
         plan[r][s] = PlanOf(f, labels)[s],
         input[r].kind = "apply", input[r].box, s \notin Touched(r)
  PROVE  Weights(labels, s) = f[s].weights
<1>1. plan[r][s].classement = "inchange"
  BY DEF Touched
<1>2. f[s] = Exact(Weights(labels, s))
  BY <1>1, PlanOfGives
<1> QED
  BY <1>2 DEF Exact

\* Only a commit writes labels and revisions, only a deposit writes a file.
LEMMA StoresFrame ==
  ASSUME TypeInv, NEW r \in Requests, Handle(r)
  PROVE  /\ Deposited
         /\ ~Commit(r) => UNCHANGED <<labels, history>>
<1>1. CASE Opening(r)
  BY <1>1, OpeningGives DEF TypeInv, tables, Deposited
<1>2. CASE Store(r)
  BY <1>2 DEF Store, Deposited, TypeInv, Functions
<1>3. CASE Load(r) \/ BuildPlan(r) \/ Compare(r) \/ Read(r) \/ Aim(r) \/ Delete(r)
           \/ Insert(r) \/ Check(r) \/ Commit(r) \/ Fail(r)
  BY <1>3 DEF Load, BuildPlan, Compare, Read, Aim, Delete, Insert, Check, Commit, Fail,
              tables, Deposited
<1>4. CASE Mark(r)
  BY <1>4 DEF Mark, Deposited, TypeInv, Functions
<1> QED
  BY <1>1, <1>2, <1>3, <1>4 DEF Handle, Opening

\* A commit puts the planned rows in the place of all the rows of what it
\* touches and has not missed, and leaves the rest.
LEMMA CommitReplaces ==
  ASSUME TypeInv, NEW r \in Requests, SeenInv(r), Commit(r), NEW s
  PROVE  /\ s \in Touched(r) \ missed[r] =>
              /\ RowsOf(labels', s) = RowsOf(NewRows(r), s)
              /\ Weights(labels', s) = plan[r][s].apres.weights
         /\ s \notin Touched(r) =>
              /\ RowsOf(labels', s) = RowsOf(labels, s)
              /\ Weights(labels', s) = Weights(labels, s)
<1>1. /\ labels' = (labels \ deleted[r]) \cup NewRows(r) /\ PlanTyped(r)
      /\ \A x \in deleted[r] : x.scrutin \in Touched(r)
      /\ \A z \in Touched(r) \ missed[r] : RowsOf(labels, z) \subseteq deleted[r]
  BY DEF Commit, TypeInv, SeenInv
<1>2. \A x \in NewRows(r) : x.scrutin \in Touched(r)
  BY <1>1, NewRowsTyped DEF PlanTyped
<1>3. CASE s \in Touched(r) \ missed[r]
  <2>1. RowsOf(labels', s) = RowsOf(NewRows(r), s)
    BY <1>1, <1>3 DEF RowsOf
  <2> QED
    BY <1>1, <1>3, <2>1, WrittenWeights DEF PlanTyped
<1>4. CASE s \notin Touched(r)
  <2>1. RowsOf(labels', s) = RowsOf(labels, s)
    BY <1>1, <1>2, <1>4 DEF RowsOf
  <2> QED
    BY <1>4, <2>1, CoherentLocal
<1> QED
  BY <1>3, <1>4

\* A step leaves what the others saw, except where they now have missed it.
LEMMA OthersSeen ==
  ASSUME TypeInv, WatchInv, NEW r \in Requests, Handle(r), Watch(r), NEW q \in Requests \ {r}
  PROVE  SeenInv(q)'
<1> DEFINE i == input[q].import
<1>1. /\ SeenInv(q) /\ SeenInv(r) /\ AskTyped(q) /\ Frame(r) /\ Deposited
  BY HandleFrame, StoresFrame DEF TypeInv, WatchInv
<1>2. /\ pc'[q] = pc[q] /\ input'[q] = input[q] /\ loaded'[q] = loaded[q] /\ plan'[q] = plan[q]
      /\ targets'[q] = targets[q] /\ deleted'[q] = deleted[q] /\ inserted'[q] = inserted[q]
      /\ Touched(q)' = Touched(q) /\ NewRows(q)' = NewRows(q)
  BY <1>1, WritesFrame DEF Frame
<1>3. input[q].kind = "apply" /\ pc[q] \in {"compare", "delete", "wait", "insert", "commit", "mark"} =>
        file'[i] = file[i]
  BY <1>1 DEF AskTyped, Deposited
<1>4. ASSUME NEW s \in DOMAIN plan[q] \ missed'[q]
      PROVE  /\ s \notin missed[q]
             /\ RowsOf(labels', s) = RowsOf(labels, s) /\ Weights(labels', s) = Weights(labels, s)
  <2>1. plan'[q] # Empty
    BY <1>2, <1>4, EmptyTyped
  <2>2. missed'[q] = missed[q] \cup (IF pc[r] = "commit" /\ pc'[r] # "failed" THEN Touched(r) ELSE {})
    BY <2>1 DEF Watch
  <2>3. CASE Commit(r)
    <3>1. pc[r] = "commit" /\ pc'[r] # "failed"
      BY <2>3, LeaveGives DEF Commit, Goto, TypeInv, Functions
    <3>2. s \notin missed[q] /\ s \notin Touched(r)
      BY <1>4, <2>2, <3>1
    <3> QED
      BY <1>1, <2>3, <3>2, CommitReplaces
  <2>4. CASE ~Commit(r)
    BY <1>4, <2>2, <2>4, StoresFrame
  <2> QED
    BY <2>3, <2>4
<1>5. pc[q] \in {"compare", "delete", "wait", "insert", "commit", "mark"} /\ input[q].kind = "apply" =>
        DOMAIN plan[q] = DOMAIN file[i]
  BY <1>1 DEF SeenInv
<1>6. ASSUME input[q].kind = "apply", pc[q] \in {"compare", "delete", "wait", "insert", "commit"},
             NEW s \in DOMAIN plan[q] \ missed'[q]
      PROVE  plan[q][s] = PlanOf(file[i], labels')[s]
  <2>1. plan[q][s] = PlanOf(file[i], labels)[s]
    BY <1>1, <1>4, <1>6 DEF SeenInv
  <2>2. s \in DOMAIN file[i]
    BY <1>5, <1>6
  <2> QED
    BY <1>4, <2>1, <2>2, PlanOfLocal
<1>7. ASSUME NEW s \in Touched(q) \ missed'[q] PROVE s \in Touched(q) \ missed[q] /\ RowsOf(labels', s) = RowsOf(labels, s)
  BY <1>4, TouchedPlanned
<1>8. ASSUME pc[q] = "commit", NEW x \in NewRows(q), x.scrutin \notin missed'[q]
      PROVE  x.scrutin \notin missed[q]
  <2>1. x.scrutin \in Touched(q)
    BY NewRowsTyped DEF TypeInv, PlanTyped
  <2> QED
    BY <1>7, <1>8, <2>1
<1> HIDE DEF i
<1>9. /\ pc[q] \in {"delete", "wait", "insert", "commit"} =>
           \A s \in DOMAIN plan[q] \ missed'[q] : plan[q][s].avant = Exact(Weights(labels', s))
      /\ pc[q] = "mark" /\ input[q].kind = "apply" /\ input[q].box =>
           \A s \in DOMAIN plan[q] \ missed'[q] : Weights(labels', s) = file[i][s].weights
  BY <1>1, <1>4 DEF SeenInv, i
<1>10. /\ pc[q] = "wait" =>
            \A s \in Touched(q) \ missed'[q] : RowsOf(labels', s) \subseteq targets[q]
       /\ pc[q] \in {"insert", "commit"} =>
            \A s \in Touched(q) \ missed'[q] : RowsOf(labels', s) \subseteq deleted[q]
  BY <1>1, <1>7 DEF SeenInv
<1>11. pc[q] = "commit" =>
         /\ inserted[q] = NewRows(q)
         /\ \A x \in NewRows(q) : x.scrutin \notin missed'[q] => Coherent(NewRows(q), x.scrutin)
  BY <1>1, <1>8 DEF SeenInv
<1>12. /\ pc[q] = "wait" => \A x \in targets[q] : x.scrutin \in Touched(q)
       /\ pc[q] \in {"insert", "commit"} => \A x \in deleted[q] : x.scrutin \in Touched(q)
       /\ pc[q] \in {"delete", "wait", "insert", "commit"} /\ input[q].kind = "apply" =>
            loaded[q] = plan[q]
  BY <1>1 DEF SeenInv
<1> QED
  BY <1>2, <1>3, <1>5, <1>6, <1>9, <1>10, <1>11, <1>12 DEF SeenInv, i

\* A step after which the base is still what the history says.
LEMMA QuietSeen ==
  ASSUME TypeInv, WatchInv, NEW r \in Requests, Handle(r), Watch(r),
         UNCHANGED <<labels, history>>, SeenInv(r)'
  PROVE  WatchInv'
<1>1. \A q \in Requests : SeenInv(q)'
  BY OthersSeen
<1>2. blind \subseteq blind'
  BY DEF Watch
<1>3. BaseInv'
  BY <1>2 DEF WatchInv, BaseInv, LastRevisionIsCurrent, HistoryChain, WholeUnlessBlind
<1> QED
  BY <1>1, <1>3 DEF WatchInv

LEMMA LeaveSeen ==
  ASSUME TypeInv, NEW r \in Requests, NEW how \in {"done", "failed"}, Leave(r, how)
  PROVE  SeenInv(r)'
<1>1. pc'[r] = how
  BY LeaveGives DEF TypeInv
<1> QED
  BY <1>1 DEF SeenInv

\* A request's own step misses nothing new.
LEMMA OwnMissed ==
  ASSUME NEW r \in Requests, Watch(r)
  PROVE  plan'[r] # Empty => missed'[r] = missed[r]
BY DEF Watch

\* The revision of a commit continues the history of its scrutin.
LEMMA CommitContinues ==
  ASSUME TypeInv, WatchInv, NEW r \in Requests, Commit(r), NEW s \in Scrutins \ blind,
         s \in Touched(r) => s \notin missed[r]
  PROVE  /\ Weights(labels', s) =
              IF history'[s] = <<>> THEN Weights(StartLabels, s) ELSE Last(history'[s]).apres.weights
         /\ \A n \in DOMAIN history'[s] :
              history'[s][n].avant.weights =
                IF n = 1 THEN Weights(StartLabels, s) ELSE history'[s][n - 1].apres.weights
<1> DEFINE h == history[s]
           Base(k) == IF k = <<>> THEN Weights(StartLabels, s) ELSE Last(k).apres.weights
           Chain(k) == \A n \in DOMAIN k :
                         k[n].avant.weights =
                           IF n = 1 THEN Weights(StartLabels, s) ELSE k[n - 1].apres.weights
<1>1. /\ history'[s] = h \o Revisions(r, s) /\ IsSequence(h) /\ SeenInv(r) /\ pc[r] = "commit"
      /\ Weights(labels, s) = Base(h) /\ Chain(h)
  BY DEF Commit, TypeInv, StoreTyped, WatchInv, BaseInv, LastRevisionIsCurrent, HistoryChain
<1>2. CASE Revisions(r, s) = <<>>
  <2>1. history'[s] = h
    BY <1>1, <1>2, Appended
  <2>2. Weights(labels', s) = Weights(labels, s)
    <3>1. CASE s \in Touched(r)
      <4>1. plan[r][s].avant = plan[r][s].apres
        BY <1>2, <3>1 DEF Revisions
      <4>2. plan[r][s].avant = Exact(Weights(labels, s))
        BY <1>1, <3>1, TouchedPlanned DEF SeenInv
      <4>3. Weights(labels', s) = plan[r][s].apres.weights
        BY <1>1, <3>1, CommitReplaces
      <4>4. plan[r][s].avant.weights = Weights(labels, s)
        BY <4>2 DEF Exact
      <4> QED
        BY <4>1, <4>3, <4>4
    <3>2. CASE s \notin Touched(r)
      BY <1>1, <3>2, CommitReplaces
    <3> QED
      BY <3>1, <3>2
  <2> QED
    BY <1>1, <2>1, <2>2
<1>3. CASE Revisions(r, s) # <<>>
  <2> DEFINE e == [avant |-> plan[r][s].avant, apres |-> plan[r][s].apres]
  <2>1. s \in Touched(r) /\ Revisions(r, s) = <<e>>
    BY <1>3 DEF Revisions
  <2>2. e.apres.weights = Weights(labels', s)
    BY <1>1, <2>1, CommitReplaces
  <2>3. e.avant.weights = Base(h)
    <3>1. plan[r][s].avant = Exact(Weights(labels, s))
      BY <1>1, <2>1, TouchedPlanned DEF SeenInv
    <3> QED
      BY <1>1, <3>1 DEF Exact
  <2>4. history'[s] = h \o <<e>>
    BY <1>1, <2>1
  <2> HIDE DEF e, h
  <2>5. /\ IsSequence(h \o <<e>>) /\ Len(h) \in Nat /\ DOMAIN h = 1..Len(h)
        /\ Len(h \o <<e>>) = Len(h) + 1
        /\ \A n \in 1..Len(h) : (h \o <<e>>)[n] = h[n]
        /\ Last(h \o <<e>>) = e /\ h \o <<>> = h
    BY <1>1, Appended
  <2>6. DOMAIN (h \o <<e>>) = 1..(Len(h) + 1)
    BY <2>5, Appended
  <2>7. (h \o <<e>>)[Len(h) + 1] = e
    BY <2>5 DEF Last
  <2>8. h \o <<e>> # <<>>
    BY <2>5
  <2>9. Chain(h \o <<e>>)
    <3> SUFFICES ASSUME NEW n \in 1..(Len(h) + 1)
                 PROVE  (h \o <<e>>)[n].avant.weights =
                          IF n = 1 THEN Weights(StartLabels, s)
                          ELSE (h \o <<e>>)[n - 1].apres.weights
      BY <2>6
    <3>1. CASE n \in 1..Len(h)
      <4>1. n # 1 => n - 1 \in 1..Len(h)
        BY <2>5, <3>1
      <4> QED
        BY <1>1, <2>5, <3>1, <4>1
    <3>2. CASE n = Len(h) + 1
      <4>1. CASE Len(h) = 0
        <5>1. h = <<>>
          BY <1>1, <4>1 DEF IsSequence
        <5> QED
          BY <2>3, <2>7, <3>2, <4>1, <5>1
      <4>2. CASE Len(h) # 0
        <5>1. h # <<>> /\ n # 1 /\ n - 1 = Len(h) /\ Len(h) \in 1..Len(h)
          BY <2>5, <3>2, <4>2
        <5> QED
          BY <2>3, <2>5, <2>7, <3>2, <5>1 DEF Last
      <4> QED
        BY <4>1, <4>2
    <3> QED
      BY <2>5, <3>1, <3>2
  <2> QED
    BY <2>2, <2>4, <2>5, <2>8, <2>9
<1> QED
  BY <1>2, <1>3

LEMMA CommitSeen ==
  ASSUME TypeInv, WatchInv, NEW r \in Requests, Commit(r), Watch(r)
  PROVE  WatchInv'
<1>0. Handle(r)
  BY DEF Handle
<1>1. /\ pc[r] = "commit" /\ UNCHANGED <<file, apercu, istatus>>
      /\ SeenInv(r) /\ PlanTyped(r) /\ AskTyped(r) /\ BaseInv /\ Functions
  BY DEF Commit, TypeInv, WatchInv
<1>2. \A x \in NewRows(r) : x.by = r /\ x.scrutin \in Touched(r)
  BY <1>1, NewRowsTyped DEF PlanTyped
<1>3. pc'[r] # "failed" /\ blind' = blind \cup (Touched(r) \cap missed[r])
  <2>1. pc'[r] # "failed"
    BY LeaveGives DEF Commit, Goto, TypeInv, Functions
  <2> QED
    BY <1>1, <2>1 DEF Watch
<1>4. ASSUME NEW s \in Scrutins \ blind'
      PROVE  s \in Scrutins \ blind /\ (s \in Touched(r) => s \notin missed[r])
  BY <1>3
<1>5. BaseInv'
  <2>1. ASSUME NEW s \in Scrutins \ blind' PROVE Coherent(labels', s)
    <3>1. CASE s \in Touched(r)
      <4>1. Coherent(NewRows(r), s)
        <5>1. CASE RowsOf(NewRows(r), s) = {}
          BY <5>1 DEF Coherent, RowsOf
        <5>2. CASE RowsOf(NewRows(r), s) # {}
          BY <1>1, <1>4, <3>1, <5>2 DEF SeenInv, RowsOf
        <5> QED
          BY <5>1, <5>2
      <4> QED
        BY <1>1, <1>4, <3>1, <4>1, CommitReplaces, CoherentLocal
    <3>2. CASE s \notin Touched(r)
      BY <1>1, <1>4, <3>2, CommitReplaces, CoherentLocal DEF BaseInv, WholeUnlessBlind
    <3> QED
      BY <3>1, <3>2
  <2>2. ASSUME NEW s \in Scrutins \ blind', NEW x \in labels', NEW y \in labels',
               x.scrutin = s, y.scrutin = s
        PROVE  x.by = y.by
    <3>1. x \in RowsOf(labels', s) /\ y \in RowsOf(labels', s)
      BY <2>2 DEF RowsOf
    <3>2. CASE s \in Touched(r)
      <4>1. x \in NewRows(r) /\ y \in NewRows(r)
        BY <1>1, <1>4, <3>1, <3>2, CommitReplaces DEF RowsOf
      <4> QED
        BY <1>2, <4>1
    <3>3. CASE s \notin Touched(r)
      <4>1. x \in labels /\ y \in labels
        BY <1>1, <3>1, <3>3, CommitReplaces DEF RowsOf
      <4> QED
        BY <1>1, <1>4, <2>2, <4>1 DEF BaseInv, WholeUnlessBlind
    <3> QED
      BY <3>2, <3>3
  <2>3. LastRevisionIsCurrent' /\ HistoryChain'
    BY <1>4, CommitContinues DEF LastRevisionIsCurrent, HistoryChain
  <2> QED
    BY <2>1, <2>2, <2>3 DEF BaseInv, WholeUnlessBlind
<1>6. SeenInv(r)'
  <2>1. CASE input[r].kind = "save"
    BY <2>1, LeaveSeen DEF Commit
  <2>2. CASE input[r].kind # "save"
    <3> DEFINE i == input[r].import
    <3>1. /\ pc'[r] = "mark" /\ input' = input /\ plan' = plan /\ input[r].kind = "apply"
      BY <1>1, <2>2 DEF Commit, Goto, Functions, AskTyped
    <3>2. DOMAIN plan[r] = DOMAIN file[i]
      BY <1>1, <3>1 DEF SeenInv
    <3>3. ASSUME input[r].box, NEW s \in DOMAIN plan[r] \ missed'[r]
          PROVE  Weights(labels', s) = file[i][s].weights
      <4>0. s \notin missed[r]
        BY <3>1, <3>3, OwnMissed, EmptyTyped
      <4>1. plan[r][s] = PlanOf(file[i], labels)[s] /\ s \in DOMAIN file[i]
        BY <1>1, <3>1, <3>2, <4>0 DEF SeenInv
      <4>2. CASE s \in Touched(r)
        BY <1>1, <4>0, <4>1, <4>2, CommitReplaces, PlanOfGives
      <4>3. CASE s \notin Touched(r)
        BY <1>1, <3>1, <3>3, <4>1, <4>3, CommitReplaces, UntouchedAsFile
      <4> QED
        BY <4>2, <4>3
    <3> QED
      BY <1>1, <3>1, <3>2, <3>3 DEF SeenInv
  <2> QED
    BY <2>1, <2>2
<1>7. \A q \in Requests : SeenInv(q)'
  BY <1>0, <1>6, OthersSeen
<1> QED
  BY <1>5, <1>7 DEF WatchInv
LEMMA SeenStep == TypeInv /\ WatchInv /\ [Next]_vars => WatchInv'
<1> SUFFICES ASSUME TypeInv, WatchInv, [Next]_vars PROVE WatchInv'
  OBVIOUS
<1>1. CASE UNCHANGED vars
  <2>1. BaseInv'
    BY <1>1 DEF vars, tables, past, WatchInv, BaseInv, LastRevisionIsCurrent, HistoryChain,
                WholeUnlessBlind
  <2>2. ASSUME NEW r \in Requests PROVE SeenInv(r)'
    <3>1. /\ UNCHANGED <<labels, pc, input, loaded, plan, targets, deleted, inserted, file, missed>>
          /\ SeenInv(r)
      BY <1>1 DEF vars, tables, request, past, WatchInv
    <3>2. Touched(r)' = Touched(r) /\ NewRows(r)' = NewRows(r)
      BY <3>1, WritesFrame
    <3> QED
      BY <3>1, <3>2 DEF SeenInv
  <2> QED
    BY <2>1, <2>2 DEF WatchInv
<1>2. ASSUME NEW r \in Requests, Handle(r), Watch(r) PROVE WatchInv'
  <2> USE <1>2
  <2> DEFINE i == input[r].import
  <2>0. /\ Functions /\ AskTyped(r) /\ PlanTyped(r) /\ Held(r) /\ SeenInv(r)
    BY DEF TypeInv, WatchInv
  <2>1. CASE Opening(r)
    <3>1. /\ UNCHANGED <<labels, history>>
          /\ \/ pc'[r] = "read"
             \/ pc'[r] = "plan" /\ input'[r].kind = "deposit"
             \/ pc'[r] = "load"
      BY <2>0, <2>1, OpeningGives DEF tables
    <3>2. SeenInv(r)'
      BY <3>1 DEF SeenInv
    <3> QED
      BY <3>1, <3>2, QuietSeen
  <2>2. CASE Load(r)
    <3>1. UNCHANGED <<labels, history>>
      BY <2>2 DEF Load, tables
    <3>2. CASE Leave(r, "done")
      BY <3>1, <3>2, LeaveSeen, QuietSeen
    <3>3. CASE ~Leave(r, "done")
      <4>1. input' = input /\ pc'[r] = IF input[r].kind = "apply" THEN "plan" ELSE "mark"
        BY <2>0, <2>2, <3>3 DEF Load, Goto, Functions
      <4>2. SeenInv(r)'
        BY <3>1, <4>1 DEF SeenInv
      <4> QED
        BY <3>1, <4>2, QuietSeen
    <3> QED
      BY <3>2, <3>3
  <2>3. CASE BuildPlan(r)
    <3>1. /\ UNCHANGED <<labels, history, file, input, loaded>> /\ pc[r] = "plan"
          /\ pc'[r] = IF input[r].kind = "deposit" THEN "store" ELSE "compare"
          /\ plan'[r] = PlanOf(IF input[r].kind = "deposit" THEN input[r].file
                               ELSE file[input[r].import], labels)
      BY <2>0, <2>3 DEF BuildPlan, Goto, Functions, tables
    <3>2. input[r].kind # "deposit" => plan'[r] = PlanOf(file[i], labels)
      BY <3>1
    <3>3. input[r].kind # "deposit" => DOMAIN plan'[r] = DOMAIN file[i]
      BY <3>2 DEF PlanOf
    <3> HIDE DEF i
    <3>4. SeenInv(r)'
      BY <3>1, <3>2, <3>3 DEF SeenInv, i
    <3> QED
      BY <3>1, <3>4, QuietSeen
  <2>4. CASE Store(r) \/ Mark(r) \/ Fail(r)
    <3>1. /\ Leave(r, "done") \/ Leave(r, "failed")
          /\ UNCHANGED <<labels, history>>
      BY <2>4 DEF Store, Mark, Fail, tables
    <3> QED
      BY <3>1, LeaveSeen, QuietSeen
  <2>5. CASE Compare(r)
    <3>1. UNCHANGED <<labels, history, file>> /\ pc[r] = "compare" /\ input[r].kind = "apply"
      BY <2>0, <2>5 DEF Compare, AskTyped
    <3>2. CASE Leave(r, "done")
      BY <3>1, <3>2, LeaveSeen, QuietSeen
    <3>3. CASE ~Leave(r, "done")
      <4>1. /\ plan[r] = loaded[r] /\ UNCHANGED <<input, plan, loaded>>
            /\ pc'[r] = IF Touched(r) = {} THEN "mark" ELSE "delete"
        BY <2>0, <2>5, <3>3 DEF Compare, Goto, Functions
      <4>2. DOMAIN plan[r] = DOMAIN file[i]
        BY <2>0, <3>1 DEF SeenInv
      <4>3. ASSUME NEW s \in DOMAIN plan[r] \ missed'[r]
            PROVE  /\ plan[r][s] = PlanOf(file[i], labels)[s]
                   /\ plan[r][s].avant = Exact(Weights(labels, s))
                   /\ Touched(r) = {} /\ input[r].box => Weights(labels, s) = file[i][s].weights
        <5>1. s \notin missed[r] /\ s \in DOMAIN file[i]
          BY <4>1, <4>2, <4>3, OwnMissed, EmptyTyped
        <5>2. plan[r][s] = PlanOf(file[i], labels)[s]
          BY <2>0, <3>1, <5>1 DEF SeenInv
        <5>3. plan[r][s].avant = Exact(Weights(labels, s))
          BY <5>1, <5>2, PlanOfGives
        <5>4. Touched(r) = {} /\ input[r].box => Weights(labels, s) = file[i][s].weights
          BY <3>1, <4>3, <5>1, <5>2, UntouchedAsFile
        <5> QED
          BY <5>2, <5>3, <5>4
      <4> HIDE DEF i
      <4>4. Touched(r)' = Touched(r)
        BY <4>1, WritesFrame
      <4>5. SeenInv(r)'
        BY <3>1, <4>1, <4>2, <4>3, <4>4 DEF SeenInv, i
      <4> QED
        BY <3>1, <4>5, QuietSeen
    <3> QED
      BY <3>2, <3>3
  <2>6. CASE Read(r)
    <3> DEFINE s == input[r].scrutin
    <3>1. /\ UNCHANGED <<labels, history, input>> /\ pc[r] = "read" /\ pc'[r] = "delete"
          /\ plan'[r] = [x \in {s} |-> [avant |-> Exact(Weights(labels, s)),
                                        apres |-> Exact(input[r].weights)]]
          /\ input[r].kind = "save"
      BY <2>0, <2>6 DEF Read, Goto, Functions, tables, AskTyped
    <3>2. \A x \in DOMAIN plan'[r] : plan'[r][x].avant = Exact(Weights(labels, x))
      BY <3>1
    <3>3. SeenInv(r)'
      BY <3>1, <3>2 DEF SeenInv
    <3> QED
      BY <3>1, <3>3, QuietSeen
  <2>7. CASE Aim(r) \/ Delete(r) \/ Insert(r) \/ Check(r)
    <3>1. UNCHANGED <<labels, history, file>>
      BY <2>7 DEF Aim, Delete, Insert, Check, tables
    <3>2. CASE Leave(r, "failed")
      BY <3>1, <3>2, LeaveSeen, QuietSeen
    <3>3. CASE ~Leave(r, "failed")
      <4>1. /\ UNCHANGED <<input, plan, loaded>>
            /\ pc[r] \in {"delete", "wait", "insert"}
        BY <2>7, <3>3 DEF Aim, Delete, Insert, Check, Goto
      <4>2. Touched(r)' = Touched(r) /\ NewRows(r)' = NewRows(r)
        BY <4>1, WritesFrame
      <4>3. \A s \in DOMAIN plan[r] : s \notin missed'[r] => s \notin missed[r]
        BY <4>1, OwnMissed, EmptyTyped
      <4>4. \A s \in Touched(r) : s \notin missed'[r] => s \notin missed[r]
        BY <4>3, TouchedPlanned
      <4>5. CASE Aim(r)
        <5>1. pc[r] = "delete" /\ pc'[r] = "wait" /\ targets'[r] = {x \in labels : x.scrutin \in Touched(r)}
          BY <2>0, <4>5 DEF Aim, Goto, Functions
        <5>2. \A z \in Touched(r) : RowsOf(labels, z) \subseteq targets'[r]
          BY <5>1 DEF RowsOf
        <5> QED
          BY <2>0, <3>1, <4>1, <4>2, <4>3, <5>1, <5>2, QuietSeen DEF SeenInv
      <4>6. CASE Delete(r)
        <5>1. pc[r] = "wait" /\ pc'[r] = "insert" /\ deleted'[r] = targets[r] \cap labels
          BY <2>0, <4>6 DEF Delete, Goto, Functions
        <5>2. /\ \A x \in deleted'[r] : x.scrutin \in Touched(r)
              /\ \A z \in Touched(r) : z \notin missed'[r] => RowsOf(labels, z) \subseteq deleted'[r]
          BY <2>0, <4>4, <5>1 DEF SeenInv, RowsOf
        <5> QED
          BY <2>0, <3>1, <4>1, <4>2, <4>3, <5>1, <5>2, QuietSeen DEF SeenInv
      <4>7. CASE Insert(r)
        <5>1. pc[r] = "insert" /\ pc' = pc /\ deleted' = deleted
          BY <3>3, <4>7 DEF Insert
        <5> QED
          BY <2>0, <3>1, <4>1, <4>2, <4>3, <4>4, <5>1, QuietSeen DEF SeenInv
      <4>8. CASE Check(r)
        <5> DEFINE V == (labels \ deleted[r]) \cup inserted[r]
        <5>1. /\ pc[r] = "insert" /\ pc'[r] = "commit" /\ UNCHANGED <<deleted, inserted>>
              /\ inserted[r] = NewRows(r) /\ \A x \in inserted[r] : Coherent(V, x.scrutin)
          BY <2>0, <3>3, <4>8 DEF Check, Goto, Functions
        <5>2. ASSUME NEW x \in NewRows(r), x.scrutin \notin missed'[r]
              PROVE  Coherent(NewRows(r), x.scrutin)
          <6>1. x.scrutin \in Touched(r) \ missed[r]
            BY <2>0, <4>4, <5>2, NewRowsTyped DEF PlanTyped
          <6>2. RowsOf(V, x.scrutin) = RowsOf(NewRows(r), x.scrutin)
            BY <2>0, <5>1, <6>1 DEF RowsOf, SeenInv
          <6>3. Coherent(V, x.scrutin)
            BY <5>1, <5>2
          <6> HIDE DEF V
          <6> QED
            BY <6>2, <6>3, CoherentLocal
        <5> QED
          BY <2>0, <3>1, <4>1, <4>2, <4>3, <4>4, <5>1, <5>2, QuietSeen DEF SeenInv
      <4> QED
        BY <2>7, <4>5, <4>6, <4>7, <4>8
    <3> QED
      BY <3>2, <3>3
  <2>8. CASE Commit(r)
    BY <2>8, CommitSeen
  <2> QED
    BY <2>1, <2>2, <2>3, <2>4, <2>5, <2>6, <2>7, <2>8 DEF Handle, Opening
<1> QED
  BY <1>1, <1>2 DEF Next

LEMMA WatchHolds == Spec => [](TypeInv /\ WatchInv)
<1>1. Init => TypeInv /\ WatchInv
  BY TypeInit, WatchInit
<1>2. TypeInv /\ WatchInv /\ [Next]_vars => (TypeInv /\ WatchInv)'
  BY TypeStep, SeenStep
<1> QED
  BY <1>1, <1>2, PTL DEF Spec

\* The revisions of a scrutin are a chain (HistoryChain), whatever requests
\* overlap, fail or remove labels, as long as none has written the scrutin
\* without having seen the last commit on it.
THEOREM HistoryChainCorrect == Spec => []HistoryChain
<1>1. TypeInv /\ WatchInv => HistoryChain
  BY DEF WatchInv, BaseInv
<1> QED
  BY <1>1, WatchHolds, PTL

\* The labels of a scrutin are what its last revision says, removals included
\* (LastRevisionIsCurrent), under the same condition.
THEOREM LastRevisionIsCurrentCorrect == Spec => []LastRevisionIsCurrent
<1>1. TypeInv /\ WatchInv => LastRevisionIsCurrent
  BY DEF WatchInv, BaseInv
<1> QED
  BY <1>1, WatchHolds, PTL

\* The weights of a scrutin add up to the whole and its rows are one decision
\* (WholeUnlessBlind), with removals and scrutins that start without labels.
THEOREM WholeUnlessBlindCorrect == Spec => []WholeUnlessBlind
<1>1. TypeInv /\ WatchInv => WholeUnlessBlind
  BY DEF WatchInv, BaseInv
<1> QED
  BY <1>1, WatchHolds, PTL

\* Which step commits an import, and which one marks it.
LEMMA ImportSteps ==
  ASSUME TypeInv, Next, NEW r \in Requests
  PROVE  /\ pc[r] = "commit" /\ pc'[r] = "mark" => Commit(r)
         /\ pc[r] = "mark" /\ pc'[r] = "done" => Mark(r)
<1>1. PICK q \in Requests : Handle(q)
  BY DEF Next
<1>2. Frame(q) /\ Functions
  BY <1>1, HandleFrame DEF TypeInv
<1>3. CASE q # r
  BY <1>2, <1>3 DEF Frame
<1>4. CASE q = r
  <2>1. CASE Opening(r)
    BY <1>2, <2>1, OpeningGives
  <2>2. CASE Fail(r)
    BY <1>2, <2>2, LeaveGives DEF Fail
  <2>3. CASE Load(r) \/ BuildPlan(r) \/ Store(r) \/ Compare(r) \/ Read(r) \/ Aim(r)
             \/ Delete(r) \/ Insert(r) \/ Check(r)
    <3>1. pc[r] \notin {"commit", "mark"}
      BY <2>3 DEF Load, BuildPlan, Store, Compare, Read, Aim, Delete, Insert, Check
    <3> QED
      BY <3>1
  <2>4. CASE Mark(r)
    BY <2>4 DEF Mark
  <2>5. CASE Commit(r)
    BY <2>5 DEF Commit
  <2> QED
    BY <1>1, <1>4, <2>1, <2>2, <2>3, <2>4, <2>5 DEF Handle, Opening
<1> QED
  BY <1>3, <1>4

\* An import replaces a categorisation made by hand only if the box is ticked,
\* or if it was made since the import built its plan (ReviewedKept).
THEOREM ReviewedKeptCorrect == Spec => ReviewedKept
<1>1. TypeInv /\ WatchInv /\ [Next]_vars =>
        [\A r \in Requests :
           (input[r].kind = "apply" /\ pc[r] = "commit" /\ pc'[r] = "mark" /\ ~input[r].box) =>
             \A x \in labels \ labels' : x.scrutin \notin missed[r] => x.method # "manual"]_vars
  <2> SUFFICES ASSUME TypeInv, WatchInv, Next, NEW r \in Requests,
                      input[r].kind = "apply", pc[r] = "commit", pc'[r] = "mark", ~input[r].box,
                      NEW x \in labels, x \notin labels', x.scrutin \notin missed[r]
               PROVE  x.method # "manual"
    OBVIOUS
  <2>1. Commit(r) /\ SeenInv(r)
    BY ImportSteps DEF WatchInv
  <2> DEFINE f == file[input[r].import]
             s == x.scrutin
  <2>2. s \in Touched(r)
    BY <2>1, CommitReplaces DEF RowsOf
  <2>3. s \in DOMAIN plan[r] /\ plan[r][s].classement \notin {"inchange", "conflit"}
    BY <2>2 DEF Touched
  <2>4. s \in DOMAIN f /\ plan[r][s] = PlanOf(f, labels)[s]
    BY <2>1, <2>3 DEF SeenInv
  <2> QED
    BY <2>3, <2>4, PlanOfGives
<1> QED
  BY <1>1, WatchHolds, PTL DEF Spec, ReviewedKept

\* Of a scrutin nobody else wrote meanwhile, an import applies exactly what
\* the apercu it loaded said (AppliedAsLoaded).
THEOREM AppliedAsLoadedCorrect == Spec => AppliedAsLoaded
<1>1. TypeInv /\ WatchInv /\ [Next]_vars =>
        [\A r \in Requests :
           (input[r].kind = "apply" /\ pc[r] = "commit" /\ pc'[r] = "mark") =>
             \A s \in DOMAIN file[input[r].import] \ missed[r] :
               PlanOf(file[input[r].import], labels)[s] = loaded[r][s]]_vars
  BY DEF WatchInv, SeenInv
<1> QED
  BY <1>1, WatchHolds, PTL DEF Spec, AppliedAsLoaded

\* An import marked applied with the box ticked has its weights in the base,
\* but where somebody else wrote since it built its plan (AppliedIsWritten).
THEOREM AppliedIsWrittenCorrect == Spec => AppliedIsWritten
<1>1. TypeInv /\ WatchInv /\ [Next]_vars =>
        [\A r \in Requests :
           (pc[r] = "mark" /\ pc'[r] = "done" /\ input[r].kind = "apply" /\ input[r].box) =>
             \A s \in DOMAIN file[input[r].import] \ missed[r] :
               Weights(labels, s) = file[input[r].import][s].weights]_vars
  BY DEF WatchInv, SeenInv
<1> QED
  BY <1>1, WatchHolds, PTL DEF Spec, AppliedIsWritten
=============================================================================
