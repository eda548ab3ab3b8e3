------------------------------ MODULE FaceIndex -------------------------------
(***************************************************************************)
(* The search for the nearest employees (ai/faiss/index.py) and the two    *)
(* gates that turn its answer into a name (face_recognition_handlers.py).  *)
(*                                                                         *)
(* The index has one row per enrolment photo.  A search takes the rows     *)
(* nearest to the face with the lock held, and groups them by employee     *)
(* after releasing it, while the index may be rebuilt.  A row is its       *)
(* employee and its cosine to the face at hand, an integer here.           *)
(***************************************************************************)
EXTENDS Integers, Sequences, FiniteSets, FiniteSetsExt

Nobody == "nobody"

CodesOf(rows) == {rows[i].code : i \in DOMAIN rows}
RowsOf(rows, code) == {i \in DOMAIN rows : rows[i].code = code}

CONSTANTS Galleries, \* the contents the index may be given
          K,         \* employees asked for; _match asks for two
          Threshold, \* RECOGNITION_THRESHOLD
          Margin     \* RECOGNITION_MARGIN

\* The runner-up is asked for, and a gallery is a sequence of rows of somebody.
Searchable ==
    /\ K \in Nat \ {0, 1}
    /\ Threshold \in Int /\ Margin \in Int
    /\ \A g \in Galleries : g \in Seq([code : CodesOf(g) \ {Nobody}, score : Int])

VARIABLES index,   \* the rows of the index
          pc,      \* where the search is
          found,   \* the candidates: row numbers
          seen,    \* the rows the search went through
          answer,  \* the employees found, best first
          name     \* the name the face got, or Nobody

vars == <<index, pc, found, seen, answer, name>>

Init ==
    /\ index \in Galleries
    /\ pc = "idle"
    /\ found = {}
    /\ seen = <<>>
    /\ answer = <<>>
    /\ name = Nobody

\* rebuild replaces rows and codes together.
Rebuild ==
    /\ index' \in Galleries
    /\ UNCHANGED <<pc, found, seen, answer, name>>

-------------------------------------------------------------------------------
(* search *)

\* _max_rows_per_employee
MostRows(rows) == Max({Cardinality(RowsOf(rows, c)) : c \in CodesOf(rows)})

PoolOfTens(rows) == Min({Len(rows), K * 10})

\* Room for K employees, however many photos each of them has.
PoolSize(rows) == Min({Len(rows), Max({K * 10, K * MostRows(rows) * 2})})

\* FAISS returns the nearest rows; between equal ones, the first.
Nearer(rows, i, j) ==
    rows[i].score > rows[j].score \/ (rows[i].score = rows[j].score /\ i < j)

Nearest(rows, n) ==
    {i \in DOMAIN rows : Cardinality({j \in DOMAIN rows : Nearer(rows, j, i)}) < n}

Lookup ==
    /\ pc = "idle"
    /\ pc' = "group"
    /\ seen' = index
    /\ found' = IF index = <<>> THEN {} ELSE Nearest(index, PoolSize(index))
    /\ UNCHANGED <<index, answer, name>>

BestOf(rows, pool, code) == Max({rows[i].score : i \in {j \in pool : rows[j].code = code}})

\* Each employee's best score among the candidates.
BestPerEmployee(rows, pool) ==
    {[code |-> c, score |-> BestOf(rows, pool, c)] : c \in {rows[i].code : i \in pool}}

\* Best first; two with the same score in either order.
Sorted(results) ==
    {order \in [1 .. Cardinality(results) -> results] :
        \A m, n \in DOMAIN order :
            m < n => order[m] # order[n] /\ order[m].score >= order[n].score}

\* The first K of them, by the codes as they were when the rows were found.
Group ==
    /\ pc = "group"
    /\ \E order \in Sorted(BestPerEmployee(seen, found)) :
          answer' = SubSeq(order, 1, Min({K, Len(order)}))
    /\ pc' = "gate"
    /\ UNCHANGED <<index, found, seen, name>>

-------------------------------------------------------------------------------
(* _match *)

PassesUnlessAlone(best) ==
    /\ Len(best) >= 2
    /\ best[1].score >= Threshold
    /\ best[1].score - best[2].score >= Margin

\* The threshold, and the gap to the runner-up; who has none passes.
Passes(best) ==
    /\ best # <<>>
    /\ best[1].score >= Threshold
    /\ Len(best) >= 2 => best[1].score - best[2].score >= Margin

Match ==
    /\ pc = "gate"
    /\ name' = IF Passes(answer) THEN answer[1].code ELSE Nobody
    /\ pc' = "done"
    /\ UNCHANGED <<index, found, seen, answer>>

\* The next face.
NextFace ==
    /\ pc = "done"
    /\ pc' = "idle"
    /\ found' = {}
    /\ seen' = <<>>
    /\ answer' = <<>>
    /\ name' = Nobody
    /\ UNCHANGED index

Next == Rebuild \/ Lookup \/ Group \/ Match \/ NextFace

Spec == Init /\ [][Next]_vars

-------------------------------------------------------------------------------
(* What has to hold *)

TypeOK ==
    /\ index \in Galleries
    /\ seen \in Galleries \cup {<<>>}
    /\ found \subseteq DOMAIN seen
    /\ pc \in {"idle", "group", "gate", "done"}
    /\ Len(answer) <= K
    /\ name \in {Nobody} \cup CodesOf(seen)

\* "Return the top-k employees" (index.py:76), of one gallery: as many as there are up
\* to K, each with the score of its best photo, and nobody left out was nearer,
\* whatever the photos per employee and the rebuilds.
AnswerIsTopK ==
    pc \in {"gate", "done"} =>
        /\ Len(answer) = Min({K, Cardinality(CodesOf(seen))})
        /\ \A n \in DOMAIN answer :
              answer[n].score = BestOf(seen, DOMAIN seen, answer[n].code)
        /\ \A c \in CodesOf(seen) \ {answer[n].code : n \in DOMAIN answer} :
              \A n \in DOMAIN answer : answer[n].score >= BestOf(seen, DOMAIN seen, c)

\* The gallery says who it is: one employee reaches the threshold, and nobody else
\* comes within the margin of that employee's best photo.
ClearWinner(rows, c) ==
    /\ c \in CodesOf(rows)
    /\ BestOf(rows, DOMAIN rows, c) >= Threshold
    /\ \A i \in DOMAIN rows :
          rows[i].code # c => BestOf(rows, DOMAIN rows, c) - rows[i].score >= Margin

\* A face is named after a clear winner of the gallery it was searched in, and after
\* nobody when there is none: the margin is measured against the true runner-up
\* (index.py:82-85), and the only employee of a gallery can be recognised.
NamedAfterClearWinner ==
    pc = "done" =>
        IF name = Nobody THEN \A c \in CodesOf(seen) : ~ClearWinner(seen, c)
                         ELSE ClearWinner(seen, name)
=============================================================================
