-------------------------- MODULE ContractsProofs --------------------------
(***************************************************************************)
(* Proofs about Contracts, for any requests, bodies, networks and source   *)
(* codes: type correctness, that a contract is created twice only by       *)
(* requests that overlapped, that a request returns what an earlier one    *)
(* with its body returned, and what the body asked for; and that what is   *)
(* stored for a network is the code of that network, since no two networks *)
(* are asked about at the same URL.                                        *)
(***************************************************************************)
EXTENDS Contracts, TLAPS

\* The table after a row was created.
LEMMA Created ==
    ASSUME NEW S, NEW s \in Seq(S), NEW e \in S
    PROVE  /\ Append(s, e) \in Seq(S)
           /\ DOMAIN Append(s, e) = DOMAIN s \cup {Len(s) + 1}
           /\ Len(s) + 1 \notin DOMAIN s
           /\ \A i \in DOMAIN s : Append(s, e)[i] = s[i]
           /\ Append(s, e)[Len(s) + 1] = e
OBVIOUS

UploadRow(r) == [method |-> "upload", address |-> None, network |-> body[r].network,
                 code |-> body[r].code, by |-> r]
ScanRow(r, n) == [method |-> "scan", address |-> body[r].address,
                  network |-> n, code |-> RowCode(found[r][n]), by |-> r]

(***************************************************************************)
(* What is known of one request: how far its body has been used.           *)
(***************************************************************************)
Known(r) ==
    /\ stage[r] # "none" => body[r] \in Bodies
    /\ stage[r] = "none" => before[r] = {}
    /\ stage[r] \in {"none", "lookup", "upload"} => result[r] = {}
    /\ stage[r] = "upload" => body[r].code # None
    /\ stage[r] = "scan" => body[r].code = None /\ left[r] \subseteq Scanned(body[r])
                         /\ \A n \in left[r] : found[r][n] # "off"
    /\ \A s \in before[r] : stage[s] \in Over

TypeInv == TypeOK /\ \A r \in Requests : Known(r)

\* What is read out of an answer: a code, and then it is the one of the field.
LEMMA Extracted ==
    ASSUME NEW a \in Addresses, NEW n \in Networks
    PROVE  \/ extract_raw_code(FieldAt(a, n)) = Unreadable
           \/ /\ extract_raw_code(FieldAt(a, n)) \in Codes
              /\ extract_raw_code(FieldAt(a, n)) = Source[a][n].code
              /\ <<a, n>> \in published
BY SourceAssumption DEF extract_raw_code, FieldAt

\* A scan only stores under the address and on a network its body named.
LEMMA StoredRow ==
    ASSUME TypeInv, NEW r \in Requests, NEW n \in Networks, stage[r] = "scan",
           found[r][n] \notin {"absent", "waiting", "off"}
    PROVE  ScanRow(r, n) \in Contract
<1>0. found[r][n] \in Codes \cup {Unreadable}
  BY DEF TypeInv, TypeOK, NoCode
<1>1. body[r] \in Bodies /\ body[r].code = None
  BY DEF TypeInv, Known
<1>2. body[r].address \in Addresses \cup {None}
  BY <1>1, BodiesAssumption
<1>3. RowCode(found[r][n]) \in Codes \cup {None}
  BY <1>0, SourceAssumption DEF RowCode, TypeInv, TypeOK, NoCode
<1> QED
  BY <1>2, <1>3 DEF ScanRow, Contract

\* An upload stores the code and the network of its body.
LEMMA UploadedRow ==
    ASSUME TypeInv, NEW r \in Requests, stage[r] = "upload"
    PROVE  UploadRow(r) \in Contract
BY BodiesAssumption DEF UploadRow, Contract, TypeInv, Known

\* Every step keeps the types and what is known of every request.
LEMMA TypeStep == TypeInv /\ [Next]_vars => TypeInv'
<1> SUFFICES ASSUME TypeInv, [Next]_vars PROVE TypeInv'
  OBVIOUS
<1> USE DEF TypeInv, TypeOK
<1>1. ASSUME NEW r \in Requests, Receive(r) PROVE TypeInv'
  BY <1>1 DEF Receive, Known, Stages, Over
<1>2. ASSUME NEW r \in Requests, Lookup(r) PROVE TypeInv'
  <2>1. Scanned(body[r]) \subseteq Networks
    BY <1>2, BodiesAssumption, NetworksAssumption DEF Lookup, Scanned, Known
  <2>2. result' \in [Requests -> SUBSET DOMAIN rows]
    BY <1>2 DEF Lookup, Matching
  <2>5. [n \in Networks |-> IF n \in Scanned(body[r]) THEN "waiting" ELSE "off"]
            \in [Networks -> Codes \cup NoCode]
    BY DEF NoCode
  <2>6. found' \in [Requests -> [Networks -> Codes \cup NoCode]]
    BY <1>2, <2>5 DEF Lookup
  <2>7. left' \in [Requests -> SUBSET Networks]
    BY <1>2, <2>1 DEF Lookup
  <2>8. stage' \in [Requests -> Stages]
    BY <1>2 DEF Lookup, Stages
  <2>3. TypeOK'
    BY <1>2, <2>2, <2>6, <2>7, <2>8 DEF Lookup
  <2>4. ASSUME NEW s \in Requests PROVE Known(s)'
    BY <1>2, <2>1 DEF Lookup, Known, Over
  <2> QED
    BY <1>2, <2>3, <2>4 DEF Lookup
<1>3. ASSUME NEW r \in Requests, Upload(r) PROVE TypeInv'
  <2>1. rows' \in Seq(Contract) /\ DOMAIN rows' = DOMAIN rows \cup {Len(rows) + 1}
    BY <1>3, UploadedRow, Created DEF Upload, UploadRow
  <2> QED
    BY <1>3, <2>1 DEF Upload, Known, Stages, Over
<1>4. ASSUME NEW r \in Requests, NEW n \in Networks, Scan(r, n) PROVE TypeInv'
  <2>1. body[r].address \in Addresses
    BY <1>4, BodiesAssumption DEF Scan, Known
  <2>2. ASSUME NEW a \in Answers(body[r].address, n) PROVE a \in Codes \cup NoCode /\ a # "off"
    <3>1. CASE a = "absent"
      BY <3>1, SourceAssumption DEF NoCode
    <3>2. CASE \E m \in AskedAbout(n) \cap Networks :
                   a = extract_raw_code(FieldAt(body[r].address, m))
      BY <2>1, <3>2, Extracted, SourceAssumption DEF NoCode, Unreadable
    <3> QED
      BY <3>1, <3>2 DEF Answers
  <2>3. TypeOK'
    BY <1>4, <2>2 DEF Scan
  <2> QED
    BY <1>4, <2>2, <2>3 DEF Scan, Known
<1>5. ASSUME NEW r \in Requests, NEW n \in Networks, Store(r, n) PROVE TypeInv'
  <2>1. CASE found[r][n] = "absent"
    BY <1>5, <2>1 DEF Store, Known, After
  <2>2. CASE found[r][n] # "absent"
    <3>0. ScanRow(r, n) \in Contract
      BY <1>5, <2>2, StoredRow DEF Store, Gathered, Known
    <3>4. rows' = Append(rows, ScanRow(r, n))
      BY <1>5, <2>2 DEF Store, ScanRow
    <3>1. rows' \in Seq(Contract) /\ DOMAIN rows' = DOMAIN rows \cup {Len(rows) + 1}
      BY <3>0, <3>4, Created
    <3>5. result' \in {result, [result EXCEPT ![r] = @ \cup {Len(rows) + 1}]}
      BY <1>5, <2>2 DEF Store
    <3>2. result' \in [Requests -> SUBSET DOMAIN rows']
      BY <3>1, <3>5
    <3>3. TypeOK'
      BY <1>5, <2>2, <3>1, <3>2 DEF Store, After
    <3> QED
      BY <1>5, <2>2, <3>3 DEF Store, Known, After
  <2> QED
    BY <2>1, <2>2
<1>6. ASSUME NEW r \in Requests, Return(r) PROVE TypeInv'
  BY <1>6 DEF Return, Known, Stages, Over, work
<1>7. ASSUME NEW r \in Requests, Fail(r) PROVE TypeInv'
  BY <1>7, SourceAssumption DEF Fail, Known, Stages, Over, work
<1>8. ASSUME NEW a \in Addresses, NEW n \in Networks, Publish(a, n) PROVE TypeInv'
  BY <1>8 DEF Publish, Known, work
<1>9. CASE UNCHANGED vars
  BY <1>9 DEF vars, work, Known
<1> QED
  BY <1>1, <1>2, <1>3, <1>4, <1>5, <1>6, <1>7, <1>8, <1>9 DEF Next

\* The types hold at the start.
LEMMA TypeInit == Init => TypeInv
<1> SUFFICES ASSUME Init PROVE TypeInv
  OBVIOUS
<1>1. rows \in Seq(Contract)
  BY DEF Init
<1>2. failures \in 0 .. MaxFailures
  BY SourceAssumption DEF Init
<1>3. \A r \in Requests : body[r] = NoBody /\ Known(r)
  BY DEF Init, Known, Over
<1> QED
  BY <1>1, <1>2, <1>3 DEF Init, TypeInv, TypeOK, Stages, NoCode

(***************************************************************************)
(* Every variable keeps its type: every result names rows of the table.    *)
(***************************************************************************)
THEOREM TypeCorrect == Spec => []TypeOK
<1>1. TypeInv => TypeOK
  BY DEF TypeInv
<1> QED
  BY <1>1, TypeInit, TypeStep, PTL DEF Spec

(***************************************************************************)
(* The rows of a request: an upload leaves one, a scan at most one for     *)
(* each network whose answer it has gone through. A request that found     *)
(* nothing can find nothing among the rows of the requests before it.      *)
(***************************************************************************)
RowOf(i) ==
    LET r == rows[i].by IN
    \/ /\ rows[i] = UploadRow(r)
       /\ stage[r] = "done" /\ body[r].code # None
    \/ /\ rows[i].method = "scan" /\ rows[i].address = body[r].address
       /\ rows[i].network \in Scanned(body[r]) \ left[r]
       /\ stage[r] \in {"scan", "done", "failed"} /\ body[r].code = None

OneEach ==
    \A i, j \in DOMAIN rows :
        i # j /\ rows[i].by = rows[j].by =>
            rows[i].method = "scan" /\ rows[i].network # rows[j].network

HasRow(r) == \E j \in DOMAIN rows : rows[j].by = r

Fresh(r) ==
    stage[r] \in {"upload", "scan"} \/ HasRow(r) =>
        \A i \in DOMAIN rows : rows[i].by \in before[r] => ~Matches(rows[i], body[r])

RowsInv ==
    /\ TypeInv
    /\ \A i \in DOMAIN rows : RowOf(i)
    /\ OneEach
    /\ \A r \in Requests : Fresh(r)

\* A row names the request that created it.
LEMMA RowBy == TypeOK => \A i \in DOMAIN rows : rows[i] \in Contract /\ rows[i].by \in Requests
<1> SUFFICES ASSUME rows \in Seq(Contract), NEW i \in DOMAIN rows
             PROVE  rows[i] \in Contract /\ rows[i].by \in Requests
  BY DEF TypeOK
<1>1. rows[i] \in Contract
  OBVIOUS
<1> QED
  BY <1>1 DEF Contract

\* A request whose lookup has not ended has no rows.
LEMMA NoRowYet ==
    ASSUME RowsInv, NEW r \in Requests, stage[r] \in {"none", "lookup", "upload"}
    PROVE  ~HasRow(r)
BY RowBy DEF RowsInv, RowOf, HasRow, TypeInv, Known

\* What creating a row does to RowsInv: it is kept when the new row is one of
\* its request, of another network than the others, and the request is running.
LEMMA RowAdded ==
    ASSUME RowsInv, TypeInv', NEW e \in Contract, rows' = Append(rows, e),
           NEW k, k = Len(rows) + 1,
           UNCHANGED <<body, before>>,
           stage[e.by] \notin Over, Fresh(e.by), stage[e.by] \in {"upload", "scan"},
           \A r \in Requests \ {e.by} : stage'[r] = stage[r] /\ left'[r] = left[r],
           \A i \in DOMAIN rows : rows[i].by = e.by =>
                RowOf(i)' /\ rows[i].network # e.network /\ rows[i].method = "scan",
           RowOf(k)', e.method = "scan" \/ ~HasRow(e.by)
    PROVE  RowsInv'
<1>1. /\ DOMAIN rows' = DOMAIN rows \cup {k} /\ k \notin DOMAIN rows
      /\ \A i \in DOMAIN rows : rows'[i] = rows[i]
      /\ rows'[k] = e
  BY Created DEF RowsInv, TypeInv, TypeOK
<1>2. \A i \in DOMAIN rows : rows[i].by \in Requests
  BY RowBy DEF RowsInv, TypeInv
<1>3. e.by \in Requests
  BY DEF Contract
<1>4. ASSUME NEW i \in DOMAIN rows PROVE RowOf(i)'
  <2>1. CASE rows[i].by = e.by
    BY <2>1
  <2>2. CASE rows[i].by # e.by
    <3>1. RowOf(i) /\ rows'[i] = rows[i] /\ rows[i].by \in Requests \ {e.by}
      BY <1>1, <1>2, <2>2 DEF RowsInv
    <3>2. stage'[rows[i].by] = stage[rows[i].by] /\ left'[rows[i].by] = left[rows[i].by]
      BY <3>1
    <3> QED
      BY <3>1, <3>2 DEF RowOf, UploadRow
  <2> QED
    BY <2>1, <2>2
<1>5. \A i \in DOMAIN rows' : RowOf(i)'
  BY <1>1, <1>4
<1>6. OneEach'
  BY <1>1 DEF OneEach, RowsInv, HasRow
<1>7. ASSUME NEW r \in Requests PROVE Fresh(r)'
  <2>1. e.by \notin before[r]
    BY DEF RowsInv, TypeInv, Known
  <2>2. stage'[r] \in {"upload", "scan"} \/ HasRow(r)' =>
            stage[r] \in {"upload", "scan"} \/ HasRow(r)
    BY <1>1 DEF HasRow
  <2>3. Fresh(r)
    BY DEF RowsInv
  <2> QED
    BY <1>1, <2>1, <2>2, <2>3 DEF Fresh
<1> QED
  BY <1>5, <1>6, <1>7 DEF RowsInv

\* Every step keeps RowsInv.
LEMMA RowsStep == RowsInv /\ [Next]_vars => RowsInv'
<1> SUFFICES ASSUME RowsInv, [Next]_vars PROVE RowsInv'
  OBVIOUS
<1>0. TypeInv /\ TypeInv'
  BY TypeStep DEF RowsInv
<1>b. \A i \in DOMAIN rows : rows[i].by \in Requests
  BY <1>0, RowBy DEF TypeInv
<1>t. /\ stage \in [Requests -> Stages] /\ before \in [Requests -> SUBSET Requests]
      /\ left \in [Requests -> SUBSET Networks] /\ DOMAIN body = Requests
  BY <1>0 DEF TypeInv, TypeOK
<1>1. ASSUME NEW r \in Requests, Receive(r) PROVE RowsInv'
  <2>1. ~HasRow(r)
    BY <1>1, NoRowYet DEF Receive
  <2>2. \A i \in DOMAIN rows : rows[i].by # r
    BY <2>1 DEF HasRow
  <2>3. \A i \in DOMAIN rows : RowOf(i)'
    BY <1>1, <1>b, <1>t, <2>2 DEF Receive, RowsInv, RowOf, UploadRow
  <2>4. \A s \in Requests : Fresh(s)'
    BY <1>1, <1>t, <2>2 DEF Receive, RowsInv, Fresh, HasRow
  <2> QED
    BY <1>0, <1>1, <2>3, <2>4 DEF Receive, RowsInv, OneEach
<1>2. ASSUME NEW r \in Requests, Lookup(r) PROVE RowsInv'
  <2>1. \A i \in DOMAIN rows : rows[i].by # r
    BY <1>2, NoRowYet DEF Lookup, HasRow
  <2>2. \A i \in DOMAIN rows : RowOf(i)'
    BY <1>2, <1>b, <1>t, <2>1 DEF Lookup, RowsInv, RowOf, UploadRow
  <2>3. stage'[r] \in {"upload", "scan"} => Matching(body[r]) = {}
    BY <1>2, <1>t DEF Lookup
  <2>4. \A s \in Requests : Fresh(s)'
    BY <1>2, <1>t, <2>1, <2>3 DEF Lookup, RowsInv, Fresh, HasRow, Matching
  <2> QED
    BY <1>0, <1>2, <2>2, <2>4 DEF Lookup, RowsInv, OneEach
<1>3. ASSUME NEW r \in Requests, Upload(r) PROVE RowsInv'
  <2>1. ~HasRow(r) /\ UploadRow(r) \in Contract /\ UploadRow(r).by = r
    BY <1>0, <1>3, NoRowYet, UploadedRow DEF Upload, UploadRow
  <2>2. rows' = Append(rows, UploadRow(r)) /\ UNCHANGED <<body, before, left>>
    BY <1>3 DEF Upload, UploadRow
  <2>6. PICK k : k = Len(rows) + 1
    OBVIOUS
  <2>3. rows'[k] = UploadRow(r)
    BY <1>0, <2>1, <2>2, <2>6, Created DEF TypeInv, TypeOK
  <2>4. RowOf(k)'
    <3>1. UploadRow(r)' = UploadRow(r)
      BY <2>2 DEF UploadRow
    <3>2. stage'[r] = "done" /\ body'[r].code # None
      BY <1>0, <1>3, <1>t, <2>2 DEF Upload, TypeInv, Known
    <3> HIDE DEF UploadRow
    <3>3. rows'[k].by = r /\ rows'[k] = UploadRow(r)'
      BY <2>1, <2>3, <3>1
    <3> QED
      BY <3>2, <3>3 DEF RowOf
  <2>5. \A s \in Requests \ {r} : stage'[s] = stage[s] /\ left'[s] = left[s]
    BY <1>3, <1>t DEF Upload
  <2> HIDE DEF UploadRow
  <2> QED
    BY <1>0, <1>3, <2>1, <2>2, <2>4, <2>5, <2>6, RowAdded DEF Upload, RowsInv, HasRow, Over
<1>4. ASSUME NEW r \in Requests, NEW n \in Networks, Scan(r, n) PROVE RowsInv'
  BY <1>0, <1>4 DEF Scan, RowsInv, RowOf, UploadRow, OneEach, Fresh, HasRow
<1>5. ASSUME NEW r \in Requests, NEW n \in Networks, Store(r, n) PROVE RowsInv'
  <2>1. CASE found[r][n] = "absent"
    BY <1>0, <1>5, <1>t, <2>1 DEF Store, After, RowsInv, RowOf, UploadRow, OneEach, Fresh, HasRow
  <2>2. CASE found[r][n] # "absent"
    <3>1. ScanRow(r, n) \in Contract
      BY <1>0, <1>5, <2>2, StoredRow DEF Store, Gathered, TypeInv, Known
    <3>2. ScanRow(r, n).by = r /\ ScanRow(r, n).network = n /\ ScanRow(r, n).method = "scan"
          /\ ScanRow(r, n).address = body[r].address
      BY DEF ScanRow
    <3>3. /\ rows' = Append(rows, ScanRow(r, n))
          /\ UNCHANGED <<body, before, stage>>
      BY <1>5, <2>2 DEF Store, ScanRow
    <3>4. /\ left'[r] = left[r] \ {n} /\ n \in left[r] /\ left[r] \subseteq Scanned(body[r])
          /\ stage[r] = "scan" /\ body[r].code = None
          /\ \A s \in Requests \ {r} : left'[s] = left[s]
      BY <1>0, <1>5, <1>t DEF Store, After, TypeInv, Known
    <3>8. PICK k : k = Len(rows) + 1
      OBVIOUS
    <3>5. /\ rows'[k] = ScanRow(r, n)
          /\ \A i \in DOMAIN rows : rows'[i] = rows[i]
      BY <1>0, <3>1, <3>3, <3>8, Created DEF TypeInv, TypeOK
    <3>6. RowOf(k)'
      BY <3>2, <3>3, <3>4, <3>5 DEF RowOf
    <3>7. ASSUME NEW i \in DOMAIN rows, rows[i].by = r
          PROVE  RowOf(i)' /\ rows[i].network # n /\ rows[i].method = "scan"
      <4>1. RowOf(i)
        BY DEF RowsInv
      <4> QED
        BY <3>3, <3>4, <3>5, <3>7, <4>1 DEF RowOf
    <3> QED
      BY <1>0, <3>1, <3>2, <3>3, <3>4, <3>6, <3>7, <3>8, RowAdded DEF RowsInv, Over
  <2> QED
    BY <2>1, <2>2
<1>6. ASSUME NEW r \in Requests, Return(r) PROVE RowsInv'
  BY <1>0, <1>6, <1>t DEF Return, work, RowsInv, RowOf, UploadRow, OneEach, Fresh, HasRow
<1>7. ASSUME NEW r \in Requests, Fail(r) PROVE RowsInv'
  BY <1>0, <1>7, <1>t, NoRowYet DEF Fail, work, RowsInv, RowOf, UploadRow, OneEach, Fresh, HasRow
<1>8. ASSUME NEW a \in Addresses, NEW n \in Networks, Publish(a, n) PROVE RowsInv'
  BY <1>0, <1>8 DEF Publish, work, RowsInv, RowOf, UploadRow, OneEach, Fresh, HasRow
<1>9. CASE UNCHANGED vars
  BY <1>0, <1>9 DEF vars, work, RowsInv, RowOf, UploadRow, OneEach, Fresh, HasRow
<1> QED
  BY <1>1, <1>2, <1>3, <1>4, <1>5, <1>6, <1>7, <1>8, <1>9 DEF Next

\* A contract matches the body of the request that created it, unless the body
\* has both a code and an address.
LEMMA MatchesOwn ==
    ASSUME RowsInv, NEW j \in DOMAIN rows, rows[j].code # None, ~Mixed(body[rows[j].by])
    PROVE  Matches(rows[j], body[rows[j].by])
BY DEF RowsInv, RowOf, UploadRow, Matches, Mixed, Scanned

(***************************************************************************)
(* The same contract is created twice only by requests that overlapped,    *)
(* whatever fails and whatever the explorers answer.                       *)
(***************************************************************************)
THEOREM DuplicatesOverlap == Spec => []DuplicatesOnlyByOverlap
<1>1. Init => RowsInv
  BY TypeInit DEF Init, RowsInv, OneEach, Fresh, HasRow
<1>2. RowsInv => DuplicatesOnlyByOverlap
  <2> SUFFICES ASSUME RowsInv, NEW i \in DOMAIN rows, NEW j \in DOMAIN rows,
                      i # j, rows[i].code # None,
                      [rows[i] EXCEPT !.by = rows[j].by] = rows[j],
                      ~Mixed(body[rows[i].by]), ~Mixed(body[rows[j].by])
               PROVE  rows[i].by # rows[j].by /\ ~Sequential(rows[i].by, rows[j].by)
    BY DEF DuplicatesOnlyByOverlap
  <2>1. rows[i] \in Contract /\ rows[j] \in Contract
    BY RowBy DEF RowsInv, TypeInv
  <2>2. /\ rows[j].method = rows[i].method /\ rows[j].address = rows[i].address
        /\ rows[j].network = rows[i].network /\ rows[j].code = rows[i].code
    BY <2>1 DEF Contract
  <2>3. rows[i].by # rows[j].by
    BY <2>2 DEF RowsInv, OneEach
  <2>4. Matches(rows[i], body[rows[i].by]) /\ Matches(rows[j], body[rows[j].by])
    BY <2>2, MatchesOwn
  <2>5. Matches(rows[j], body[rows[i].by]) /\ Matches(rows[i], body[rows[j].by])
    BY <2>2, <2>4 DEF Matches
  <2>6. Fresh(rows[i].by) /\ Fresh(rows[j].by)
    BY <2>1 DEF RowsInv, Contract
  <2>7. rows[j].by \notin before[rows[i].by] /\ rows[i].by \notin before[rows[j].by]
    BY <2>5, <2>6 DEF Fresh, HasRow
  <2> QED
    BY <2>3, <2>7 DEF Sequential
<1> QED
  BY <1>1, <1>2, RowsStep, PTL DEF Spec

(***************************************************************************)
(* A contract of a result matches the body, and a request that finds       *)
(* nothing has no earlier request with its body that returned something.   *)
(***************************************************************************)
Meets(r, i) ==
    /\ rows[i].code # None
    /\ rows[i].code = body[r].code \/ (body[r].code = None /\ rows[i].address = body[r].address)
    /\ body[r].network # Nowhere => rows[i].network = body[r].network

Seen(r) ==
    \A s \in before[r] : body[s] = body[r] /\ ~Mixed(body[r]) =>
        /\ stage[r] \in {"upload", "scan"} => result[s] = {}
        /\ stage[r] = "done" => result[s] \subseteq result[r]

ResultsInv ==
    /\ TypeInv
    /\ \A r \in Requests : Seen(r) /\ \A i \in result[r] : Meets(r, i)

\* What is returned is found again.
LEMMA MeetsMatches ==
    ASSUME NEW r \in Requests, NEW i, Meets(r, i), ~Mixed(body[r])
    PROVE  Matches(rows[i], body[r])
BY DEF Meets, Matches, Mixed

\* A created row joins the result of its request only.
LEMMA ResultAdded ==
    ASSUME ResultsInv, TypeInv', NEW e \in Contract, rows' = Append(rows, e),
           UNCHANGED <<body, before>>,
           NEW r \in Requests, stage[r] \notin Over,
           NEW k, k = Len(rows) + 1,
           result'[r] \in {result[r], result[r] \cup {k}},
           k \in result'[r] => Meets(r, k)',
           \A s \in Requests \ {r} : stage'[s] = stage[s] /\ result'[s] = result[s],
           Seen(r)'
    PROVE  ResultsInv'
<1>1. /\ DOMAIN rows' = DOMAIN rows \cup {k} /\ k \notin DOMAIN rows
      /\ \A i \in DOMAIN rows : rows'[i] = rows[i]
  BY Created DEF ResultsInv, TypeInv, TypeOK
<1>2. \A s \in Requests : result[s] \subseteq DOMAIN rows
  BY DEF ResultsInv, TypeInv, TypeOK
<1>3. ASSUME NEW s \in Requests, NEW i \in result'[s] PROVE Meets(s, i)'
  <2>1. CASE s = r /\ i = k
    BY <2>1
  <2>2. CASE ~(s = r /\ i = k)
    <3>1. i \in result[s]
      BY <2>2
    <3> QED
      BY <1>1, <1>2, <3>1 DEF ResultsInv, Meets
  <2> QED
    BY <2>1, <2>2
<1>4. ASSUME NEW s \in Requests PROVE Seen(s)'
  <2>1. \A q \in before[s] : q \in Requests /\ q # r
    BY DEF ResultsInv, TypeInv, TypeOK, Known
  <2>2. CASE s # r
    BY <2>1, <2>2 DEF ResultsInv, Seen
  <2> QED
    BY <2>2
<1> QED
  BY <1>3, <1>4 DEF ResultsInv

\* Every step keeps ResultsInv.
LEMMA ResultsStep == ResultsInv /\ [Next]_vars => ResultsInv'
<1> SUFFICES ASSUME ResultsInv, [Next]_vars PROVE ResultsInv'
  OBVIOUS
<1>0. TypeInv /\ TypeInv'
  BY TypeStep DEF ResultsInv
<1>t. /\ stage \in [Requests -> Stages] /\ before \in [Requests -> SUBSET Requests]
      /\ result \in [Requests -> SUBSET DOMAIN rows] /\ DOMAIN body = Requests
  BY <1>0 DEF TypeInv, TypeOK
<1>b. \A s \in Requests : \A q \in before[s] : q \in Requests /\ stage[q] \in Over
  BY <1>0, <1>t DEF TypeInv, Known
<1>1. ASSUME NEW r \in Requests, Receive(r) PROVE ResultsInv'
  <2>1. result[r] = {}
    BY <1>0, <1>1 DEF Receive, TypeInv, Known
  <2>2. ASSUME NEW s \in Requests PROVE Seen(s)'
    BY <1>1, <1>t, <1>b, <2>2 DEF Receive, ResultsInv, Seen, Over
  <2>3. ASSUME NEW s \in Requests, NEW i \in result'[s] PROVE Meets(s, i)'
    BY <1>1, <1>t, <2>1, <2>3 DEF Receive, ResultsInv, Meets
  <2> QED
    BY <1>0, <2>2, <2>3 DEF ResultsInv
<1>2. ASSUME NEW r \in Requests, Lookup(r) PROVE ResultsInv'
  <2>1. \A s \in Requests \ {r} : stage'[s] = stage[s] /\ result'[s] = result[s]
    BY <1>2, <1>t DEF Lookup
  <2>2. UNCHANGED <<rows, body, before>> /\ stage[r] = "lookup" /\ r \notin before[r]
    BY <1>2, <1>b DEF Lookup, Over
  <2>3. body[r] \in Bodies
    BY <1>0, <2>2 DEF TypeInv, Known
  <2>4. \/ stage'[r] = "done" /\ result'[r] = Matching(body[r])
        \/ Matching(body[r]) = {} /\ stage'[r] \in {"upload", "scan"} /\ result'[r] = result[r]
    BY <1>2, <1>t DEF Lookup
  <2>5. ASSUME NEW i \in Matching(body[r]) PROVE Meets(r, i)
    BY <2>3, BodiesAssumption DEF Matching, Matches, Meets
  <2>6. ASSUME NEW s \in before[r], body[s] = body[r], ~Mixed(body[r])
        PROVE  result[s] \subseteq Matching(body[r])
    <3>1. s \in Requests
      BY <1>b
    <3>2. ASSUME NEW i \in result[s] PROVE i \in DOMAIN rows /\ Matches(rows[i], body[r])
      BY <1>t, <2>6, <3>1, <3>2, MeetsMatches DEF ResultsInv
    <3> QED
      BY <3>2 DEF Matching
  <2>7. Seen(r)'
    BY <1>b, <2>1, <2>2, <2>4, <2>6 DEF Seen
  <2>8. ASSUME NEW s \in Requests \ {r} PROVE Seen(s)'
    BY <1>b, <2>1, <2>2, <2>8 DEF Seen, ResultsInv, Over
  <2>9. ASSUME NEW s \in Requests, NEW i \in result'[s] PROVE Meets(s, i)'
    BY <2>1, <2>2, <2>4, <2>5, <2>9 DEF ResultsInv, Meets
  <2> QED
    BY <1>0, <2>7, <2>8, <2>9 DEF ResultsInv
<1>3. ASSUME NEW r \in Requests, Upload(r) PROVE ResultsInv'
  <2>1. UploadRow(r) \in Contract
    BY <1>0, <1>3, UploadedRow DEF Upload
  <2>2. rows' = Append(rows, UploadRow(r)) /\ UNCHANGED <<body, before>>
    BY <1>3 DEF Upload, UploadRow
  <2>3. PICK k : k = Len(rows) + 1
    OBVIOUS
  <2>4. rows'[k] = UploadRow(r)
    BY <1>0, <2>1, <2>2, <2>3, Created DEF TypeInv, TypeOK
  <2>5. /\ stage[r] = "upload" /\ stage'[r] = "done" /\ result'[r] = {k} /\ result[r] = {}
        /\ body[r].code # None
        /\ \A s \in Requests \ {r} : stage'[s] = stage[s] /\ result'[s] = result[s]
    BY <1>0, <1>3, <1>t, <2>3 DEF Upload, TypeInv, Known
  <2>6. Meets(r, k)'
    <3>1. UploadRow(r).code = body[r].code /\ UploadRow(r).network = body[r].network
      BY DEF UploadRow
    <3> HIDE DEF UploadRow
    <3> QED
      BY <2>2, <2>4, <2>5, <3>1 DEF Meets
  <2>7. Seen(r)'
    BY <1>b, <2>2, <2>5 DEF Seen, ResultsInv, Over
  <2> HIDE DEF UploadRow
  <2> QED
    BY <1>0, <2>1, <2>2, <2>3, <2>5, <2>6, <2>7, ResultAdded DEF Over
<1>4. ASSUME NEW r \in Requests, NEW n \in Networks, Scan(r, n) PROVE ResultsInv'
  BY <1>0, <1>4 DEF Scan, ResultsInv, Seen, Meets
<1>5. ASSUME NEW r \in Requests, NEW n \in Networks, Store(r, n) PROVE ResultsInv'
  <2>1. CASE found[r][n] = "absent"
    BY <1>0, <1>5, <2>1 DEF Store, ResultsInv, Seen, Meets
  <2>2. CASE found[r][n] # "absent"
    <3>1. ScanRow(r, n) \in Contract
      BY <1>0, <1>5, <2>2, StoredRow DEF Store, Gathered, TypeInv, Known
    <3>2. rows' = Append(rows, ScanRow(r, n)) /\ UNCHANGED <<body, before, stage>>
      BY <1>5, <2>2 DEF Store, ScanRow
    <3>3. PICK k : k = Len(rows) + 1
      OBVIOUS
    <3>4. rows'[k] = ScanRow(r, n) /\ k \notin DOMAIN rows
      BY <1>0, <3>1, <3>2, <3>3, Created DEF TypeInv, TypeOK
    <3>5. /\ stage[r] = "scan" /\ body[r].code = None
          /\ n \in Scanned(body[r]) /\ found[r][n] \in Codes \cup {Unreadable}
      BY <1>0, <1>5, <2>2 DEF Store, Gathered, TypeInv, TypeOK, Known, NoCode
    <3>6. /\ \A s \in Requests \ {r} : result'[s] = result[s]
          /\ result'[r] = IF found[r][n] = Unreadable THEN result[r] ELSE result[r] \cup {k}
      BY <1>5, <1>t, <2>2, <3>3 DEF Store
    <3>7. k \in result'[r] => Meets(r, k)'
      <4>1. SUFFICES ASSUME k \in result'[r] PROVE Meets(r, k)'
        OBVIOUS
      <4>2. found[r][n] \in Codes
        BY <1>t, <3>4, <3>5, <3>6, <4>1
      <4>3. ScanRow(r, n).code # None
        BY <4>2, SourceAssumption DEF ScanRow, RowCode, NoCode
      <4>4. ScanRow(r, n).address = body[r].address /\ ScanRow(r, n).network = n
        BY DEF ScanRow
      <4> QED
        BY <3>2, <3>4, <3>5, <4>3, <4>4 DEF Meets, Scanned
    <3>8. Seen(r)'
      BY <1>b, <3>2, <3>5, <3>6 DEF Seen, ResultsInv, Over
    <3> QED
      BY <1>0, <3>1, <3>2, <3>3, <3>5, <3>6, <3>7, <3>8, ResultAdded DEF Over
  <2> QED
    BY <2>1, <2>2
<1>6. ASSUME NEW r \in Requests, Return(r) PROVE ResultsInv'
  BY <1>0, <1>6, <1>t, <1>b DEF Return, work, ResultsInv, Seen, Meets, Over
<1>7. ASSUME NEW r \in Requests, Fail(r) PROVE ResultsInv'
  BY <1>0, <1>7, <1>t, <1>b DEF Fail, work, ResultsInv, Seen, Meets, Over
<1>8. ASSUME NEW a \in Addresses, NEW n \in Networks, Publish(a, n) PROVE ResultsInv'
  BY <1>0, <1>8 DEF Publish, work, ResultsInv, Seen, Meets
<1>9. CASE UNCHANGED vars
  BY <1>0, <1>9 DEF vars, work, ResultsInv, Seen, Meets
<1> QED
  BY <1>1, <1>2, <1>3, <1>4, <1>5, <1>6, <1>7, <1>8, <1>9 DEF Next

\* ResultsInv is an invariant.
LEMMA ResultsInvariant == Spec => []ResultsInv
<1>1. Init => ResultsInv
  BY TypeInit DEF Init, ResultsInv, Seen
<1> QED
  BY <1>1, ResultsStep, PTL DEF Spec

(***************************************************************************)
(* A request returns what its body asked for.                              *)
(***************************************************************************)
THEOREM AnswersMeet == Spec => []AnswersMeetBody
<1>1. ResultsInv => AnswersMeetBody
  BY DEF ResultsInv, Meets, AnswersMeetBody
<1> QED
  BY <1>1, ResultsInvariant, PTL

(***************************************************************************)
(* A request returns all that an earlier one with the same body returned,  *)
(* unless the body has both a code and an address.                         *)
(***************************************************************************)
THEOREM FetchedReturned == Spec => []FetchedIsReturned
<1>1. ResultsInv => FetchedIsReturned
  BY DEF ResultsInv, Seen, FetchedIsReturned
<1> QED
  BY <1>1, ResultsInvariant, PTL

(***************************************************************************)
(* No two networks are asked about at the same URL, although four of them  *)
(* share a host (_get_base_url).                                           *)
(***************************************************************************)
THEOREM OneUrlEach == \A m, n \in NetworkEnum : BaseUrl(m) = BaseUrl(n) => m = n
BY DEF BaseUrl, NetworkEnum, network_explorer_mapper, network_chainid_mapper

(***************************************************************************)
(* So what is found for a network, and stored for it, is its own code.     *)
(***************************************************************************)
Genuine(a, n, c) == <<a, n>> \in published /\ Source[a][n].code = c

GenuineInv ==
    /\ TypeInv
    /\ \A r \in Requests : stage[r] = "none" => \A n \in Networks : found[r][n] = "off"
    /\ \A r \in Requests, n \in Networks :
            found[r][n] \in Codes => Genuine(body[r].address, n, found[r][n])
    /\ \A i \in DOMAIN rows :
            rows[i].method = "scan" /\ rows[i].code # None =>
                Genuine(rows[i].address, rows[i].network, rows[i].code)

\* An answer about a network is the code of that network.
LEMMA AnswersAreGenuine ==
    ASSUME NEW a \in Addresses, NEW n \in Networks, NEW c \in Answers(a, n), c \in Codes
    PROVE  Genuine(a, n, c)
<1>1. PICK m \in AskedAbout(n) \cap Networks : c = extract_raw_code(FieldAt(a, m))
  BY SourceAssumption DEF Answers, NoCode
<1>2. m = n
  BY <1>1, OneUrlEach, NetworksAssumption DEF AskedAbout
<1> QED
  BY <1>1, <1>2, Extracted, SourceAssumption DEF Genuine, NoCode

\* Every step keeps GenuineInv.
LEMMA GenuineStep == GenuineInv /\ [Next]_vars => GenuineInv'
<1> SUFFICES ASSUME GenuineInv, [Next]_vars PROVE GenuineInv'
  OBVIOUS
<1>0. TypeInv /\ TypeInv'
  BY TypeStep DEF GenuineInv
<1>t. /\ stage \in [Requests -> Stages] /\ DOMAIN body = Requests
      /\ found \in [Requests -> [Networks -> Codes \cup NoCode]]
  BY <1>0 DEF TypeInv, TypeOK
<1>c. "off" \notin Codes /\ "waiting" \notin Codes
  BY SourceAssumption DEF NoCode
<1>1. ASSUME NEW r \in Requests, Receive(r) PROVE GenuineInv'
  BY <1>0, <1>1, <1>t, <1>c DEF Receive, GenuineInv, Genuine
<1>2. ASSUME NEW r \in Requests, Lookup(r) PROVE GenuineInv'
  <2>1. ASSUME NEW s \in Requests, NEW n \in Networks
        PROVE  found'[s][n] \in {found[s][n], "off", "waiting"}
    BY <1>2, <1>t DEF Lookup
  <2>2. UNCHANGED <<rows, body, published>> /\ \A s \in Requests :
            stage'[s] = "none" => stage[s] = "none" /\ found'[s] = found[s]
    BY <1>2, <1>t DEF Lookup
  <2> QED
    BY <1>0, <1>c, <2>1, <2>2 DEF GenuineInv, Genuine
<1>3. ASSUME NEW r \in Requests, Upload(r) PROVE GenuineInv'
  <2>1. UploadRow(r) \in Contract /\ rows' = Append(rows, UploadRow(r))
    BY <1>0, <1>3, UploadedRow DEF Upload, UploadRow
  <2>2. PICK k : k = Len(rows) + 1
    OBVIOUS
  <2>3. /\ DOMAIN rows' = DOMAIN rows \cup {k}
        /\ \A i \in DOMAIN rows : rows'[i] = rows[i]
        /\ rows'[k].method = "upload"
    BY <1>0, <2>1, <2>2, Created DEF TypeInv, TypeOK, UploadRow
  <2> QED
    BY <1>0, <1>3, <1>t, <2>3 DEF Upload, GenuineInv, Genuine
<1>4. ASSUME NEW r \in Requests, NEW n \in Networks, Scan(r, n) PROVE GenuineInv'
  <2>1. body[r].address \in Addresses /\ stage[r] = "scan"
    BY <1>0, <1>4, BodiesAssumption DEF Scan, TypeInv, Known
  <2>2. PICK c \in Answers(body[r].address, n) : found' = [found EXCEPT ![r][n] = c]
    BY <1>4 DEF Scan
  <2>3. c \in Codes => Genuine(body[r].address, n, c)
    BY <2>1, AnswersAreGenuine
  <2>4. UNCHANGED <<rows, stage, body, published>>
    BY <1>4 DEF Scan
  <2>5. ASSUME NEW s \in Requests, NEW m \in Networks, found'[s][m] \in Codes
        PROVE  Genuine(body[s].address, m, found'[s][m])
    <3>1. CASE s = r /\ m = n
      BY <1>t, <2>2, <2>3, <2>5, <3>1
    <3>2. CASE ~(s = r /\ m = n)
      BY <1>t, <2>2, <2>5, <3>2 DEF GenuineInv
    <3> QED
      BY <3>1, <3>2
  <2>6. \A s \in Requests : stage[s] = "none" => found'[s] = found[s]
    BY <1>t, <2>1, <2>2
  <2> QED
    BY <1>0, <2>4, <2>5, <2>6 DEF GenuineInv, Genuine
<1>5. ASSUME NEW r \in Requests, NEW n \in Networks, Store(r, n) PROVE GenuineInv'
  <2>1. CASE found[r][n] = "absent"
    BY <1>0, <1>5, <2>1 DEF Store, GenuineInv, Genuine
  <2>2. CASE found[r][n] # "absent"
    <3>1. ScanRow(r, n) \in Contract /\ rows' = Append(rows, ScanRow(r, n))
      BY <1>0, <1>5, <2>2, StoredRow DEF Store, Gathered, TypeInv, Known, ScanRow
    <3>2. PICK k : k = Len(rows) + 1
      OBVIOUS
    <3>3. /\ DOMAIN rows' = DOMAIN rows \cup {k}
          /\ \A i \in DOMAIN rows : rows'[i] = rows[i]
          /\ rows'[k].address = body[r].address /\ rows'[k].network = n
          /\ rows'[k].code = RowCode(found[r][n])
      BY <1>0, <3>1, <3>2, Created DEF TypeInv, TypeOK, ScanRow
    <3>4. found[r][n] \in Codes \cup {Unreadable}
      BY <1>0, <1>5, <1>t, <2>2 DEF Store, Gathered, TypeInv, Known, NoCode
    <3>5. rows'[k].code # None => Genuine(rows'[k].address, rows'[k].network, rows'[k].code)
      BY <3>3, <3>4 DEF RowCode, GenuineInv
    <3>6. UNCHANGED <<stage, body, found, published>>
      BY <1>5 DEF Store
    <3> QED
      BY <1>0, <3>3, <3>5, <3>6 DEF GenuineInv, Genuine
  <2> QED
    BY <2>1, <2>2
<1>6. ASSUME NEW r \in Requests, Return(r) PROVE GenuineInv'
  BY <1>0, <1>6, <1>t DEF Return, work, GenuineInv, Genuine
<1>7. ASSUME NEW r \in Requests, Fail(r) PROVE GenuineInv'
  BY <1>0, <1>7, <1>t DEF Fail, work, GenuineInv, Genuine
<1>8. ASSUME NEW a \in Addresses, NEW n \in Networks, Publish(a, n) PROVE GenuineInv'
  BY <1>0, <1>8 DEF Publish, work, GenuineInv, Genuine
<1>9. CASE UNCHANGED vars
  BY <1>0, <1>9 DEF vars, work, GenuineInv, Genuine
<1> QED
  BY <1>1, <1>2, <1>3, <1>4, <1>5, <1>6, <1>7, <1>8, <1>9 DEF Next

(***************************************************************************)
(* Every scanned contract has the code of its own network.                 *)
(***************************************************************************)
THEOREM GenuineScans == Spec => []ScansAreGenuine
<1>1. Init => GenuineInv
  BY TypeInit, SourceAssumption DEF Init, GenuineInv, NoCode
<1>2. GenuineInv => ScansAreGenuine
  BY DEF GenuineInv, Genuine, ScansAreGenuine
<1> QED
  BY <1>1, <1>2, GenuineStep, PTL DEF Spec
(***************************************************************************)
(* A scan loses no answer: of every network, the answer is still to be     *)
(* gone through, or it has no code, or its contract is in the result. An   *)
(* explorer that is still asked is one that is still to be gone through,   *)
(* and nothing is once a request has ended with a result.                  *)
(***************************************************************************)
KeptFor(r, n) ==
    \/ found[r][n] \in NoCode
    \/ \E i \in result[r] : rows[i].network = n /\ rows[i].code = found[r][n]

Kept(r) ==
    /\ stage[r] \in {"none", "lookup", "upload", "done"} => left[r] = {}
    /\ \A n \in Networks \ left[r] : found[r][n] # "waiting" /\ KeptFor(r, n)

KeptInv == TypeInv /\ \A r \in Requests : Kept(r)

\* A request that a step does not touch keeps what it has, whatever row is added.
LEMMA KeptElsewhere ==
    ASSUME KeptInv, NEW s \in Requests,
           stage'[s] = stage[s], left'[s] = left[s], found'[s] = found[s],
           result[s] \subseteq result'[s],
           \A i \in DOMAIN rows : rows'[i] = rows[i]
    PROVE  Kept(s)'
<1>1. result[s] \subseteq DOMAIN rows
  BY DEF KeptInv, TypeInv, TypeOK
<1>2. Kept(s)
  BY DEF KeptInv
<1>3. ASSUME NEW n \in Networks, KeptFor(s, n) PROVE KeptFor(s, n)'
  BY <1>1, <1>3 DEF KeptFor
<1> QED
  BY <1>2, <1>3 DEF Kept

\* Before its scan, nothing was found for a request and nothing is left to it.
LEMMA NothingFound ==
    ASSUME KeptInv, NEW r \in Requests, stage[r] \in {"none", "lookup", "upload"}
    PROVE  /\ left[r] = {}
           /\ \A n \in Networks : found[r][n] \in NoCode /\ found[r][n] # "waiting"
<1>1. left[r] = {} /\ result[r] = {}
  BY DEF KeptInv, Kept, TypeInv, Known
<1> QED
  BY <1>1 DEF KeptInv, Kept, KeptFor

\* Every step keeps KeptInv.
LEMMA KeptStep == KeptInv /\ [Next]_vars => KeptInv'
<1> SUFFICES ASSUME KeptInv, [Next]_vars PROVE KeptInv'
  OBVIOUS
<1>0. TypeInv /\ TypeInv'
  BY TypeStep DEF KeptInv
<1>t. /\ stage \in [Requests -> Stages] /\ left \in [Requests -> SUBSET Networks]
      /\ result \in [Requests -> SUBSET DOMAIN rows]
      /\ found \in [Requests -> [Networks -> Codes \cup NoCode]]
  BY <1>0 DEF TypeInv, TypeOK
<1>1. ASSUME NEW r \in Requests, Receive(r) PROVE KeptInv'
  <2>1. ASSUME NEW s \in Requests PROVE Kept(s)'
    <3>1. UNCHANGED <<rows, found, left, result>>
      BY <1>1 DEF Receive
    <3>2. CASE s = r
      BY <1>1, <1>t, <3>1, <3>2, NothingFound DEF Receive, Kept, KeptFor
    <3>3. CASE s # r
      BY <1>1, <1>t, <3>1, <3>3, KeptElsewhere DEF Receive
    <3> QED
      BY <3>2, <3>3
  <2> QED
    BY <1>0, <2>1 DEF KeptInv
<1>2. ASSUME NEW r \in Requests, Lookup(r) PROVE KeptInv'
  <2>1. \A s \in Requests \ {r} :
            stage'[s] = stage[s] /\ left'[s] = left[s] /\ found'[s] = found[s] /\ result'[s] = result[s]
    BY <1>2, <1>t DEF Lookup
  <2>2. UNCHANGED rows /\ stage[r] = "lookup"
    BY <1>2 DEF Lookup
  <2>3. Kept(r)'
    <3>1. CASE stage'[r] # "scan"
      <4>1. left'[r] = left[r] /\ found'[r] = found[r]
        BY <1>2, <1>t, <3>1 DEF Lookup
      <4> QED
        BY <2>2, <4>1, NothingFound DEF Kept, KeptFor
    <3>2. CASE stage'[r] = "scan"
      <4>1. /\ left'[r] = Scanned(body[r])
            /\ \A n \in Networks : found'[r][n] = IF n \in Scanned(body[r]) THEN "waiting" ELSE "off"
        BY <1>2, <1>t, <3>2 DEF Lookup
      <4> QED
        BY <3>2, <4>1 DEF Kept, KeptFor, NoCode
    <3> QED
      BY <3>1, <3>2
  <2> QED
    BY <1>0, <2>1, <2>2, <2>3, KeptElsewhere DEF KeptInv
<1>3. ASSUME NEW r \in Requests, Upload(r) PROVE KeptInv'
  <2>1. UploadRow(r) \in Contract /\ rows' = Append(rows, UploadRow(r))
    BY <1>0, <1>3, UploadedRow DEF Upload, UploadRow
  <2>2. \A i \in DOMAIN rows : rows'[i] = rows[i]
    BY <1>0, <2>1, Created DEF TypeInv, TypeOK
  <2>3. UNCHANGED <<found, left>> /\ stage[r] = "upload"
        /\ \A s \in Requests \ {r} : stage'[s] = stage[s] /\ result'[s] = result[s]
    BY <1>3, <1>t DEF Upload
  <2>4. Kept(r)'
    BY <2>3, NothingFound DEF Kept, KeptFor
  <2> QED
    BY <1>0, <2>2, <2>3, <2>4, KeptElsewhere DEF KeptInv
<1>4. ASSUME NEW r \in Requests, NEW n \in Networks, Scan(r, n) PROVE KeptInv'
  <2>1. PICK c : found' = [found EXCEPT ![r][n] = c]
    BY <1>4 DEF Scan
  <2>2. UNCHANGED <<rows, stage, left, result>> /\ n \in left[r]
    BY <1>4 DEF Scan, KeptInv, Kept
  <2>3. ASSUME NEW s \in Requests, NEW m \in Networks \ left[s] PROVE found'[s][m] = found[s][m]
    BY <1>t, <2>1, <2>2, <2>3
  <2> QED
    BY <1>0, <2>2, <2>3 DEF KeptInv, Kept, KeptFor
<1>5. ASSUME NEW r \in Requests, NEW n \in Networks, Store(r, n) PROVE KeptInv'
  <2>1. UNCHANGED <<stage, found>> /\ stage[r] = "scan" /\ left'[r] = left[r] \ {n}
        /\ \A m \in Networks : found[r][m] # "waiting"
        /\ \A s \in Requests \ {r} : left'[s] = left[s]
    BY <1>5, <1>t DEF Store, After, Gathered
  <2>2. CASE found[r][n] = "absent"
    <3>1. UNCHANGED <<rows, result>>
      BY <1>5, <2>2 DEF Store
    <3>2. \A m \in Networks \ left'[r] : KeptFor(r, m)
      BY <2>1, <2>2 DEF KeptInv, Kept, KeptFor, NoCode
    <3> QED
      BY <1>0, <2>1, <3>1, <3>2 DEF KeptInv, Kept, KeptFor
  <2>3. CASE found[r][n] # "absent"
    <3>1. ScanRow(r, n) \in Contract /\ rows' = Append(rows, ScanRow(r, n))
      BY <1>0, <1>5, <2>3, StoredRow DEF Store, Gathered, TypeInv, Known, ScanRow
    <3>2. PICK k : k = Len(rows) + 1
      OBVIOUS
    <3>3. /\ \A i \in DOMAIN rows : rows'[i] = rows[i]
          /\ rows'[k].network = n /\ rows'[k].code = RowCode(found[r][n])
      BY <1>0, <3>1, <3>2, Created DEF TypeInv, TypeOK, ScanRow
    <3>4. /\ \A s \in Requests \ {r} : result'[s] = result[s]
          /\ result'[r] = IF found[r][n] = Unreadable THEN result[r] ELSE result[r] \cup {k}
      BY <1>5, <1>t, <2>3, <3>2 DEF Store
    <3>5. KeptFor(r, n)'
      <4>1. CASE found[r][n] = Unreadable
        BY <2>1, <4>1 DEF KeptFor, NoCode
      <4>2. CASE found[r][n] # Unreadable
        BY <2>1, <3>3, <3>4, <4>2 DEF KeptFor, RowCode
      <4> QED
        BY <4>1, <4>2
    <3>6. ASSUME NEW m \in Networks \ left[r] PROVE KeptFor(r, m)'
      <4>1. KeptFor(r, m) /\ result[r] \subseteq DOMAIN rows
        BY <1>t DEF KeptInv, Kept
      <4> QED
        BY <2>1, <3>3, <3>4, <4>1 DEF KeptFor
    <3>7. Kept(r)'
      BY <2>1, <3>5, <3>6 DEF Kept
    <3> QED
      BY <1>0, <2>1, <3>3, <3>4, <3>7, KeptElsewhere DEF KeptInv
  <2> QED
    BY <2>2, <2>3
<1>6. ASSUME NEW r \in Requests, Return(r) PROVE KeptInv'
  BY <1>0, <1>6, <1>t DEF Return, work, KeptInv, Kept, KeptFor
<1>7. ASSUME NEW r \in Requests, Fail(r) PROVE KeptInv'
  BY <1>0, <1>7, <1>t DEF Fail, work, KeptInv, Kept, KeptFor
<1>8. ASSUME NEW a \in Addresses, NEW n \in Networks, Publish(a, n) PROVE KeptInv'
  BY <1>0, <1>8 DEF Publish, work, KeptInv, Kept, KeptFor
<1>9. CASE UNCHANGED vars
  BY <1>0, <1>9 DEF vars, work, KeptInv, Kept, KeptFor
<1> QED
  BY <1>1, <1>2, <1>3, <1>4, <1>5, <1>6, <1>7, <1>8, <1>9 DEF Next

(***************************************************************************)
(* A scan that ended returns a contract for every network that gave a      *)
(* source code: the loop does not stop at the first, and no answer that    *)
(* arrives late is dropped.                                                *)
(***************************************************************************)
THEOREM SourcesKept == Spec => []EverySourceIsKept
<1>1. Init => KeptInv
  BY TypeInit DEF Init, KeptInv, Kept, KeptFor, NoCode
<1>2. KeptInv => EverySourceIsKept
  <2> SUFFICES ASSUME KeptInv, NEW r \in Requests, stage[r] = "done",
                      NEW n \in Networks, found[r][n] \notin NoCode
               PROVE  \E i \in result[r] : rows[i].network = n /\ rows[i].code = found[r][n]
    BY DEF EverySourceIsKept
  <2>1. left[r] = {}
    BY DEF KeptInv, Kept
  <2> QED
    BY <2>1 DEF KeptInv, Kept, KeptFor
<1> QED
  BY <1>1, <1>2, KeptStep, PTL DEF Spec
=============================================================================
