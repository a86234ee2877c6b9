----------------------------- MODULE Contracts -----------------------------
(***************************************************************************)
(* Contracts: get or create by code or by address (api/contract/service.py,*)
(* _get_or_create_contract), behind POST /contract and POST                *)
(* /contract/token/static.                                                 *)
(*                                                                         *)
(* A request looks for contracts that match its body. When there is none   *)
(* it uploads the code it was given, or asks the explorers of the networks *)
(* concurrently for the source code at the address, and creates a row for  *)
(* every network whose explorer knows the address. Nothing locks the table *)
(* and no index is unique, so requests that overlap may create the same    *)
(* contract twice. allow_testnet is never set: only a request that names a *)
(* testnet scans it.                                                       *)
(***************************************************************************)
EXTENDS Explorers

CONSTANTS
    Requests,  \* the requests
    Bodies,    \* the bodies they may have (ContractScanBody)
    Codes,     \* the source codes
    Addresses, \* the addresses of contracts
    Networks,  \* the networks that are looked at
    Source,    \* the field SourceCode of an address of a network, once it is
               \* published
    MaxFailures\* bound of the model: requests that fail

None    == "none"
Nowhere == "none"
NoBody  == [code |-> None, address |-> None, network |-> Nowhere]

ASSUME NetworksAssumption == Networks \subseteq NetworkEnum

\* Answers without source code. "off": not asked. "absent": an error, or an
\* answer that is no list, which get_source_code turns into exists = False.
\* "unreadable": the code is empty, or the parser raised on it.
NoCode  == {"off", "waiting", "absent", Unreadable}

\* A body has a code or an address (ContractScanBody.validate_params).
ASSUME BodiesAssumption ==
    /\ \A b \in Bodies : b \in [code    : Codes \cup {None},
                                address : Addresses \cup {None},
                                network : Networks \cup {Nowhere}]
    /\ \A b \in Bodies : b.code # None \/ b.address # None

ASSUME SourceAssumption == /\ None \notin Addresses \cup Codes
                           /\ Codes \cap (NoCode \cup {Empty.code}) = {}
                           /\ Source \in [Addresses -> [Networks -> [form : Forms, code : Codes]]]
                           /\ MaxFailures \in Nat

VARIABLES
    rows,      \* the Contract table, in the order of creation; code is "none"
               \* where is_available is false. by, for the properties: the
               \* request that created the row
    stage,     \* how far a request is
    body,      \* the body of a request
    found,     \* what the explorer of a network answered to a request
    left,      \* the answers a request has still to go through
    result,    \* the contracts a request returns: indexes of rows
    published, \* where the source code is published: <<address, network>>
    failures,  \* how many requests failed
    before     \* history: the requests that were over when a request began

work == <<body, found, left, result>>
vars == <<rows, stage, work, published, failures, before>>

Stages  == {"none", "lookup", "upload", "scan", "done", "failed"}
Over    == {"done", "failed"}

Init ==
    /\ rows      = << >>
    /\ stage     = [r \in Requests |-> "none"]
    /\ body      = [r \in Requests |-> NoBody]
    /\ found     = [r \in Requests |-> [n \in Networks |-> "off"]]
    /\ left      = [r \in Requests |-> {}]
    /\ result    = [r \in Requests |-> {}]
    /\ published = {}
    /\ failures  = 0
    /\ before    = [r \in Requests |-> {}]

\* A request begins.
Receive(r) ==
    /\ stage[r] = "none"
    /\ stage' = [stage EXCEPT ![r] = "lookup"]
    /\ \E b \in Bodies : body' = [body EXCEPT ![r] = b]
    /\ before' = [before EXCEPT ![r] = {s \in Requests : stage[s] \in Over}]
    /\ UNCHANGED <<rows, found, left, result, published, failures>>

\* Mutants of Matches: the network is not looked at; it is, even where the
\* body has none.
MatchesAnyNetwork(row, b) ==
    /\ row.code # None
    /\ b.address # None => row.address = b.address
    /\ b.code # None => row.code = b.code
MatchesNoNetwork(row, b) ==
    /\ row.code # None
    /\ b.address # None => row.address = b.address
    /\ row.network = b.network
    /\ b.code # None => row.code = b.code

\* filter_obj: available, and as the body says where it says anything.
Matches(row, b) ==
    /\ row.code # None
    /\ b.address # None => row.address = b.address
    /\ b.network # Nowhere => row.network = b.network
    /\ b.code # None => row.code = b.code

\* Mutant of Matching: first() instead of all.
MatchingFirst(b) ==
    {i \in DOMAIN rows : /\ Matches(rows[i], b)
                         /\ \A j \in DOMAIN rows : Matches(rows[j], b) => i <= j}

\* Contract.filter(**filter_obj).
Matching(b) == {i \in DOMAIN rows : Matches(rows[i], b)}

\* networks_scan.
Scanned(b) == IF b.network # Nowhere THEN {b.network}
                ELSE Networks \cap NetworksOf("mainnet")

\* The order of the scan.
Precedes(n, m) ==
    \E i, j \in DOMAIN networks_by_type.mainnet :
        /\ i < j /\ networks_by_type.mainnet[i] = n /\ networks_by_type.mainnet[j] = m

\* Found contracts are returned; else the code is uploaded or the scan starts.
Lookup(r) ==
    /\ stage[r] = "lookup"
    /\ \/ /\ Matching(body[r]) # {}
          /\ result' = [result EXCEPT ![r] = Matching(body[r])]
          /\ stage' = [stage EXCEPT ![r] = "done"]
          /\ UNCHANGED <<found, left>>
       \/ /\ Matching(body[r]) = {} /\ body[r].code # None
          /\ stage' = [stage EXCEPT ![r] = "upload"]
          /\ UNCHANGED <<found, left, result>>
       \/ /\ Matching(body[r]) = {} /\ body[r].code = None
          /\ stage' = [stage EXCEPT ![r] = "scan"]
          /\ found' = [found EXCEPT ![r] =
                [n \in Networks |-> IF n \in Scanned(body[r]) THEN "waiting" ELSE "off"]]
          /\ left' = [left EXCEPT ![r] = Scanned(body[r])]
          /\ UNCHANGED result
    /\ UNCHANGED <<rows, body, published, failures, before>>

\* Contract.create with the code and the network of the body, and without its
\* address.
Upload(r) ==
    /\ stage[r] = "upload"
    /\ rows' = Append(rows, [method |-> "upload", address |-> None,
                             network |-> body[r].network, code |-> body[r].code,
                             by |-> r])
    /\ result' = [result EXCEPT ![r] = {Len(rows) + 1}]
    /\ stage' = [stage EXCEPT ![r] = "done"]
    /\ UNCHANGED <<body, found, left, published, failures, before>>

\* The field SourceCode that the explorer of n holds for address a.
FieldAt(a, n) == IF <<a, n>> \in published THEN Source[a][n] ELSE Empty

\* What is made of the answer for address a of the explorer of n: nothing that
\* can be used, or the source code of the network its URL asks about.
Answers(a, n) ==
    {"absent"} \cup {extract_raw_code(FieldAt(a, m)) : m \in AskedAbout(n) \cap Networks}

\* get_source_code, in a task of its own for every network.
Scan(r, n) ==
    /\ stage[r] = "scan" /\ found[r][n] = "waiting"
    /\ \E answer \in Answers(body[r].address, n) :
        found' = [found EXCEPT ![r][n] = answer]
    /\ UNCHANGED <<rows, stage, body, left, result, published, failures, before>>

Gathered(r) == \A n \in Networks : found[r][n] # "waiting"

\* Mutant of RowCode: the empty code is stored as it is.
RowCodeRaw(answer) == answer

\* raw_code of the row created for an answer.
RowCode(answer) == IF answer = Unreadable THEN None ELSE answer

\* Mutant of After: the loop breaks at the first source code.
AfterBreak(r, n) == IF found[r][n] \in NoCode THEN left[r] \ {n} ELSE {}

\* The answers that are left after the one of n.
After(r, n) == left[r] \ {n}

\* The loop over the results: the next answer creates a contract, or none, and
\* a contract with source code is returned.
Store(r, n) ==
    /\ stage[r] = "scan" /\ Gathered(r)
    /\ n \in left[r] /\ \A m \in left[r] \ {n} : Precedes(n, m)
    /\ IF found[r][n] = "absent"
        THEN UNCHANGED <<rows, result>>
        ELSE /\ rows' = Append(rows, [method |-> "scan", address |-> body[r].address,
                                      network |-> n, code |-> RowCode(found[r][n]), by |-> r])
             /\ result' = IF found[r][n] = Unreadable THEN result
                            ELSE [result EXCEPT ![r] = @ \cup {Len(rows) + 1}]
    /\ left' = [left EXCEPT ![r] = After(r, n)]
    /\ UNCHANGED <<stage, body, found, published, failures, before>>

\* The scan is over: contracts_return is returned.
Return(r) ==
    /\ stage[r] = "scan" /\ left[r] = {}
    /\ stage' = [stage EXCEPT ![r] = "done"]
    /\ UNCHANGED <<rows, work, published, failures, before>>

\* A database call raises, or the API stops: the contracts created so far stay.
Fail(r) ==
    /\ stage[r] \in {"lookup", "upload", "scan"}
    /\ failures < MaxFailures
    /\ failures' = failures + 1
    /\ stage' = [stage EXCEPT ![r] = "failed"]
    /\ UNCHANGED <<rows, work, published, before>>

\* Somebody publishes the source code at an address.
Publish(a, n) ==
    /\ published' = published \cup {<<a, n>>}
    /\ UNCHANGED <<rows, stage, work, failures, before>>
-----------------------------------------------------------------------------
Next ==
    \/ \E r \in Requests :
        \/ Receive(r) \/ Lookup(r) \/ Upload(r) \/ Return(r) \/ Fail(r)
        \/ \E n \in Networks : Scan(r, n) \/ Store(r, n)
    \/ \E a \in Addresses, n \in Networks : Publish(a, n)

Spec == Init /\ [][Next]_vars
-----------------------------------------------------------------------------
Contract == [method  : {"upload", "scan"},
             address : Addresses \cup {None},
             network : Networks \cup {Nowhere},
             code    : Codes \cup {None},
             by      : Requests]

TypeOK ==
    /\ rows \in Seq(Contract)
    /\ stage \in [Requests -> Stages]
    /\ body \in [Requests -> Bodies \cup {NoBody}]
    /\ found \in [Requests -> [Networks -> Codes \cup NoCode]]
    /\ left \in [Requests -> SUBSET Networks]
    /\ result \in [Requests -> SUBSET DOMAIN rows]
    /\ published \in SUBSET (Addresses \X Networks)
    /\ failures \in 0 .. MaxFailures
    /\ before \in [Requests -> SUBSET Requests]

\* A contract that a request returns is what the body asked for: it has the
\* code, or else is at the address, on the network if one was named, and its
\* source code is available (fetch_from_source).
AnswersMeetBody ==
    \A r \in Requests : \A i \in result[r] :
        /\ rows[i].code # None
        /\ rows[i].code = body[r].code \/ (body[r].code = None /\ rows[i].address = body[r].address)
        /\ body[r].network # Nowhere => rows[i].network = body[r].network

\* Every scanned contract has the source code that was published at its address
\* of its own network, although the explorers answer concurrently and in any
\* order, and some share a host (get_source_code, _get_base_url).
ScansAreGenuine ==
    \A i \in DOMAIN rows :
        rows[i].method = "scan" /\ rows[i].code # None =>
            /\ <<rows[i].address, rows[i].network>> \in published
            /\ rows[i].code = Source[rows[i].address][rows[i].network].code

\* A scan that ended returns a contract for every network whose explorer gave a
\* source code, and does not stop at the first ("rather than calling these
\* sequentially and breaking, we'll call them all").
EverySourceIsKept ==
    \A r \in Requests : stage[r] = "done" =>
        \A n \in Networks : found[r][n] \notin NoCode =>
            \E i \in result[r] : rows[i].network = n /\ rows[i].code = found[r][n]

\* One of r and s was over when the other began.
Sequential(r, s) == r \in before[s] \/ s \in before[r]

\* Requests with both a code and an address create the code without the
\* address, so they never find it again.
Mixed(b) == b.code # None /\ b.address # None

\* The same contract is created twice only by two requests that overlapped:
\* whatever fails, a request finds what was created before it began.
DuplicatesOnlyByOverlap ==
    \A i, j \in DOMAIN rows :
        LET r == rows[i].by  s == rows[j].by IN
        /\ i # j /\ rows[i].code # None
        /\ [rows[i] EXCEPT !.by = s] = rows[j]
        /\ ~Mixed(body[r]) /\ ~Mixed(body[s])
        => r # s /\ ~Sequential(r, s)

\* A request returns all an earlier one with the same body returned.
FetchedIsReturned ==
    \A r, s \in Requests :
        s \in before[r] /\ stage[r] = "done" /\ body[r] = body[s] /\ ~Mixed(body[r])
            => result[s] \subseteq result[r]

\* "If contract was previously uploaded / fetched, return it", for every body.
\* (A code that is uploaded with an address is created again each time.)
PreviouslyUploadedIsReturned ==
    \A r, s \in Requests :
        s \in before[r] /\ stage[r] = "done" /\ body[r] = body[s]
            => result[s] \subseteq result[r]
=============================================================================
