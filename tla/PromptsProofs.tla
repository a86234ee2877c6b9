--------------------------- MODULE PromptsProofs ---------------------------
(***************************************************************************)
(* Proofs about Prompts, for any calls, tags and prompts that were there   *)
(* before: type correctness, that what was last sent for a prompt stands,  *)
(* that no tag is left without an active prompt unasked, and that releases *)
(* leave one active prompt of a tag. The calls that no other one crossed   *)
(* hold rows that are still what they were when they were read: this is    *)
(* what the invariant HoldInv says, and the rest follows from.             *)
(***************************************************************************)
EXTENDS Prompts, Integers, FiniteSetTheorems, SequenceTheorems, TLAPS

(***************************************************************************)
(* What a step does to a call.                                             *)
(***************************************************************************)
Call == [at : {"none", "demote", "save", "over"}, id : Nat, body : UpdateBodies,
         held : Prompt \cup {NoPrompt}, demotes : Nat, demoted : Prompt \cup {NoPrompt}]

Typed(c) ==
    /\ call[c].id \in Ids \cup {0} /\ call[c].demotes \in Ids \cup {0}
    /\ c \in InFlight => call[c].held \in Prompt
    /\ c \in InFlight => (call[c].id = 0 => call[c].body.edits)
    /\ call[c].demotes # 0 => call[c].demoted \in Prompt

TypeInv ==
    /\ prompt \in Seq(Prompt)
    /\ call \in [Calls -> Call]
    /\ \A c \in Calls : Typed(c)
    /\ crossed \in SUBSET Calls
    /\ wrote \in [Ids -> Contents]
    /\ torn \subseteq Ids \cup {0}
    /\ tidy \in SUBSET Tags

Elsewhere(c) == \A d \in Calls \ {c} : call'[d] = call[d]

\* A call that has read nothing.
LEMMA IdleIs ==
    /\ Idle \in Call
    /\ Idle.at = "none" /\ Idle.id = 0 /\ Idle.demotes = 0
    /\ Idle.body = Nothing /\ Idle.held = NoPrompt /\ Idle.demoted = NoPrompt
BY DEF Idle, Call, UpdateBodies, Nothing

\* A body of add_prompt is one that update_prompt would take.
LEMMA BodiesAre ==
    /\ CreateBodies \subseteq UpdateBodies
    /\ \A b \in CreateBodies : b.edits /\ b.tag \in Tags
    /\ \A b \in UpdateBodies :
         /\ b.tag \in Tags \cup {None} /\ b.active \in BOOLEAN \cup {None} /\ b.edits \in BOOLEAN
BY Zenon DEF CreateBodies, UpdateBodies

\* A call begins, with a body and the prompt it is about.
LEMMA Begun ==
    ASSUME TypeInv, NEW c \in Calls, NEW i \in Nat, NEW b \in UpdateBodies, NEW p \in Prompt,
           NEW a \in {"demote", "save"},
           call' = [call EXCEPT ![c] =
                      [Idle EXCEPT !.id = i, !.body = b, !.held = p, !.at = a]]
    PROVE  /\ call' \in [Calls -> Call] /\ Elsewhere(c)
           /\ call'[c].at = a /\ call'[c].id = i /\ call'[c].body = b /\ call'[c].held = p
           /\ call'[c].demotes = 0
<1> DEFINE q == [Idle EXCEPT !.id = i, !.body = b, !.held = p, !.at = a]
<1>1. q \in Call
  BY IdleIs DEF Call
<1>2. q.at = a /\ q.id = i /\ q.body = b /\ q.held = p /\ q.demotes = 0
  BY IdleIs DEF Call
<1>3. call' = [call EXCEPT ![c] = q]
  OBVIOUS
<1> HIDE DEF q
<1> QED
  BY <1>1, <1>2, <1>3 DEF TypeInv, Elsewhere

\* The same, where the id is left as it is: there is none.
LEMMA BegunAnew ==
    ASSUME TypeInv, NEW c \in Calls, NEW b \in UpdateBodies, NEW p \in Prompt,
           NEW a \in {"demote", "save"},
           call' = [call EXCEPT ![c] = [Idle EXCEPT !.body = b, !.held = p, !.at = a]]
    PROVE  /\ call' \in [Calls -> Call] /\ Elsewhere(c)
           /\ call'[c].at = a /\ call'[c].id = 0 /\ call'[c].body = b /\ call'[c].held = p
           /\ call'[c].demotes = 0
<1> DEFINE q == [Idle EXCEPT !.body = b, !.held = p, !.at = a]
<1>1. q \in Call
  BY IdleIs DEF Call
<1>2. q.at = a /\ q.id = 0 /\ q.body = b /\ q.held = p /\ q.demotes = 0
  BY IdleIs DEF Call
<1>3. call' = [call EXCEPT ![c] = q]
  OBVIOUS
<1> HIDE DEF q
<1> QED
  BY <1>1, <1>2, <1>3 DEF TypeInv, Elsewhere

\* A call is over.
LEMMA Ended ==
    ASSUME TypeInv, NEW c \in Calls, call' = [call EXCEPT ![c] = [Idle EXCEPT !.at = "over"]]
    PROVE  /\ call' \in [Calls -> Call] /\ Elsewhere(c)
           /\ call'[c].at = "over" /\ call'[c].id = 0 /\ call'[c].demotes = 0
<1> DEFINE q == [Idle EXCEPT !.at = "over"]
<1>1. q \in Call /\ q.at = "over" /\ q.id = 0 /\ q.demotes = 0
  BY IdleIs DEF Call
<1> HIDE DEF q
<1> QED
  BY <1>1 DEF TypeInv, Elsewhere, q

\* A call that has looked for the prompt to demote.
Kept(c) == /\ call'[c].id = call[c].id /\ call'[c].body = call[c].body
           /\ call'[c].held = call[c].held

\* It has found one,
LEMMA Found ==
    ASSUME TypeInv, NEW c \in Calls, NEW i \in Nat, NEW p \in Prompt,
           call' = [call EXCEPT ![c].at = "save", ![c].demotes = i, ![c].demoted = p]
    PROVE  /\ call' \in [Calls -> Call] /\ Elsewhere(c) /\ Kept(c)
           /\ call'[c].at = "save" /\ call'[c].demotes = i /\ call'[c].demoted = p
<1> DEFINE q == [call[c] EXCEPT !.at = "save", !.demotes = i, !.demoted = p]
<1>0. call \in [Calls -> Call] /\ call[c] \in Call
  BY DEF TypeInv
<1>1. q \in Call
  BY <1>0 DEF Call
<1>2. /\ q.at = "save" /\ q.demotes = i /\ q.demoted = p
      /\ q.id = call[c].id /\ q.body = call[c].body /\ q.held = call[c].held
  BY <1>0 DEF Call
<1>3. call' = [call EXCEPT ![c] = q]
  BY Zenon, <1>0
<1> HIDE DEF q
<1> QED
  BY <1>0, <1>1, <1>2, <1>3 DEF Elsewhere, Kept

\* or there is none.
LEMMA FoundNone ==
    ASSUME TypeInv, NEW c \in Calls, call' = [call EXCEPT ![c].at = "save"]
    PROVE  /\ call' \in [Calls -> Call] /\ Elsewhere(c) /\ Kept(c)
           /\ call'[c].at = "save" /\ call'[c].demotes = call[c].demotes
           /\ call'[c].demoted = call[c].demoted
BY DEF TypeInv, Call, Elsewhere, Kept

\* What a row is: a prompt, and what is changed in it.
LEMMA RowIs ==
    ASSUME NEW p \in Prompt
    PROVE  /\ p.tag \in Tags /\ p.content \in Contents /\ p.active \in BOOLEAN
           /\ LET q == [p EXCEPT !.active = FALSE]
              IN  q \in Prompt /\ q.tag = p.tag /\ q.content = p.content /\ ~q.active
BY Zenon DEF Prompt

(***************************************************************************)
(* The steps, by what they do.                                             *)
(***************************************************************************)
Unsaved == UNCHANGED <<prompt, crossed, wrote, torn, tidy>>
Flies(c) == call[c].at \in {"demote", "save"}

\* The row of an id is a prompt.
LEMMA RowOf == ASSUME TypeInv, NEW i \in Ids PROVE prompt[i] \in Prompt
BY DEF TypeInv, Ids

\* ReadPrompt: what it holds is what the table says.
LEMMA ReadDoes ==
    ASSUME TypeInv, NEW c \in Calls, ReadPrompt(c)
    PROVE  /\ call' \in [Calls -> Call] /\ Elsewhere(c) /\ Unsaved /\ call[c].at = "none"
           /\ call'[c].demotes = 0 /\ call'[c].id \in Ids /\ call'[c].id # 0
           /\ call'[c].held \in Prompt /\ call'[c].held = prompt[call'[c].id]
           /\ \/ call'[c].at = "save"
              \/ call'[c].at = "demote" /\ call'[c].body.active = TRUE
<1>1. PICK i \in Ids, b \in UpdateBodies :
        call' = [call EXCEPT ![c] =
                   [Idle EXCEPT !.id = i, !.body = b, !.held = prompt[i],
                                !.at = IF b.active = TRUE /\ ~prompt[i].active
                                         THEN "demote" ELSE "save"]]
  BY DEF ReadPrompt
<1>2. PICK a \in {"demote", "save"} :
        /\ a = IF b.active = TRUE /\ ~prompt[i].active THEN "demote" ELSE "save"
        /\ a = "demote" => b.active = TRUE
  OBVIOUS
<1>3. prompt[i] \in Prompt /\ i \in Nat /\ i # 0
  BY RowOf DEF TypeInv, Ids
<1>4. PICK p \in Prompt : p = prompt[i]
  BY <1>3
<1>5. call' = [call EXCEPT ![c] = [Idle EXCEPT !.id = i, !.body = b, !.held = p, !.at = a]]
  BY Zenon, <1>1, <1>2, <1>4
<1>6. /\ call' \in [Calls -> Call] /\ Elsewhere(c)
      /\ call'[c].at = a /\ call'[c].id = i /\ call'[c].body = b /\ call'[c].held = p
      /\ call'[c].demotes = 0
  BY <1>3, <1>5, Begun
<1>7. Unsaved /\ call[c].at = "none"
  BY DEF ReadPrompt, Unsaved
<1> QED
  BY <1>2, <1>3, <1>4, <1>6, <1>7

\* NewPrompt: the prompt it holds is what its body says.
LEMMA NewDoes ==
    ASSUME TypeInv, NEW c \in Calls, NewPrompt(c)
    PROVE  /\ call' \in [Calls -> Call] /\ Elsewhere(c) /\ Unsaved /\ call[c].at = "none"
           /\ call'[c].demotes = 0 /\ call'[c].id = 0
           /\ call'[c].held \in Prompt /\ call'[c].held.tag = call'[c].body.tag
           /\ call'[c].body.edits
           /\ \/ call'[c].at = "save" /\ call'[c].body.active # TRUE
              \/ call'[c].at = "demote" /\ call'[c].body.active = TRUE
<1> DEFINE row(b) == [tag |-> b.tag, content |-> c, active |-> b.active = TRUE]
<1>1. PICK b \in CreateBodies :
        call' = [call EXCEPT ![c] =
                   [Idle EXCEPT !.body = b, !.held = row(b),
                                !.at = IF b.active = TRUE THEN "demote" ELSE "save"]]
  BY DEF NewPrompt
<1>2. PICK a \in {"demote", "save"} :
        /\ a = IF b.active = TRUE THEN "demote" ELSE "save"
        /\ a = "demote" => b.active = TRUE
        /\ a = "save" => b.active # TRUE
  OBVIOUS
<1>3. b \in UpdateBodies /\ b.edits /\ b.tag \in Tags
  BY BodiesAre
<1>4. row(b) \in Prompt /\ row(b).tag = b.tag
  BY Zenon, <1>3 DEF Prompt, Contents
<1>5. call' = [call EXCEPT ![c] = [Idle EXCEPT !.body = b, !.held = row(b), !.at = a]]
  BY Zenon, <1>1, <1>2
<1> HIDE DEF row
<1>6. /\ call' \in [Calls -> Call] /\ Elsewhere(c)
      /\ call'[c].at = a /\ call'[c].id = 0 /\ call'[c].body = b /\ call'[c].held = row(b)
      /\ call'[c].demotes = 0
  BY <1>3, <1>4, <1>5, BegunAnew
<1>7. Unsaved /\ call[c].at = "none"
  BY DEF NewPrompt, Unsaved
<1> QED
  BY <1>2, <1>3, <1>4, <1>6, <1>7

\* FindDemoted.
LEMMA FindDoes ==
    ASSUME TypeInv, NEW c \in Calls, FindDemoted(c)
    PROVE  /\ call' \in [Calls -> Call] /\ Elsewhere(c) /\ Unsaved /\ Kept(c)
           /\ call[c].at = "demote" /\ call'[c].at = "save"
           /\ \/ /\ Demotes(c, call'[c].demotes) /\ call'[c].demotes \in Ids
                 /\ call'[c].demoted \in Prompt /\ ~call'[c].demoted.active
                 /\ call'[c].demoted.tag = prompt[call'[c].demotes].tag
                 /\ call'[c].demoted.content = prompt[call'[c].demotes].content
              \/ /\ Others(c) = {} /\ call'[c].demotes = call[c].demotes
                 /\ call'[c].demoted = call[c].demoted
<1>1. call[c].at = "demote" /\ Unsaved
  BY DEF FindDemoted, Unsaved
<1>2. CASE Others(c) = {} /\ call' = [call EXCEPT ![c].at = "save"]
  BY <1>1, <1>2, FoundNone
<1>3. ASSUME NEW i \in Ids, Demotes(c, i),
             call' = [call EXCEPT ![c].at = "save", ![c].demotes = i,
                        ![c].demoted = [prompt[i] EXCEPT !.active = FALSE]]
      PROVE  /\ call' \in [Calls -> Call] /\ Elsewhere(c) /\ Kept(c) /\ call'[c].at = "save"
             /\ call'[c].demotes = i
             /\ call'[c].demoted \in Prompt /\ ~call'[c].demoted.active
             /\ call'[c].demoted.tag = prompt[i].tag
             /\ call'[c].demoted.content = prompt[i].content
  <2>1. prompt[i] \in Prompt /\ i \in Nat
    BY RowOf DEF TypeInv, Ids
  <2> DEFINE p == [prompt[i] EXCEPT !.active = FALSE]
  <2>2. p \in Prompt /\ p.tag = prompt[i].tag /\ p.content = prompt[i].content /\ ~p.active
    BY <2>1, RowIs
  <2>3. call' = [call EXCEPT ![c].at = "save", ![c].demotes = i, ![c].demoted = p]
    BY Zenon, <1>3
  <2> HIDE DEF p
  <2> QED
    BY <2>1, <2>2, <2>3, Found
<1>4. \/ Others(c) = {} /\ call' = [call EXCEPT ![c].at = "save"]
      \/ \E i \in Ids :
            /\ Demotes(c, i)
            /\ call' = [call EXCEPT ![c].at = "save", ![c].demotes = i,
                          ![c].demoted = [prompt[i] EXCEPT !.active = FALSE]]
  BY Zenon DEF FindDemoted
<1> QED
  BY Zenon, <1>1, <1>2, <1>3, <1>4

\* What a call saves is a prompt.
LEMMA EditedIs ==
    ASSUME TypeInv, NEW c \in Calls, c \in InFlight
    PROVE  /\ Edited(c) \in Prompt
           /\ Edited(c).tag = IF call[c].body.tag # None THEN call[c].body.tag
                                                         ELSE call[c].held.tag
           /\ Edited(c).content = IF call[c].body.edits THEN c ELSE call[c].held.content
           /\ call[c].body.active # None => Edited(c).active = call[c].body.active
           /\ call[c].body.active = None => Edited(c).active = call[c].held.active
<1>1. call[c].body \in UpdateBodies /\ call[c].held \in Prompt
  <2>1. call[c] \in Call /\ Typed(c)
    BY DEF TypeInv
  <2> QED
    BY Zenon, <2>1 DEF Call, Typed
<1>2. /\ call[c].body.tag \in Tags \cup {None} /\ call[c].body.active \in BOOLEAN \cup {None}
      /\ call[c].held.tag \in Tags /\ call[c].held.content \in Contents
      /\ call[c].held.active \in BOOLEAN
  BY Zenon, <1>1, BodiesAre, RowIs
<1> QED
  BY Zenon, <1>2 DEF Edited, Prompt, Contents

\* Save: two rows at most are others than they were.
LEMMA SaveDoes ==
    ASSUME TypeInv, NEW c \in Calls, Save(c)
    PROVE  /\ call' \in [Calls -> Call] /\ Elsewhere(c)
           /\ call[c].at = "save" /\ call'[c].at = "over" /\ call'[c].id = 0
           /\ call'[c].demotes = 0
           /\ prompt' \in Seq(Prompt) /\ Ids' = Ids \cup {Saved(c)}
           /\ \A i \in Ids \ {Saved(c), call[c].demotes} : prompt'[i] = prompt[i]
           /\ call[c].demotes # 0 => prompt'[call[c].demotes] = call[c].demoted
           /\ Saved(c) # call[c].demotes => prompt'[Saved(c)] = Edited(c)
           /\ crossed' = crossed \cup (InFlight \ {c})
           /\ wrote' \in [Ids' -> Contents]
           /\ \A i \in Ids' :
                wrote'[i] = IF i = Saved(c) /\ call[c].body.edits THEN c ELSE wrote[i]
           /\ torn' = IF c \in crossed THEN torn \cup {Saved(c), call[c].demotes} ELSE torn
           /\ tidy' = IF Tidy(c) THEN tidy ELSE tidy \ Touched(c)
<1>0. call[c].at = "save" /\ c \in InFlight
  BY DEF Save, InFlight
<1>1. /\ call[c].id \in Ids \cup {0} /\ call[c].demotes \in Ids \cup {0}
      /\ call[c].demotes # 0 => call[c].demoted \in Prompt
      /\ call[c].id = 0 => call[c].body.edits
      /\ Ids = 1 .. Len(prompt) /\ Len(prompt) \in Nat
  <2>1. Typed(c) /\ Ids = 1 .. Len(prompt) /\ Len(prompt) \in Nat
    BY DEF TypeInv, Ids
  <2> QED
    BY Zenon, <1>0, <2>1 DEF Typed
<1>2. prompt' = NewTable(c) /\ wrote' = [i \in DOMAIN NewTable(c) |->
                    IF i = Saved(c) /\ call[c].body.edits THEN c ELSE wrote[i]]
  BY DEF Save
<1>3. DOMAIN NewTable(c) = Ids \cup {Saved(c)}
  BY DEF NewTable
<1>4. \A i \in Ids \cup {Saved(c)} :
        prompt'[i] = IF i = call[c].demotes THEN call[c].demoted
                     ELSE IF i = Saved(c) THEN Edited(c)
                     ELSE prompt[i]
  BY <1>2 DEF NewTable
<1>5. \/ Saved(c) \in Ids
      \/ Saved(c) = Len(prompt) + 1 /\ call[c].id = 0
  BY <1>1 DEF Saved
<1>6. call[c].demotes = 0 \/ call[c].demotes \in Ids
  BY <1>1
<1>7. 0 \notin Ids \cup {Saved(c)}
  BY <1>1, <1>5
<1>8. Edited(c) \in Prompt
  BY <1>0, EditedIs
<1>9. ASSUME NEW i \in Ids \cup {Saved(c)} PROVE prompt'[i] \in Prompt
  <2>1. CASE i = call[c].demotes
    BY <1>1, <1>4, <1>7, <2>1
  <2>2. CASE i # call[c].demotes /\ i = Saved(c)
    BY <1>4, <1>8, <2>2
  <2>3. CASE i # call[c].demotes /\ i # Saved(c)
    BY <1>4, <2>3, RowOf
  <2> QED
    BY <2>1, <2>2, <2>3
<1>10. prompt' \in Seq(Prompt)
  <2>1. PICK n \in Nat : Ids \cup {Saved(c)} = 1 .. n
    <3>1. CASE Saved(c) \in Ids
      <4>1. Ids \cup {Saved(c)} = 1 .. Len(prompt)
        BY <1>1, <3>1
      <4> QED
        BY <1>1, <4>1
    <3>2. CASE Saved(c) = Len(prompt) + 1
      <4>1. Ids \cup {Saved(c)} = 1 .. (Len(prompt) + 1) /\ Len(prompt) + 1 \in Nat
        BY <1>1, <3>2
      <4> QED
        BY <4>1
    <3> QED
      BY <1>5, <3>1, <3>2
  <2>2. prompt' \in [1 .. n -> Prompt]
    BY <1>2, <1>9, <2>1 DEF NewTable
  <2> QED
    BY <2>2, SeqDef
<1>11. Ids' = Ids \cup {Saved(c)}
  BY <1>2, <1>3 DEF Ids
<1>12. \A i \in Ids' :
         wrote'[i] = IF i = Saved(c) /\ call[c].body.edits THEN c ELSE wrote[i]
  BY Zenon, <1>2, <1>3, <1>11
<1>13. wrote' \in [Ids' -> Contents]
  <2>1. ASSUME NEW i \in Ids' PROVE wrote'[i] \in Contents
    <3>1. wrote \in [Ids -> Contents] /\ c \in Contents
      BY DEF TypeInv, Contents
    <3>2. \/ i \in Ids
          \/ i = Saved(c) /\ call[c].body.edits
      BY <1>1, <1>5, <1>11
    <3> QED
      BY Zenon, <1>12, <3>1, <3>2
  <2> QED
    BY Zenon, <1>2, <1>3, <1>11, <2>1
<1>14. /\ call' \in [Calls -> Call] /\ Elsewhere(c)
       /\ call'[c].at = "over" /\ call'[c].id = 0 /\ call'[c].demotes = 0
  BY Ended DEF Save
<1>15. /\ crossed' = crossed \cup (InFlight \ {c})
       /\ torn' = IF c \in crossed THEN torn \cup {Saved(c), call[c].demotes} ELSE torn
       /\ tidy' = IF Tidy(c) THEN tidy ELSE tidy \ Touched(c)
  BY DEF Save
<1>16. /\ \A i \in Ids \ {Saved(c), call[c].demotes} : prompt'[i] = prompt[i]
       /\ call[c].demotes # 0 => prompt'[call[c].demotes] = call[c].demoted
       /\ Saved(c) # call[c].demotes => prompt'[Saved(c)] = Edited(c)
  BY <1>4, <1>6
<1> QED
  BY <1>0, <1>10, <1>11, <1>12, <1>13, <1>14, <1>15, <1>16

\* Fail.
LEMMA FailDoes ==
    ASSUME TypeInv, NEW c \in Calls, Fail(c)
    PROVE  /\ call' \in [Calls -> Call] /\ Elsewhere(c) /\ Unsaved
           /\ call'[c].at = "over" /\ call'[c].id = 0 /\ call'[c].demotes = 0
BY Ended DEF Fail, Unsaved

(***************************************************************************)
(* Type correctness.                                                       *)
(***************************************************************************)

\* A step that saves nothing keeps the types, if those of its call are kept.
LEMMA TypeKept ==
    ASSUME TypeInv, NEW c \in Calls, Unsaved, call' \in [Calls -> Call], Elsewhere(c), Typed(c)'
    PROVE  TypeInv'
<1>1. Ids' = Ids
  BY DEF Unsaved, Ids
<1>2. ASSUME NEW d \in Calls PROVE Typed(d)'
  <2>1. CASE d # c
    <3>1. call'[d] = call[d] /\ Typed(d)
      BY <2>1 DEF Elsewhere, TypeInv
    <3> QED
      BY Zenon, <1>1, <3>1 DEF Typed, InFlight
  <2> QED
    BY <2>1
<1> QED
  BY Zenon, <1>1, <1>2 DEF TypeInv, Unsaved

\* Every step keeps the types.
LEMMA TypeStep == TypeInv /\ [Next]_vars => TypeInv'
<1> SUFFICES ASSUME TypeInv, [Next]_vars PROVE TypeInv'
  OBVIOUS
<1>1. ASSUME NEW c \in Calls, ReadPrompt(c) PROVE TypeInv'
  <2>1. /\ call' \in [Calls -> Call] /\ Elsewhere(c) /\ Unsaved
        /\ call'[c].demotes = 0 /\ call'[c].id \in Ids /\ call'[c].id # 0
        /\ call'[c].held \in Prompt
    BY <1>1, ReadDoes
  <2>2. Ids' = Ids
    BY <2>1 DEF Unsaved, Ids
  <2>3. Typed(c)'
    BY Zenon, <2>1, <2>2 DEF Typed
  <2> QED
    BY <2>1, <2>3, TypeKept
<1>2. ASSUME NEW c \in Calls, NewPrompt(c) PROVE TypeInv'
  <2>1. /\ call' \in [Calls -> Call] /\ Elsewhere(c) /\ Unsaved
        /\ call'[c].demotes = 0 /\ call'[c].id = 0
        /\ call'[c].held \in Prompt /\ call'[c].body.edits
    BY <1>2, NewDoes
  <2>2. Typed(c)'
    BY Zenon, <2>1 DEF Typed
  <2> QED
    BY <2>1, <2>2, TypeKept
<1>3. ASSUME NEW c \in Calls, FindDemoted(c) PROVE TypeInv'
  <2>1. /\ call' \in [Calls -> Call] /\ Elsewhere(c) /\ Unsaved /\ Kept(c)
        /\ call[c].at = "demote"
        /\ \/ call'[c].demotes \in Ids /\ call'[c].demoted \in Prompt
           \/ call'[c].demotes = call[c].demotes /\ call'[c].demoted = call[c].demoted
    BY <1>3, FindDoes
  <2>2. Ids' = Ids /\ Typed(c) /\ c \in InFlight
    BY <2>1 DEF Unsaved, Ids, TypeInv, InFlight
  <2>3. Typed(c)'
    BY Zenon, <2>1, <2>2 DEF Typed, Kept
  <2> QED
    BY <2>1, <2>3, TypeKept
<1>4. ASSUME NEW c \in Calls, Save(c) PROVE TypeInv'
  <2>1. /\ call' \in [Calls -> Call] /\ Elsewhere(c)
        /\ call'[c].at = "over" /\ call'[c].id = 0 /\ call'[c].demotes = 0
        /\ prompt' \in Seq(Prompt) /\ Ids' = Ids \cup {Saved(c)}
        /\ crossed' = crossed \cup (InFlight \ {c})
        /\ wrote' \in [Ids' -> Contents]
        /\ torn' = IF c \in crossed THEN torn \cup {Saved(c), call[c].demotes} ELSE torn
        /\ tidy' = IF Tidy(c) THEN tidy ELSE tidy \ Touched(c)
    BY <1>4, SaveDoes
  <2>2. crossed' \in SUBSET Calls /\ torn' \subseteq Ids' \cup {0} /\ tidy' \in SUBSET Tags
    <3>1. call[c].demotes \in Ids \cup {0}
      BY DEF TypeInv, Typed
    <3> QED
      BY <2>1, <3>1 DEF TypeInv, InFlight
  <2>3. ASSUME NEW d \in Calls PROVE Typed(d)'
    <3>1. CASE d = c
      <4>1. c \notin InFlight'
        BY <2>1 DEF InFlight
      <4> QED
        BY Zenon, <2>1, <3>1, <4>1 DEF Typed
    <3>2. CASE d # c
      <4>1. call'[d] = call[d] /\ Typed(d)
        BY <2>1, <3>2 DEF Elsewhere, TypeInv
      <4> QED
        BY Zenon, <2>1, <4>1 DEF Typed, InFlight
    <3> QED
      BY <3>1, <3>2
  <2> QED
    BY Zenon, <2>1, <2>2, <2>3 DEF TypeInv
<1>5. ASSUME NEW c \in Calls, Fail(c) PROVE TypeInv'
  <2>1. /\ call' \in [Calls -> Call] /\ Elsewhere(c) /\ Unsaved
        /\ call'[c].at = "over" /\ call'[c].id = 0 /\ call'[c].demotes = 0
    BY <1>5, FailDoes
  <2>2. c \notin InFlight'
    BY <2>1 DEF InFlight
  <2>3. Typed(c)'
    BY Zenon, <2>1, <2>2 DEF Typed
  <2> QED
    BY <2>1, <2>3, TypeKept
<1>6. CASE UNCHANGED vars
  BY Zenon, <1>6 DEF vars, TypeInv, Typed, InFlight, Ids
<1> QED
  BY <1>1, <1>2, <1>3, <1>4, <1>5, <1>6 DEF Next

\* They are right at the start.
LEMMA TypeInit == Init => TypeInv
<1> SUFFICES ASSUME Init PROVE TypeInv
  OBVIOUS
<1>1. prompt \in Seq(Prompt)
  <2> DEFINE rows == [tag : Tags, content : {Old}, active : BOOLEAN]
  <2>1. rows \subseteq Prompt
    BY Zenon DEF Prompt, Contents
  <2>2. prompt \in Seq(rows)
    BY FirstAssumption DEF Init
  <2> HIDE DEF rows
  <2> QED
    BY <2>1, <2>2
<1>2. call \in [Calls -> Call] /\ \A c \in Calls : call[c] = Idle
  BY IdleIs DEF Init
<1>3. \A c \in Calls : Typed(c)
  BY Zenon, <1>2, IdleIs DEF Typed, InFlight
<1>4. /\ crossed = {} /\ torn = {} /\ wrote = [i \in Ids |-> Old] /\ tidy \in SUBSET Tags
  BY DEF Init
<1> QED
  BY <1>1, <1>2, <1>3, <1>4 DEF TypeInv, Contents

(***************************************************************************)
(* Every variable has its type: what a call holds are prompts of the table *)
(* and bodies, whenever it began and whatever was saved since.             *)
(***************************************************************************)
THEOREM TypeCorrect == Spec => []TypeOK
<1>1. TypeInv => TypeOK
  <2> SUFFICES ASSUME TypeInv PROVE TypeOK
    OBVIOUS
  <2>1. ASSUME NEW c \in Calls
        PROVE  /\ call[c].at \in {"none", "demote", "save", "over"}
               /\ call[c].id \in Ids \cup {0}
               /\ call[c].body \in UpdateBodies
               /\ call[c].held \in Prompt \cup {NoPrompt}
               /\ call[c].demotes \in Ids \cup {0}
               /\ call[c].demoted \in Prompt \cup {NoPrompt}
    <3>1. call[c] \in Call /\ Typed(c)
      BY DEF TypeInv
    <3> QED
      BY Zenon, <3>1 DEF Call, Typed
  <2> QED
    BY Zenon, <2>1 DEF TypeInv, TypeOK
<1> QED
  BY <1>1, TypeInit, TypeStep, PTL DEF Spec

(***************************************************************************)
(* What a call holds in memory. A call that nobody crossed holds the rows  *)
(* as they are, and the one it will demote is still the newest other one.  *)
(***************************************************************************)
Activates(c) == call[c].body.active = TRUE

Holds(c) ==
    /\ call[c].at = "demote" => Activates(c) /\ call[c].demotes = 0
    /\ c \in InFlight => (call[c].id = 0 => call[c].body.tag = call[c].held.tag)
    /\ call[c].demotes # 0 => /\ Activates(c) /\ call[c].demotes # call[c].id
                              /\ call[c].demoted.tag = call[c].held.tag
                              /\ ~call[c].demoted.active

Looked(c) == IF call[c].demotes = 0 THEN Others(c) = {} ELSE Demotes(c, call[c].demotes)

Fresh(c) ==
    c \in InFlight /\ c \notin crossed =>
        /\ call[c].id # 0 => call[c].held = prompt[call[c].id]
        /\ call[c].demotes # 0 =>
             /\ prompt[call[c].demotes].tag = call[c].demoted.tag
             /\ prompt[call[c].demotes].content = call[c].demoted.content
        /\ call[c].at = "save" /\ call[c].id = 0 /\ Activates(c) => Looked(c)

HoldInv == TypeInv /\ \A c \in Calls : Holds(c) /\ Fresh(c)

\* A step that saves nothing keeps HoldInv, if its own call holds such rows.
LEMMA HoldKept ==
    ASSUME HoldInv, TypeInv', NEW c \in Calls, Unsaved, Elsewhere(c), Holds(c)', Fresh(c)'
    PROVE  HoldInv'
<1>1. ASSUME NEW d \in Calls, d # c PROVE Holds(d)' /\ Fresh(d)'
  <2>1. call'[d] = call[d] /\ Holds(d) /\ Fresh(d)
    BY <1>1 DEF Elsewhere, HoldInv
  <2>2. prompt' = prompt /\ crossed' = crossed
    BY DEF Unsaved
  <2>3. Holds(d)'
    BY Zenon, <2>1 DEF Holds, Activates, InFlight
  <2>4. Looked(d)' <=> Looked(d)
    BY Zenon, <2>1, <2>2 DEF Looked, Others, Demotes, Ids
  <2>5. Fresh(d)'
    BY Zenon, <2>1, <2>2, <2>4 DEF Fresh, Activates, InFlight
  <2> QED
    BY <2>3, <2>5
<1> QED
  BY <1>1 DEF HoldInv

\* Every step keeps HoldInv.
LEMMA HoldStep == HoldInv /\ [Next]_vars => HoldInv'
<1> SUFFICES ASSUME HoldInv, [Next]_vars PROVE HoldInv'
  OBVIOUS
<1>0. TypeInv /\ TypeInv'
  BY TypeStep DEF HoldInv
<1>1. ASSUME NEW c \in Calls, ReadPrompt(c) PROVE HoldInv'
  <2>1. /\ Elsewhere(c) /\ Unsaved
        /\ call'[c].demotes = 0 /\ call'[c].id # 0 /\ call'[c].held = prompt[call'[c].id]
        /\ call'[c].at = "save" \/ (call'[c].at = "demote" /\ call'[c].body.active = TRUE)
    BY <1>0, <1>1, ReadDoes
  <2>2. Holds(c)'
    BY Zenon, <2>1 DEF Holds, Activates
  <2>3. Fresh(c)'
    BY Zenon, <2>1 DEF Fresh, Unsaved
  <2> QED
    BY <1>0, <2>1, <2>2, <2>3, HoldKept
<1>2. ASSUME NEW c \in Calls, NewPrompt(c) PROVE HoldInv'
  <2>1. /\ Elsewhere(c) /\ Unsaved
        /\ call'[c].demotes = 0 /\ call'[c].id = 0 /\ call'[c].held.tag = call'[c].body.tag
        /\ \/ call'[c].at = "save" /\ call'[c].body.active # TRUE
           \/ call'[c].at = "demote" /\ call'[c].body.active = TRUE
    BY <1>0, <1>2, NewDoes
  <2>2. Holds(c)'
    BY Zenon, <2>1 DEF Holds, Activates
  <2>3. call'[c].at = "save" => ~Activates(c)'
    BY Zenon, <2>1 DEF Activates
  <2>4. Fresh(c)'
    BY Zenon, <2>1, <2>3 DEF Fresh
  <2> QED
    BY <1>0, <2>1, <2>2, <2>4, HoldKept
<1>3. ASSUME NEW c \in Calls, FindDemoted(c) PROVE HoldInv'
  <2>1. /\ Elsewhere(c) /\ Unsaved /\ Kept(c) /\ call[c].at = "demote" /\ call'[c].at = "save"
        /\ Holds(c) /\ Fresh(c) /\ c \in InFlight
    BY <1>0, <1>3, FindDoes DEF HoldInv, InFlight
  <2>2. /\ prompt' = prompt /\ crossed' = crossed /\ Others(c)' = Others(c)
        /\ \A i : Demotes(c, i)' <=> Demotes(c, i)
    BY Zenon, <2>1 DEF Unsaved, Kept, Others, Demotes, Ids
  <2>3. CASE /\ Demotes(c, call'[c].demotes) /\ call'[c].demotes \in Ids
             /\ ~call'[c].demoted.active
             /\ call'[c].demoted.tag = prompt[call'[c].demotes].tag
             /\ call'[c].demoted.content = prompt[call'[c].demotes].content
    <3>1. /\ call'[c].demotes # call[c].id
          /\ prompt[call'[c].demotes].tag = call[c].held.tag
      BY Zenon, <2>3 DEF Demotes, Others
    <3>2. Holds(c)'
      BY Zenon, <2>1, <2>3, <3>1 DEF Holds, Activates, Kept
    <3>3. call'[c].demotes # 0
      BY <1>0, <2>3 DEF TypeInv, Ids
    <3>4. Looked(c)'
      BY Zenon, <2>2, <2>3, <3>3 DEF Looked
    <3>5. Fresh(c)'
      BY Zenon, <2>1, <2>2, <2>3, <3>4 DEF Fresh, Kept
    <3> QED
      BY <1>0, <2>1, <3>2, <3>5, HoldKept
  <2>4. CASE /\ Others(c) = {} /\ call'[c].demotes = call[c].demotes
    <3>1. call'[c].demotes = 0
      BY Zenon, <2>1, <2>4 DEF Holds
    <3>2. Holds(c)'
      BY Zenon, <2>1, <3>1 DEF Holds, Activates, Kept
    <3>3. Looked(c)'
      BY Zenon, <2>2, <2>4, <3>1 DEF Looked
    <3>4. Fresh(c)'
      BY Zenon, <2>1, <2>2, <3>1, <3>3 DEF Fresh, Kept
    <3> QED
      BY <1>0, <2>1, <3>2, <3>4, HoldKept
  <2> QED
    BY <1>0, <1>3, <2>3, <2>4, FindDoes
<1>4. ASSUME NEW c \in Calls, Save(c) PROVE HoldInv'
  <2>1. /\ Elsewhere(c) /\ call'[c].at = "over" /\ call'[c].id = 0 /\ call'[c].demotes = 0
        /\ crossed' = crossed \cup (InFlight \ {c})
    BY <1>0, <1>4, SaveDoes
  <2>2. ASSUME NEW d \in Calls PROVE Holds(d)' /\ Fresh(d)'
    <3>1. CASE d = c
      BY Zenon, <2>1, <3>1 DEF Holds, Fresh, InFlight
    <3>2. CASE d # c
      <4>1. call'[d] = call[d] /\ Holds(d)
        BY <2>1, <3>2 DEF Elsewhere, HoldInv
      <4>2. Holds(d)'
        BY Zenon, <4>1 DEF Holds, Activates, InFlight
      <4>3. d \in InFlight' => d \in crossed'
        BY <2>1, <3>2, <4>1 DEF InFlight
      <4> QED
        BY Zenon, <4>2, <4>3 DEF Fresh
    <3> QED
      BY <3>1, <3>2
  <2> QED
    BY <1>0, <2>2 DEF HoldInv
<1>5. ASSUME NEW c \in Calls, Fail(c) PROVE HoldInv'
  <2>1. /\ Elsewhere(c) /\ Unsaved
        /\ call'[c].at = "over" /\ call'[c].id = 0 /\ call'[c].demotes = 0
    BY <1>0, <1>5, FailDoes
  <2>2. Holds(c)' /\ Fresh(c)'
    BY Zenon, <2>1 DEF Holds, Fresh, InFlight
  <2> QED
    BY <1>0, <2>1, <2>2, HoldKept
<1>6. CASE UNCHANGED vars
  BY Zenon, <1>0, <1>6 DEF vars, HoldInv, Holds, Fresh, Activates, Looked, Others, Demotes, Ids,
     InFlight
<1> QED
  BY <1>1, <1>2, <1>3, <1>4, <1>5, <1>6 DEF Next

\* At the start no call holds anything: HoldInv is an invariant.
LEMMA HoldInit == Init => HoldInv
<1> SUFFICES ASSUME Init PROVE HoldInv
  OBVIOUS
<1>1. \A c \in Calls : call[c] = Idle
  BY DEF Init
<1>2. \A c \in Calls : Holds(c) /\ Fresh(c)
  BY Zenon, <1>1, IdleIs DEF Holds, Fresh, InFlight
<1> QED
  BY <1>2, TypeInit DEF HoldInv

\* HoldInv is an invariant.
LEMMA HoldInvariant == Spec => []HoldInv
BY HoldInit, HoldStep, PTL DEF Spec

(***************************************************************************)
(* What was last sent for a prompt stands.                                 *)
(***************************************************************************)

\* The row that is saved is not the one that is demoted.
LEMMA SavedIs ==
    ASSUME HoldInv, NEW c \in Calls
    PROVE  /\ Saved(c) # call[c].demotes \/ call[c].demotes = 0
           /\ Saved(c) \in Nat \ {0}
           /\ call[c].demotes # 0 => call[c].demotes \in Ids
           /\ call[c].id # 0 => Saved(c) = call[c].id /\ call[c].id \in Ids
           /\ call[c].id = 0 => Saved(c) \notin Ids
<1>1. /\ call[c].id \in Ids \cup {0} /\ call[c].demotes \in Ids \cup {0}
      /\ call[c].demotes # 0 => call[c].demotes # call[c].id
  BY Zenon DEF HoldInv, TypeInv, Typed, Holds
<1>2. Ids = 1 .. Len(prompt) /\ Len(prompt) \in Nat
  BY DEF HoldInv, TypeInv, Ids
<1> QED
  BY <1>1, <1>2 DEF Saved

\* A step that is no Save saves nothing.
LEMMA OthersSaveNothing ==
    ASSUME TypeInv, [Next]_vars
    PROVE  Unsaved \/ \E c \in Calls : Save(c)
BY ReadDoes, NewDoes, FindDoes, FailDoes DEF Next, vars, Unsaved

EditInv == HoldInv /\ EditsStand

\* Every step keeps EditInv.
LEMMA EditStep == EditInv /\ [Next]_vars => EditInv'
<1> SUFFICES ASSUME EditInv, [Next]_vars PROVE EditInv'
  OBVIOUS
<1>0. HoldInv /\ HoldInv' /\ TypeInv
  BY HoldStep DEF EditInv, HoldInv
<1>1. CASE Unsaved
  BY <1>0, <1>1 DEF Unsaved, EditInv, EditsStand, Ids
<1>2. ASSUME NEW c \in Calls, Save(c) PROVE EditInv'
  <2>1. /\ call[c].at = "save" /\ Ids' = Ids \cup {Saved(c)}
        /\ \A i \in Ids \ {Saved(c), call[c].demotes} : prompt'[i] = prompt[i]
        /\ call[c].demotes # 0 => prompt'[call[c].demotes] = call[c].demoted
        /\ Saved(c) # call[c].demotes => prompt'[Saved(c)] = Edited(c)
        /\ \A i \in Ids' : wrote'[i] = IF i = Saved(c) /\ call[c].body.edits THEN c ELSE wrote[i]
        /\ torn' = IF c \in crossed THEN torn \cup {Saved(c), call[c].demotes} ELSE torn
    BY <1>0, <1>2, SaveDoes
  <2>2. /\ Saved(c) # call[c].demotes
        /\ call[c].demotes # 0 => call[c].demotes \in Ids
        /\ call[c].id # 0 => Saved(c) = call[c].id /\ call[c].id \in Ids
        /\ call[c].id = 0 => Saved(c) \notin Ids
    BY <1>0, SavedIs
  <2>3. c \in InFlight /\ Typed(c) /\ Fresh(c)
    BY <1>0, <2>1 DEF InFlight, HoldInv, TypeInv
  <2>4. ASSUME NEW i \in Ids', i \notin torn', i \notin {Saved(c), call[c].demotes}
        PROVE  prompt'[i].content = wrote'[i]
    <3>1. i \in Ids /\ i \notin torn
      BY <2>1, <2>4
    <3>2. prompt[i].content = wrote[i]
      BY <3>1 DEF EditInv, EditsStand
    <3> QED
      BY Zenon, <2>1, <2>4, <3>1, <3>2
  <2>5. ASSUME NEW i \in Ids', i \notin torn', i = Saved(c) PROVE prompt'[i].content = wrote'[i]
    <3>1. c \notin crossed /\ i \notin torn
      BY <2>1, <2>5
    <3>2. /\ prompt'[i] = Edited(c)
          /\ Edited(c).content = IF call[c].body.edits THEN c ELSE call[c].held.content
      BY <1>0, <2>1, <2>2, <2>3, <2>5, EditedIs
    <3>3. CASE call[c].body.edits
      BY Zenon, <2>1, <2>5, <3>2, <3>3
    <3>4. CASE ~call[c].body.edits
      <4>1. call[c].id # 0
        BY Zenon, <2>3, <3>4 DEF Typed
      <4>2. i \in Ids /\ call[c].held = prompt[i]
        BY Zenon, <2>2, <2>3, <2>5, <3>1, <4>1 DEF Fresh
      <4>3. prompt[i].content = wrote[i]
        BY <3>1, <4>2 DEF EditInv, EditsStand
      <4> QED
        BY Zenon, <2>1, <3>2, <3>4, <4>2, <4>3
    <3> QED
      BY <3>3, <3>4
  <2>6. ASSUME NEW i \in Ids', i \notin torn', i = call[c].demotes, i # 0
        PROVE  prompt'[i].content = wrote'[i]
    <3>1. c \notin crossed /\ i \notin torn /\ i # Saved(c) /\ i \in Ids
      BY <2>1, <2>2, <2>6
    <3>2. prompt'[i] = call[c].demoted /\ prompt[i].content = call[c].demoted.content
      BY Zenon, <2>1, <2>3, <2>6, <3>1 DEF Fresh
    <3>3. prompt[i].content = wrote[i]
      BY <3>1 DEF EditInv, EditsStand
    <3> QED
      BY Zenon, <2>1, <3>1, <3>2, <3>3
  <2>7. 0 \notin Ids'
    BY <1>0 DEF HoldInv, TypeInv, Ids
  <2>8. EditsStand'
    BY <2>4, <2>5, <2>6, <2>7 DEF EditsStand
  <2> QED
    BY <1>0, <2>8 DEF EditInv
<1> QED
  BY <1>0, <1>1, <1>2, OthersSaveNothing

(***************************************************************************)
(* The content and version last sent for a prompt stand, whoever demotes   *)
(* or edits it later, unless a call that was crossed saved the row.        *)
(***************************************************************************)
THEOREM EditsAreKept == Spec => []EditsStand
<1>1. Init => EditInv
  <2> SUFFICES ASSUME Init PROVE EditInv
    OBVIOUS
  <2>1. \A i \in Ids : prompt[i].content = Old
    <3> DEFINE rows == [tag : Tags, content : {Old}, active : BOOLEAN]
    <3>1. prompt \in Seq(rows)
      BY FirstAssumption DEF Init
    <3> HIDE DEF rows
    <3>2. \A i \in Ids : prompt[i] \in rows
      BY <3>1 DEF Ids
    <3> QED
      BY Zenon, <3>2 DEF rows
  <2> QED
    BY <2>1, HoldInit DEF Init, EditInv, EditsStand
<1>2. EditInv => EditsStand
  BY DEF EditInv
<1> QED
  BY <1>1, <1>2, EditStep, PTL DEF Spec

\* A call whose body asks for a prompt to be no longer active, or of another tag.
Asked(c) == call[c].id # 0 /\ (call[c].body.active = FALSE \/ call[c].body.tag # None)

\* A call that was neither crossed nor asked to leaves every tag an active
\* prompt that had one.
LEMMA StillActive ==
    ASSUME HoldInv, NEW c \in Calls, Save(c), c \notin crossed, ~Asked(c),
           NEW t \in Tags, NEW i \in Active(t)
    PROVE  Active(t)' # {}
<1>0. TypeInv /\ Typed(c) /\ Holds(c) /\ Fresh(c)
  BY DEF HoldInv, TypeInv
<1>1. /\ call[c].at = "save" /\ Ids' = Ids \cup {Saved(c)}
      /\ \A j \in Ids \ {Saved(c), call[c].demotes} : prompt'[j] = prompt[j]
      /\ Saved(c) # call[c].demotes => prompt'[Saved(c)] = Edited(c)
  BY <1>0, SaveDoes
<1>2. /\ Saved(c) # call[c].demotes
      /\ call[c].id # 0 => Saved(c) = call[c].id /\ call[c].id \in Ids
      /\ call[c].id = 0 => Saved(c) \notin Ids
  BY SavedIs
<1>3. /\ c \in InFlight /\ prompt'[Saved(c)] = Edited(c) /\ Edited(c) \in Prompt
      /\ Edited(c).tag = IF call[c].body.tag # None THEN call[c].body.tag
                                                    ELSE call[c].held.tag
      /\ call[c].body.active # None => Edited(c).active = call[c].body.active
      /\ call[c].body.active = None => Edited(c).active = call[c].held.active
  BY <1>0, <1>1, <1>2, EditedIs DEF InFlight
<1>4. i \in Ids /\ prompt[i].tag = t /\ prompt[i].active
  BY DEF Active
<1>5. Edited(c).tag = call[c].held.tag
  BY Zenon, <1>0, <1>3 DEF Asked, Holds
<1>6. ASSUME Edited(c).tag = t, Edited(c).active PROVE Active(t)' # {}
  BY <1>1, <1>3, <1>6 DEF Active
<1>7. CASE i \notin {Saved(c), call[c].demotes}
  <2>1. i \in Ids' /\ prompt'[i] = prompt[i]
    BY <1>1, <1>4, <1>7
  <2> QED
    BY <1>4, <2>1 DEF Active
<1>8. CASE i = Saved(c)
  <2>1. call[c].id # 0 /\ call[c].held = prompt[i]
    BY Zenon, <1>0, <1>2, <1>3, <1>4, <1>8 DEF Fresh
  <2>2. call[c].body.active \in {TRUE, None}
    <3>1. call[c].body.active \in BOOLEAN \cup {None}
      <4>1. call[c] \in Call
        BY <1>0 DEF TypeInv
      <4> QED
        BY Zenon, <4>1, BodiesAre DEF Call
    <3> QED
      BY Zenon, <2>1, <3>1 DEF Asked
  <2>3. Edited(c).active
    BY Zenon, <1>3, <1>4, <2>1, <2>2
  <2> QED
    BY <1>4, <1>5, <1>6, <2>1, <2>3
<1>9. CASE i = call[c].demotes
  <2>1. call[c].demotes # 0
    BY <1>0, <1>4, <1>9 DEF TypeInv, Ids
  <2>2. /\ call[c].body.active = TRUE /\ call[c].demoted.tag = call[c].held.tag
        /\ prompt[i].tag = call[c].demoted.tag
    BY Zenon, <1>0, <1>3, <1>9, <2>1 DEF Holds, Fresh, Activates
  <2>3. Edited(c).active
    BY Zenon, <1>3, <2>2, NoneAssumption
  <2> QED
    BY <1>4, <1>5, <1>6, <2>2, <2>3
<1> QED
  BY <1>7, <1>8, <1>9

(***************************************************************************)
(* No step leaves a tag that had an active prompt without one: what a call *)
(* demotes is made up for by what it activates, in the same transaction.   *)
(* Only a body that asks for it takes the last one, or a call that was     *)
(* crossed and saved rows it had read before.                              *)
(***************************************************************************)
THEOREM NoTagIsLeftDark == Spec => NoTagGoesDark
<1>1. ASSUME HoldInv, [Next]_vars
      PROVE  [\A t \in Tags : Active(t) # {} /\ Active(t)' = {} =>
                \E c \in Calls :
                  /\ call[c].at = "save" /\ call'[c].at = "over"
                  /\ \/ c \in crossed
                     \/ call[c].id # 0 /\ (call[c].body.active = FALSE
                                           \/ call[c].body.tag # None)]_vars
  <2>1. SUFFICES ASSUME NEW t \in Tags, Active(t) # {}, Active(t)' = {}
                 PROVE  \E c \in Calls : /\ call[c].at = "save" /\ call'[c].at = "over"
                                         /\ c \in crossed \/ Asked(c)
    BY Zenon DEF Asked
  <2>2. TypeInv
    BY <1>1 DEF HoldInv
  <2>3. CASE Unsaved
    BY <2>1, <2>3 DEF Unsaved, Active, Ids
  <2>4. ASSUME NEW c \in Calls, Save(c)
        PROVE  /\ call[c].at = "save" /\ call'[c].at = "over"
               /\ c \in crossed \/ Asked(c)
    BY <1>1, <2>1, <2>2, <2>4, SaveDoes, StillActive
  <2> QED
    BY <1>1, <2>2, <2>3, <2>4, OthersSaveNothing
<1> QED
  BY <1>1, HoldInvariant, PTL DEF Spec, NoTagGoesDark

(***************************************************************************)
(* Releases leave one active prompt of a tag: the active prompt of a tidy  *)
(* tag is the newest of the tag, which is the one the next release demotes.*)
(***************************************************************************)
Newest(t) ==
    \A i, j \in Ids : prompt[i].tag = t /\ prompt[j].tag = t /\ prompt[i].active => j <= i

TidyInv == HoldInv /\ \A t \in tidy : Newest(t)

\* A step that gives a tag no new prompt and activates none keeps this.
LEMMA NewestKept ==
    ASSUME NEW t, Newest(t),
           \A k \in Ids' : prompt'[k].tag = t =>
                k \in Ids /\ prompt[k].tag = t /\ (prompt'[k].active => prompt[k].active)
    PROVE  Newest(t)'
BY DEF Newest

\* A tag that a call does not touch.
LEMMA Untouched ==
    ASSUME HoldInv, NEW c \in Calls, Save(c), NEW t, Newest(t),
           Edited(c).tag # t, call[c].demotes # 0 => call[c].demoted.tag # t
    PROVE  Newest(t)'
<1>1. /\ Ids' = Ids \cup {Saved(c)}
      /\ \A j \in Ids \ {Saved(c), call[c].demotes} : prompt'[j] = prompt[j]
      /\ call[c].demotes # 0 => prompt'[call[c].demotes] = call[c].demoted
      /\ Saved(c) # call[c].demotes => prompt'[Saved(c)] = Edited(c)
  BY SaveDoes DEF HoldInv
<1>2. Saved(c) # call[c].demotes /\ 0 \notin Ids'
  BY <1>1, SavedIs DEF HoldInv, TypeInv, Ids
<1>3. ASSUME NEW k \in Ids', prompt'[k].tag = t PROVE k \in Ids /\ prompt'[k] = prompt[k]
  <2>1. k # Saved(c)
    BY <1>1, <1>2, <1>3
  <2>2. k # call[c].demotes
    BY <1>1, <1>2, <1>3
  <2> QED
    BY <1>1, <1>3, <2>1, <2>2
<1> QED
  BY <1>3, NewestKept

\* The release of a new active prompt that no call crossed.
LEMMA Release ==
    ASSUME HoldInv, NEW c \in Calls, Save(c), c \notin crossed, call[c].id = 0, Activates(c),
           NEW t, Newest(t), t = call[c].held.tag
    PROVE  Newest(t)'
<1>0. TypeInv /\ Holds(c) /\ Fresh(c)
  BY DEF HoldInv
<1>1. /\ call[c].at = "save" /\ Ids' = Ids \cup {Saved(c)}
      /\ \A j \in Ids \ {Saved(c), call[c].demotes} : prompt'[j] = prompt[j]
      /\ call[c].demotes # 0 => prompt'[call[c].demotes] = call[c].demoted
  BY <1>0, SaveDoes
<1>2. Saved(c) = Len(prompt) + 1 /\ Ids = 1 .. Len(prompt) /\ Len(prompt) \in Nat
  BY <1>0 DEF Saved, TypeInv, Ids
<1>3. Looked(c)
  BY Zenon, <1>0, <1>1 DEF Fresh, InFlight
<1>4. ASSUME NEW k \in Ids, prompt'[k].tag = t PROVE ~prompt'[k].active
  <2>1. CASE k = call[c].demotes
    <3>1. call[c].demotes # 0 /\ prompt'[k] = call[c].demoted
      BY <1>1, <1>2, <2>1
    <3> QED
      BY Zenon, <1>0, <3>1 DEF Holds
  <2>2. CASE k # call[c].demotes
    <3>1. prompt'[k] = prompt[k] /\ prompt[k].tag = t
      BY <1>1, <1>2, <1>4, <2>2
    <3>2. k \in Others(c)
      BY <1>2, <3>1 DEF Others
    <3>3. call[c].demotes # 0 /\ Demotes(c, call[c].demotes)
      BY Zenon, <1>3, <3>2 DEF Looked
    <3>4. /\ call[c].demotes \in Ids /\ prompt[call[c].demotes].tag = t
          /\ k <= call[c].demotes
      BY <3>2, <3>3 DEF Demotes, Others
    <3>5. prompt[k].active => call[c].demotes <= k
      BY <3>1, <3>4 DEF Newest
    <3>6. call[c].demotes \in Int /\ k \in Int
      BY <1>2, <3>4
    <3>7. ~prompt[k].active
      BY <2>2, <3>4, <3>5, <3>6
    <3> QED
      BY Zenon, <3>1, <3>7
  <2> QED
    BY <2>1, <2>2
<1>5. ASSUME NEW i \in Ids', NEW j \in Ids', prompt'[i].tag = t, prompt'[i].active PROVE j <= i
  <2>1. i \notin Ids
    BY <1>4, <1>5
  <2> QED
    BY <1>1, <1>2, <2>1
<1> QED
  BY <1>5 DEF Newest

\* An edit of a prompt or its deactivation, by a call that no call crossed.
LEMMA Revision ==
    ASSUME HoldInv, NEW c \in Calls, Save(c), c \notin crossed, call[c].id # 0,
           call[c].body.tag = None, call[c].demotes = 0,
           Activates(c) => call[c].held.active, NEW t, Newest(t)
    PROVE  Newest(t)'
<1>0. TypeInv /\ Fresh(c)
  BY DEF HoldInv
<1>1. /\ call[c].at = "save" /\ Ids' = Ids \cup {Saved(c)}
      /\ \A j \in Ids \ {Saved(c), call[c].demotes} : prompt'[j] = prompt[j]
      /\ Saved(c) # call[c].demotes => prompt'[Saved(c)] = Edited(c)
  BY <1>0, SaveDoes
<1>2. /\ Saved(c) # call[c].demotes /\ Saved(c) = call[c].id /\ call[c].id \in Ids
      /\ 0 \notin Ids
  BY <1>0, SavedIs DEF TypeInv, Ids
<1>3. c \in InFlight /\ call[c].held = prompt[call[c].id]
  BY Zenon, <1>0, <1>1 DEF Fresh, InFlight
<1>4. /\ Edited(c).tag = IF call[c].body.tag # None THEN call[c].body.tag
                                                    ELSE call[c].held.tag
      /\ call[c].body.active # None => Edited(c).active = call[c].body.active
      /\ call[c].body.active = None => Edited(c).active = call[c].held.active
  BY <1>0, <1>3, EditedIs
<1>5. Edited(c).tag = call[c].held.tag /\ (Edited(c).active => call[c].held.active)
  <2>1. call[c].body.active \in BOOLEAN \cup {None}
    <3>1. call[c] \in Call
      BY <1>0 DEF TypeInv
    <3> QED
      BY Zenon, <3>1, BodiesAre DEF Call
  <2> QED
    BY Zenon, <1>4, <2>1 DEF Activates
<1>6. ASSUME NEW k \in Ids', prompt'[k].tag = t
      PROVE  k \in Ids /\ prompt[k].tag = t /\ (prompt'[k].active => prompt[k].active)
  <2>1. CASE k = Saved(c)
    BY Zenon, <1>1, <1>2, <1>3, <1>5, <1>6, <2>1
  <2>2. CASE k # Saved(c)
    <3>1. k \in Ids /\ prompt'[k] = prompt[k]
      BY <1>1, <1>2, <2>2
    <3> QED
      BY <1>6, <3>1
  <2> QED
    BY <2>1, <2>2
<1> QED
  BY <1>6, NewestKept

\* Every step keeps TidyInv.
LEMMA TidyStep == TidyInv /\ [Next]_vars => TidyInv'
<1> SUFFICES ASSUME TidyInv, [Next]_vars PROVE TidyInv'
  OBVIOUS
<1>0. HoldInv /\ HoldInv' /\ TypeInv
  BY HoldStep DEF TidyInv, HoldInv
<1>1. CASE Unsaved
  BY <1>0, <1>1 DEF Unsaved, TidyInv, Newest, Ids
<1>2. ASSUME NEW c \in Calls, Save(c), NEW t \in tidy' PROVE Newest(t)'
  <2>1. tidy' = IF Tidy(c) THEN tidy ELSE tidy \ Touched(c)
    BY <1>0, <1>2, SaveDoes
  <2>2. t \in tidy /\ Newest(t)
    BY <1>0, <1>2, <2>1 DEF TidyInv
  <2>3. CASE ~Tidy(c)
    <3>1. t \notin Touched(c)
      BY <1>2, <2>1, <2>3
    <3>2. Edited(c).tag # t /\ call[c].demoted.tag # t
      BY <3>1 DEF Touched
    <3> QED
      BY <1>0, <1>2, <2>2, <3>2, Untouched
  <2>4. CASE Tidy(c) /\ call[c].id = 0
    <3>1. c \notin crossed /\ Activates(c)
      BY Zenon, <2>4 DEF Tidy, Activates
    <3>2. CASE t = call[c].held.tag
      BY <1>0, <1>2, <2>2, <2>4, <3>1, <3>2, Release
    <3>3. CASE t # call[c].held.tag
      <4>1. c \in InFlight /\ Holds(c)
        BY <1>0, <1>2, SaveDoes DEF InFlight, HoldInv
      <4>2. /\ call[c].body.tag = call[c].held.tag
            /\ call[c].demotes # 0 => call[c].demoted.tag = call[c].held.tag
        BY Zenon, <2>4, <4>1 DEF Holds
      <4>3. Edited(c).tag = call[c].held.tag
        BY Zenon, <1>0, <4>1, <4>2, EditedIs
      <4> QED
        BY <1>0, <1>2, <2>2, <3>3, <4>2, <4>3, Untouched
    <3> QED
      BY <3>2, <3>3
  <2>5. CASE Tidy(c) /\ call[c].id # 0
    <3>1. /\ c \notin crossed /\ call[c].body.tag = None /\ call[c].demotes = 0
          /\ Activates(c) => call[c].held.active
      BY Zenon, <2>5 DEF Tidy, Activates
    <3> QED
      BY <1>0, <1>2, <2>2, <2>5, <3>1, Revision
  <2> QED
    BY <2>3, <2>4, <2>5
<1> QED
  BY <1>0, <1>1, <1>2, OthersSaveNothing DEF TidyInv

(***************************************************************************)
(* One prompt of a tag at most is active, as long as the tag was only      *)
(* released to, edited and deactivated by calls that did not overlap.      *)
(***************************************************************************)
THEOREM OneActive == Spec => []OneActiveByRelease
<1>1. Init => TidyInv
  <2> SUFFICES ASSUME Init PROVE TidyInv
    OBVIOUS
  <2>1. \A t \in tidy : Newest(t)
    BY DEF Init, Newest
  <2> QED
    BY <2>1, HoldInit DEF TidyInv
<1>2. TidyInv => OneActiveByRelease
  <2> SUFFICES ASSUME TidyInv, NEW t \in tidy PROVE Cardinality(Active(t)) <= 1
    BY DEF OneActiveByRelease
  <2>1. ASSUME NEW i \in Active(t), NEW j \in Active(t) PROVE i = j
    <3>1. i \in Ids /\ j \in Ids /\ i <= j /\ j <= i
      BY DEF Active, TidyInv, Newest
    <3>2. i \in Int /\ j \in Int
      BY <3>1 DEF TidyInv, HoldInv, TypeInv, Ids
    <3> QED
      BY <3>1, <3>2
  <2>2. CASE Active(t) = {}
    BY <2>2, FS_EmptySet
  <2>3. CASE Active(t) # {}
    <3>1. PICK i : Active(t) = {i}
      BY <2>1, <2>3
    <3>2. Cardinality({i}) = 1
      BY FS_Singleton
    <3> QED
      BY <3>1, <3>2
  <2> QED
    BY <2>2, <2>3
<1> QED
  BY <1>1, <1>2, TidyStep, PTL DEF Spec
=============================================================================
