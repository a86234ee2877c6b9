------------------------------ MODULE Prompts ------------------------------
(***************************************************************************)
(* The prompts of one audit_type, as the admin API changes them            *)
(* (api/admin/service.py, update_prompt and add_prompt).                   *)
(*                                                                         *)
(* A call reads the prompt, reads the prompt to demote, and then saves     *)
(* both in one transaction: whole rows, from the copies it has read. Calls *)
(* run side by side, so a copy may be stale when it is saved. That audits  *)
(* read the active prompts meanwhile is in AuditLifecycle, whose           *)
(* UpdatePrompt is a call of this module that overlaps no other.           *)
(***************************************************************************)
EXTENDS Naturals, Sequences, FiniteSets

CONSTANTS
    Calls,    \* the calls of PATCH /admin/prompt/{id} and POST /admin/prompt
    Tags,     \* the tags of prompts
    Old,      \* the content and version of the prompts that were there before
    First,    \* what the Prompt table may hold at the start
    None      \* a field that a body does not give

ASSUME NoneAssumption == None \notin Tags /\ None \notin BOOLEAN
ASSUME OldAssumption == Old \notin Calls
ASSUME FirstAssumption ==
    First \subseteq Seq([tag : Tags, content : {Old}, active : BOOLEAN])

VARIABLES
    prompt,   \* the Prompt table in the order of created_at: a row's id is its place
    call,     \* what a call holds in memory
    crossed,  \* history: the calls during which another one saved
    wrote,    \* history: the content that was last sent for a prompt
    torn,     \* history: prompts that a call that was crossed has saved
    tidy      \* history: tags that were only released to, see Tidy

vars == <<prompt, call, crossed, wrote, torn, tidy>>

\* A content, with its version, stands for the call that sends it.
Contents == Calls \cup {Old}
Prompt   == [tag : Tags, content : Contents, active : BOOLEAN]
NoPrompt == [tag |-> None, content |-> Old, active |-> FALSE]
Ids      == DOMAIN prompt

\* What UpdatePromptBody may say: every field is optional, and `edits` is
\* whether it brings a content or a version.
UpdateBodies == [active : BOOLEAN \cup {None}, edits : BOOLEAN, tag : Tags \cup {None}]
Nothing      == [active |-> None, edits |-> FALSE, tag |-> None]
\* What CreatePromptBody may say: tag and content are there.
CreateBodies == [active : BOOLEAN \cup {None}, edits : {TRUE}, tag : Tags]

\* `id` is the prompt to update, or 0 for a new one; `held` and `demoted` are
\* the rows the call has read, `demotes` the id of the second or 0.
Idle == [at |-> "none", id |-> 0, body |-> Nothing, held |-> NoPrompt,
         demotes |-> 0, demoted |-> NoPrompt]

Init ==
    /\ prompt \in First
    /\ call = [c \in Calls |-> Idle]
    /\ crossed = {}
    /\ wrote = [i \in Ids |-> Old]
    /\ torn = {}
    /\ tidy = {t \in Tags : \A i, j \in Ids :
                 prompt[i].tag = t /\ prompt[j].tag = t /\ prompt[i].active => j <= i}

(***************************************************************************)
(* The two reads.                                                          *)
(***************************************************************************)

\* update_prompt reads the prompt. A body that says nothing returns at once,
\* and an id that does not exist raises: neither goes any further.
ReadPrompt(c) ==
    /\ call[c].at = "none"
    /\ \E i \in Ids, b \in UpdateBodies \ {Nothing} :
        call' = [call EXCEPT ![c] =
                   [Idle EXCEPT !.id = i, !.body = b, !.held = prompt[i],
                                !.at = IF b.active = TRUE /\ ~prompt[i].active
                                         THEN "demote" ELSE "save"]]
    /\ UNCHANGED <<prompt, crossed, wrote, torn, tidy>>

\* add_prompt makes a prompt that is not in the table yet, inactive unless the
\* body says otherwise. Only an active one demotes another.
NewPrompt(c) ==
    /\ call[c].at = "none"
    /\ \E b \in CreateBodies :
        call' = [call EXCEPT ![c] =
                   [Idle EXCEPT !.body = b,
                                !.held = [tag |-> b.tag, content |-> c,
                                          active |-> b.active = TRUE],
                                !.at = IF b.active = TRUE THEN "demote" ELSE "save"]]
    /\ UNCHANGED <<prompt, crossed, wrote, torn, tidy>>

\* Mutant of Others: the tag is not looked at.
OthersOfAnyTag(c) == {i \in Ids : i # call[c].id}

\* The other prompts of the tag the prompt has, active or not.
Others(c) == {i \in Ids : i # call[c].id /\ prompt[i].tag = call[c].held.tag}

\* Mutant of Demotes: created_at without the minus.
DemotesOldest(c, i) == i \in Others(c) /\ \A j \in Others(c) : i <= j

\* order_by("-created_at").first()
Demotes(c, i) == i \in Others(c) /\ \A j \in Others(c) : j <= i

\* The newest other prompt of the tag is read, and will be saved inactive.
FindDemoted(c) ==
    /\ call[c].at = "demote"
    /\ \/ \E i \in Ids :
            /\ Demotes(c, i)
            /\ call' = [call EXCEPT ![c].at = "save", ![c].demotes = i,
                          ![c].demoted = [prompt[i] EXCEPT !.active = FALSE]]
       \/ /\ Others(c) = {}
          /\ call' = [call EXCEPT ![c].at = "save"]
    /\ UNCHANGED <<prompt, crossed, wrote, torn, tidy>>

(***************************************************************************)
(* The transaction.                                                        *)
(***************************************************************************)

\* Mutant of Edited: the tag of the body is taken without a look at it.
EditedRaw(c) ==
    [tag     |-> call[c].body.tag,
     content |-> IF call[c].body.edits THEN c ELSE call[c].held.content,
     active  |-> call[c].body.active = TRUE]

\* The prompt with the fields the body gives. An added prompt has them already.
Edited(c) ==
    LET b == call[c].body
        p == call[c].held
    IN  [tag     |-> IF b.tag # None THEN b.tag ELSE p.tag,
         content |-> IF b.edits THEN c ELSE p.content,
         active  |-> IF b.active # None THEN b.active ELSE p.active]

\* The id the saved prompt has: an added one is the newest.
Saved(c) == IF call[c].id = 0 THEN Len(prompt) + 1 ELSE call[c].id

\* Mutant of NewTable: the prompt is saved only when there is none to demote.
NewTableDemotedOnly(c) ==
    [i \in Ids \cup {Saved(c)} |->
        IF i = call[c].demotes THEN call[c].demoted
        ELSE IF i = Saved(c) /\ (call[c].demotes = 0 \/ i \notin Ids) THEN Edited(c)
        ELSE prompt[i]]

\* prompt.save(), then prompt_demote.save(): every column of both rows.
NewTable(c) ==
    [i \in Ids \cup {Saved(c)} |->
        IF i = call[c].demotes THEN call[c].demoted
        ELSE IF i = Saved(c) THEN Edited(c)
        ELSE prompt[i]]

InFlight == {c \in Calls : call[c].at \in {"demote", "save"}}

\* What keeps a tag tidy: a new active prompt (a release), an edit of content
\* or version, and a deactivation, by calls that nobody crossed.
Tidy(c) ==
    /\ c \notin crossed
    /\ IF call[c].id = 0 THEN call[c].body.active = TRUE
                         ELSE call[c].body.tag = None /\ call[c].demotes = 0
                              /\ (call[c].body.active = TRUE => call[c].held.active)

\* The tags of the rows the call saves, before and after.
Touched(c) ==
    {Edited(c).tag, call[c].held.tag, call[c].demoted.tag}
        \cup {prompt[i].tag : i \in Ids \cap {call[c].id, call[c].demotes}}

Save(c) ==
    /\ call[c].at = "save"
    /\ prompt' = NewTable(c)
    /\ call' = [call EXCEPT ![c] = [Idle EXCEPT !.at = "over"]]
    /\ crossed' = crossed \cup (InFlight \ {c})
    /\ wrote' = [i \in DOMAIN NewTable(c) |->
                    IF i = Saved(c) /\ call[c].body.edits THEN c ELSE wrote[i]]
    /\ torn' = IF c \in crossed THEN torn \cup {Saved(c), call[c].demotes} ELSE torn
    /\ tidy' = IF Tidy(c) THEN tidy ELSE tidy \ Touched(c)

\* A database call raises or the API stops: the transaction saves nothing, and
\* the route answers 400 or 500.
Fail(c) ==
    /\ call[c].at \in {"demote", "save"}
    /\ call' = [call EXCEPT ![c] = [Idle EXCEPT !.at = "over"]]
    /\ UNCHANGED <<prompt, crossed, wrote, torn, tidy>>

-----------------------------------------------------------------------------
Next == \E c \in Calls :
            ReadPrompt(c) \/ NewPrompt(c) \/ FindDemoted(c) \/ Save(c) \/ Fail(c)

Spec == Init /\ [][Next]_vars
-----------------------------------------------------------------------------
TypeOK ==
    /\ prompt \in Seq(Prompt)
    /\ \A c \in Calls :
        /\ call[c].at \in {"none", "demote", "save", "over"}
        /\ call[c].id \in Ids \cup {0}
        /\ call[c].body \in UpdateBodies
        /\ call[c].held \in Prompt \cup {NoPrompt}
        /\ call[c].demotes \in Ids \cup {0}
        /\ call[c].demoted \in Prompt \cup {NoPrompt}
    /\ crossed \in SUBSET Calls
    /\ wrote \in [Ids -> Contents]
    /\ torn \subseteq Ids \cup {0}
    /\ tidy \in SUBSET Tags

Active(t) == {i \in Ids : prompt[i].tag = t /\ prompt[i].active}

\* No step leaves a tag that had an active prompt without one, which would take
\* its candidate out of every audit, unless the body of that call asked for it
\* (is_active false, or another tag), or the call was crossed and saved rows it
\* had read before. What update_prompt demotes is made up for by what it
\* activates, in the same transaction.
NoTagGoesDark ==
    [][\A t \in Tags : Active(t) # {} /\ Active(t)' = {} =>
          \E c \in Calls :
            /\ call[c].at = "save" /\ call'[c].at = "over"
            /\ \/ c \in crossed
               \/ call[c].id # 0 /\ (call[c].body.active = FALSE \/ call[c].body.tag # None)]_vars

\* One prompt of a tag at most is active, as long as the tag was only released
\* to: by new active prompts, edits and deactivations that did not overlap.
\* (Activating an old prompt, adding an inactive one or moving one to the tag
\* may leave two: the demoted prompt is the newest other one, active or not.)
OneActiveByRelease == \A t \in tidy : Cardinality(Active(t)) <= 1

\* The content and version last sent for a prompt stand, whoever demotes or
\* edits the prompt later, unless a call that was crossed saved the row.
EditsStand == \A i \in Ids \ torn : prompt[i].content = wrote[i]

=============================================================================
