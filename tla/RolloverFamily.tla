--------------------------- MODULE RolloverFamily ---------------------------
(* The index families of ops_index_mgmt.  A setup script puts the ISM       *)
(* policy, an index template per alias and the first backing index of each; *)
(* hitachi_idp_ver_new_field.py adds a field to what is there; ISM rolls    *)
(* over and deletes; writers ingest through the alias under ids made from   *)
(* the record.  Scripts are run by hand, from checkouts of either release:  *)
(* the second declares one field more, which must not be parsed.            *)
(* OpenSearch is external: an id is unique in an index, a policy that       *)
(* exists is not overwritten (hitachi_idp_ver_new_field.py:5-6).            *)
EXTENDS Naturals, Sequences, FiniteSets

CONSTANTS
  Scripts,    \* runs of a script
  Events,     \* the ids of what is ingested
  RollDocs,   \* min_doc_count of the rollover
  LastIndex   \* bound on the suffix of a backing index

ASSUME FamilyAssumption ==
  IsFiniteSet(Events) /\ RollDocs \in Nat \ {0} /\ LastIndex \in Nat \ {0}

VARIABLES
  family,     \* the setup script of the family
  policy,     \* its ISM policy exists
  template,   \* template[a]: the release whose mappings it carries, 0 without
  head,       \* head[a]: suffix of the write index, 0 without the alias
  field,      \* field[a][k]: the later field in the mapping of an index
  kept,       \* kept[a][k]: the ids in an index
  managed,    \* managed[a]: the indices that the policy is attached to
  squatter,   \* squatter[a]: an index has the name of the alias
  plan,       \* plan[s]: the requests script s has still to send
  release,    \* release[s]: the checkout it runs from
  state,      \* state[s]
  told        \* history: the later field has been added

store == <<policy, template, head, field, kept, managed, squatter>>
scripts == <<plan, release, state>>
familyVars == <<family, store, scripts, told>>

-----------------------------------------------------------------------------
(* The jobs: how many aliases share the policy, by what it rolls over, and  *)
(* whether there is a script that adds a field.                             *)

SemMsrInfo == [aliases |-> 1..2, rolls |-> {"age"}, adds |-> FALSE]
IdpVer == [aliases |-> 1..2, rolls |-> {"docs"}, adds |-> TRUE]
BeamReso == [aliases |-> 1..2, rolls |-> {"docs"}, adds |-> FALSE]
EbeamTasLotHist == [aliases |-> 1..1, rolls |-> {"docs", "age"}, adds |-> FALSE]
FabInformNotes == [aliases |-> 1..1, rolls |-> {"docs"}, adds |-> FALSE]
ToolMaintenancePlan == [aliases |-> 1..1, rolls |-> {"docs"}, adds |-> FALSE]
NetworkFdc == [aliases |-> 1..1, rolls |-> {"docs"}, adds |-> FALSE]
SharpnessMonitor == [aliases |-> 1..1, rolls |-> {"docs"}, adds |-> FALSE]

Families == {SemMsrInfo, IdpVer, BeamReso, EbeamTasLotHist, FabInformNotes,
            ToolMaintenancePlan, NetworkFdc, SharpnessMonitor}

Aliases == 1..2
Suffixes == 1..LastIndex

Request(do, a) == [do |-> do, of |-> a]

\* One request for each alias, in their order.
ForEach(do) == [a \in family.aliases |-> Request(do, a)]

\* setup_*: policy, templates, indices.
Setup == <<Request("policy", 0)>> \o ForEach("template") \o ForEach("look")

\* Mutant: the live indices before the templates.
AddFieldLiveFirst == ForEach("mapping") \o ForEach("template")

\* add_new_field: templates, then live indices.
AddField == ForEach("template") \o ForEach("mapping")

FamilyInit ==
  /\ family \in Families
  /\ policy = FALSE
  /\ template = [a \in Aliases |-> 0]
  /\ head = [a \in Aliases |-> 0]
  /\ field = [a \in Aliases |-> [k \in Suffixes |-> "none"]]
  /\ kept = [a \in Aliases |-> [k \in Suffixes |-> {}]]
  /\ managed = [a \in Aliases |-> {}]
  /\ squatter = [a \in Aliases |-> FALSE]
  /\ plan = [s \in Scripts |-> <<>>]
  /\ release = [s \in Scripts |-> 1]
  /\ state = [s \in Scripts |-> "idle"]
  /\ told = FALSE

-----------------------------------------------------------------------------
(* What a request does *)

LiveIndices(a) == {k \in Suffixes : field[a][k] # "none"}
Declares(r) == IF r = 2 THEN "declared" ELSE "absent"

\* A backing index comes to be, behind the alias, with the mapping of
\* release r; ISM attaches the policy then or never.
NewIndex(a, k, r) ==
  /\ head' = [head EXCEPT ![a] = k]
  /\ field' = [field EXCEPT ![a][k] = Declares(r)]
  /\ managed' = [managed EXCEPT ![a] = IF policy THEN @ \cup {k} ELSE @]

PutPolicy(s) ==
  /\ ~policy /\ policy' = TRUE
  /\ UNCHANGED <<template, head, field, kept, managed, squatter>>

PutTemplate(s, a) ==
  /\ template' = [template EXCEPT ![a] = release[s]]
  /\ UNCHANGED <<policy, head, field, kept, managed, squatter>>

\* put_mapping on an alias goes to every index behind it, and is refused
\* where the field has been parsed.
PutMapping(a) ==
  /\ head[a] # 0 /\ \A k \in Suffixes : field[a][k] # "parsed"
  /\ field' = [field EXCEPT ![a] =
       [k \in Suffixes |-> IF k \in LiveIndices(a) THEN "declared" ELSE "none"]]
  /\ UNCHANGED <<policy, template, head, kept, managed, squatter>>

\* ensure_rollover_index sends create if it has found neither alias nor index.
Create(s, a) ==
  /\ head[a] = 0 /\ ~squatter[a] /\ field[a][1] = "none"
  /\ NewIndex(a, 1, release[s])
  /\ UNCHANGED <<policy, template, kept, squatter>>

\* The request takes effect.
Effect(s, r) ==
  \/ r.do = "policy" /\ PutPolicy(s)
  \/ r.do = "template" /\ PutTemplate(s, r.of)
  \/ r.do = "mapping" /\ PutMapping(r.of)
  \/ r.do = "create" /\ Create(s, r.of)

\* OpenSearch refuses it.
Refused(r) ==
  \/ r.do = "policy" /\ policy
  \/ r.do = "mapping" /\ (head[r.of] = 0 \/ \E k \in Suffixes : field[r.of][k] = "parsed")
  \/ r.do = "create" /\ (head[r.of] # 0 \/ squatter[r.of])

-----------------------------------------------------------------------------
(* A script *)

Proceed(s, next) ==
  /\ plan' = [plan EXCEPT ![s] = next]
  /\ state' = [state EXCEPT ![s] = IF next = <<>> THEN "returned" ELSE @]

Raise(s) ==
  /\ plan' = [plan EXCEPT ![s] = <<>>]
  /\ state' = [state EXCEPT ![s] = "raised"]

StartSetup(s) ==
  /\ state[s] = "idle"
  /\ plan' = [plan EXCEPT ![s] = Setup]
  /\ state' = [state EXCEPT ![s] = "setup"]
  /\ \E r \in {1, 2} : release' = [release EXCEPT ![s] = r]
  /\ UNCHANGED <<family, store, told>>

\* "The base setup script already ran long ago" (hitachi_idp_ver_new_field.py).
StartAdding(s) ==
  /\ state[s] = "idle" /\ family.adds
  /\ \E t \in Scripts : state[t] = "returned" /\ release[t] = 1
  /\ plan' = [plan EXCEPT ![s] = AddField]
  /\ state' = [state EXCEPT ![s] = "adding"]
  /\ release' = [release EXCEPT ![s] = 2]
  /\ UNCHANGED <<family, store, told>>

Send(s) ==
  /\ plan[s] # <<>> /\ Head(plan[s]).do # "look"
  /\ Effect(s, Head(plan[s]))
  /\ Proceed(s, Tail(plan[s]))
  /\ told' = (told \/ (state[s] = "adding" /\ Tail(plan[s]) = <<>>))
  /\ UNCHANGED <<family, release>>

Denied(s) ==
  /\ plan[s] # <<>> /\ Refused(Head(plan[s]))
  /\ Raise(s)
  /\ UNCHANGED <<family, store, release, told>>

\* ensure_rollover_index looks for the alias, then for the index.
Look(s) ==
  /\ plan[s] # <<>> /\ Head(plan[s]).do = "look"
  /\ LET a == Head(plan[s]).of IN
     \/ /\ head[a] # 0
        /\ Proceed(s, Tail(plan[s]))
     \/ /\ head[a] = 0 /\ (squatter[a] \/ field[a][1] # "none")
        /\ Raise(s)
     \/ /\ head[a] = 0 /\ ~squatter[a] /\ field[a][1] = "none"
        /\ Proceed(s, <<Request("create", a)>> \o Tail(plan[s]))
  /\ UNCHANGED <<family, store, release, told>>

\* The last try of a request fails; an earlier one may have had its effect.
Fails(s) ==
  /\ plan[s] # <<>>
  /\ UNCHANGED store \/ Effect(s, Head(plan[s]))
  /\ Raise(s)
  /\ UNCHANGED <<family, release, told>>

Script(s) ==
  StartSetup(s) \/ StartAdding(s) \/ Send(s) \/ Denied(s) \/ Look(s) \/ Fails(s)

-----------------------------------------------------------------------------
(* ISM and the writers *)

RollsOver(a) ==
  /\ head[a] \in managed[a] /\ head[a] < LastIndex
  /\ "age" \in family.rolls \/ Cardinality(kept[a][head[a]]) >= RollDocs
  /\ NewIndex(a, head[a] + 1, template[a])
  /\ UNCHANGED <<family, policy, template, kept, squatter, scripts, told>>

Expires(a) ==
  /\ \E k \in managed[a] \ {head[a]} :
       /\ field' = [field EXCEPT ![a][k] = "none"]
       /\ kept' = [kept EXCEPT ![a][k] = {}]
       /\ managed' = [managed EXCEPT ![a] = @ \ {k}]
  /\ UNCHANGED <<family, policy, template, head, squatter, scripts, told>>

\* A bulk item through the alias, under its composite id: "create" refuses
\* an id of the write index (409), "index" overwrites it.  What is ingested
\* may have the later field once that has been added, and not before.
Ingest(a, e) ==
  /\ head[a] # 0
  /\ \E op \in {"create", "index"} : op = "create" => e \notin kept[a][head[a]]
  /\ kept' = [kept EXCEPT ![a][head[a]] = @ \cup {e}]
  /\ \/ UNCHANGED field
     \/ told /\ field' = [field EXCEPT ![a][head[a]] = IF @ = "absent" THEN "parsed" ELSE @]
  /\ UNCHANGED <<family, policy, template, head, managed, squatter, scripts, told>>

\* Without the alias, a write makes an index of that name.
Squat(a) ==
  /\ a \in family.aliases /\ head[a] = 0 /\ ~squatter[a]
  /\ squatter' = [squatter EXCEPT ![a] = TRUE]
  /\ UNCHANGED <<family, policy, template, head, field, kept, managed, scripts, told>>

FamilyNext ==
  \/ \E s \in Scripts : Script(s)
  \/ \E a \in Aliases :
       RollsOver(a) \/ Expires(a) \/ Squat(a) \/ \E e \in Events : Ingest(a, e)

FamilySpec == FamilyInit /\ [][FamilyNext]_familyVars

-----------------------------------------------------------------------------
(* Properties *)

\* Whatever writers, rollovers, failures and other scripts come in between:
\* a setup that returns leaves every alias with a write index that ISM
\* manages, and so will roll over and delete; and a field added by
\* add_new_field ahead of the first document that has it is never parsed, in
\* no index now or later, a setup from an old checkout notwithstanding.
FamilySound ==
  /\ \A s \in Scripts : state[s] = "returned" =>
       \A a \in family.aliases : head[a] \in managed[a]
  /\ \A a \in Aliases, k \in Suffixes : field[a][k] # "parsed"
=============================================================================
