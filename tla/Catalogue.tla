------------------------------ MODULE Catalogue ------------------------------
(***************************************************************************)
(* What the API server (src/go/api) promises of its models and groups,     *)
(* with nothing said of statements, locks, dialogs, errors or crashes:     *)
(* AddModel and UpdateModelTypes happen at once or not at all, a name is   *)
(* given to one model for good, and a group gets the model added to those  *)
(* it lists.  Only of a group that two calls had in hand at once may the   *)
(* list be another than one call after the other would make it.            *)
(***************************************************************************)
CONSTANTS Models, Topics,
          AllNames,   \* names a model may have
          NoName      \* that of a model without a row

VARIABLES groups,     \* topics with a row in model_group
          members,    \* [Topics -> SUBSET Models]: the models a group lists
          nameOf,     \* [Models -> AllNames \cup {NoName}]
          tags,       \* [Models -> SUBSET Topics]: the groups a model names
          raced       \* topics that two calls had in hand at once

catalogueVars == <<groups, members, nameOf, tags, raced>>

\* Groups without a row are empty, and the models that are listed have one.
CatalogueInit == /\ groups \subseteq Topics
                 /\ \A t \in Topics \ groups : members[t] = {}
                 /\ \A t \in Topics : \A m \in members[t] : nameOf[m] # NoName
                 /\ raced = {}

\* The groups ts get the model m, and m their topics for tags.
Enter(m, ts) ==
  /\ groups' = groups \cup ts
  /\ tags' = [tags EXCEPT ![m] = ts]
  /\ \A t \in Topics \ ts : members'[t] = members[t]
  /\ \A t \in ts \ raced : members'[t] = members[t] \cup {m}
  /\ \A t \in ts \cap raced : /\ m \in members'[t]
                              /\ \A x \in members'[t] : nameOf'[x] # NoName
  /\ raced \subseteq raced' /\ raced' \subseteq raced \cup ts

\* A new model, under a name that is free.
Register(m, n, ts) == /\ nameOf[m] = NoName
                      /\ \A x \in Models : nameOf[x] # n
                      /\ nameOf' = [nameOf EXCEPT ![m] = n]
                      /\ Enter(m, ts)

\* More groups for a model that is there.
Assign(m, ts) == /\ nameOf[m] # NoName
                 /\ UNCHANGED nameOf
                 /\ Enter(m, ts)

CatalogueNext == \E m \in Models, ts \in (SUBSET Topics) \ {{}} :
                   \/ Assign(m, ts)
                   \/ \E n \in AllNames : Register(m, n, ts)

OneAtATime == CatalogueInit /\ [][CatalogueNext]_catalogueVars
=============================================================================
