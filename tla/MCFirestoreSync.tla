-------------------------- MODULE MCFirestoreSync --------------------------
(* Keys, documents and patches for the runs of FirestoreSync.              *)
EXTENDS FirestoreSync, TLC

CONSTANTS fieldA, fieldB, valueA, valueB   \* fields and values

\* The document of a user.
UserKey == [kind |-> "doc", doc |-> 1]
UserOnly == {UserKey}

\* The newest review of a target, and all of them.
RecentReviews == [kind |-> "query", docs |-> {1, 2}, field |-> fieldA, value |-> valueA,
                  limit |-> 1]
AllReviews == [RecentReviews EXCEPT !.limit = 0]
ReviewKeys == {RecentReviews, AllReviews}

\* A document that is also found by two queries on different fields: one map
\* holds two listeners, and the document leaves the results of one query while
\* the other listeners go on to report it.
QueryBy(f) == [kind |-> "query", docs |-> {1}, field |-> f, value |-> valueA, limit |-> 0]
SharedKeys == {UserKey, QueryBy(fieldA), QueryBy(fieldB)}

\* A document as it is created, found by all of these queries.
NewDocument == [f \in Field |-> valueA]
NewDocuments == {NewDocument}

\* updatePosting sends the whole object; updateUser and updateConversation
\* send some of its fields.
WholePatch == [f \in Field |-> IF f = fieldA THEN valueB ELSE valueA]
PartialPatch == [f \in Field |-> IF f = fieldA THEN valueA ELSE NoValue]
WholePatches == {WholePatch}
PartialPatches == {PartialPatch}
AllPatches == {WholePatch, PartialPatch}
=============================================================================
