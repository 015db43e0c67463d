-------------------------- MODULE SpeakerProfiles --------------------------
(***************************************************************************)
(* Speaker profiles in the storage service: known voices with a name, the  *)
(* links of a meeting's segments to them, and the embeddings of clusters   *)
(* nobody has named yet.                                                   *)
(*                                                                         *)
(* As in MeetingStore, a handler reads the database as committed at that   *)
(* moment and then writes in one transaction.  Labelling and merging rely  *)
(* on what they have read, so their reads are steps of their own.  One     *)
(* meeting stands for all: cluster labels belong to a meeting, profiles to *)
(* none.                                                                   *)
(***************************************************************************)
CONSTANTS
  Profiles,    \* ids (uuid4: never used twice)
  Names,
  NoName,      \* no profile has this id now
  Segments,    \* segment ids of the meeting
  Clusters,    \* speaker_cluster_label
  NoCluster,   \* it is NULL
  NoProfile,   \* speaker_profile_id is NULL
  Unborn,      \* history: the id has not been given out
  Labels,      \* POST .../label requests in flight at the same time
  Merges       \* POST .../merge requests in flight at the same time

ASSUME SpeakerAssumption ==
  /\ NoName \notin Names
  /\ NoCluster \notin Clusters
  /\ NoProfile \notin Profiles /\ Unborn \notin Profiles /\ Unborn # NoProfile

VARIABLES
  meeting,   \* does the meeting exist
  rows,      \* its segments
  cluster,   \* Segment.speaker_cluster_label
  owner,     \* Segment.speaker_profile_id
  name,      \* SpeakerProfile.name
  pending,   \* clusters with a row in unmatched_cluster_embeddings
  label,     \* the requests in label_speaker_in_meeting
  merge,     \* the requests in merge_speaker_profiles
  heir,      \* history: what a profile has become by merges
  tag        \* history: the profile a segment was given by a request

segmentVars == <<meeting, rows, cluster>>
requestVars == <<label, merge>>
vars == <<segmentVars, owner, name, pending, requestVars, heir, tag>>

-----------------------------------------------------------------------------

\* A label request after its reads.  insert: nobody has the name; reread: the
\* INSERT found that somebody has it now; link: a profile has the name.
Request(pc, c, n, p) == [pc |-> pc, cluster |-> c, name |-> n, profile |-> p]

NoLabel == Request("idle", NoCluster, NoName, NoProfile)

Label ==
  {NoLabel}
    \cup [pc : {"insert", "reread"}, cluster : Clusters, name : Names,
          profile : {NoProfile}]
    \cup [pc : {"link"}, cluster : Clusters, name : Names, profile : Profiles]

Merge == [pc : {"idle", "read"}, winner : Profiles \cup {NoProfile},
          loser : Profiles \cup {NoProfile}]

TypeOK ==
  /\ meeting \in BOOLEAN
  /\ rows \in SUBSET Segments
  /\ cluster \in [Segments -> Clusters \cup {NoCluster}]
  /\ owner \in [Segments -> Profiles \cup {NoProfile}]
  /\ name \in [Profiles -> Names \cup {NoName}]
  /\ pending \in SUBSET Clusters
  /\ label \in [Labels -> Label]
  /\ merge \in [Merges -> Merge]
  /\ heir \in [Profiles -> Profiles \cup {NoProfile, Unborn}]
  /\ tag \in [Segments -> Profiles \cup {NoProfile}]

NoMerge == [pc |-> "idle", winner |-> NoProfile, loser |-> NoProfile]

Live(p) == p \in Profiles /\ name[p] # NoName

\* get_by_name.
Named(n) == {p \in Profiles : name[p] = n}

\* The segments UPDATE finds for a cluster.
SegmentsOf(c) == {s \in rows : cluster[s] = c}

Init ==
  /\ meeting = FALSE
  /\ rows = {}
  /\ cluster = [s \in Segments |-> NoCluster]
  /\ owner = [s \in Segments |-> NoProfile]
  /\ name = [p \in Profiles |-> NoName]
  /\ pending = {}
  /\ label = [l \in Labels |-> NoLabel]
  /\ merge = [k \in Merges |-> NoMerge]
  /\ heir = [p \in Profiles |-> Unborn]
  /\ tag = [s \in Segments |-> NoProfile]

-----------------------------------------------------------------------------
(* The meeting and its segments.                                           *)

CreateMeeting ==
  /\ ~meeting
  /\ meeting' = TRUE
  /\ UNCHANGED <<rows, cluster, owner, name, pending, requestVars, heir, tag>>

\* The segments go with it, and by ON DELETE CASCADE the embeddings.
DeleteMeeting ==
  /\ meeting
  /\ meeting' = FALSE
  /\ rows' = {}
  /\ cluster' = [s \in Segments |-> NoCluster]
  /\ owner' = [s \in Segments |-> NoProfile]
  /\ tag' = [s \in Segments |-> NoProfile]
  /\ pending' = {}
  /\ UNCHANGED <<name, requestVars, heir>>

\* A batch of segments, which may set either speaker field or leave it as it
\* is.  The profile is one that a match named some time ago; if it is gone
\* the foreign key fails and nothing is written.
UploadSegments(S) ==
  /\ meeting
  /\ S # {}
  /\ rows' = rows \cup S
  /\ \/ UNCHANGED cluster
     \/ \E c \in Clusters \cup {NoCluster} :
          cluster' = [s \in Segments |-> IF s \in S THEN c ELSE cluster[s]]
  /\ \/ UNCHANGED <<owner, tag>>
     \/ \E p \in Profiles \cup {NoProfile} :
          /\ p = NoProfile \/ Live(p)
          /\ owner' = [s \in Segments |-> IF s \in S THEN p ELSE owner[s]]
          /\ tag' = [s \in Segments |-> IF s \in S THEN p ELSE tag[s]]
  /\ UNCHANGED <<meeting, name, pending, requestVars, heir>>

\* put_cluster_embedding.
PutEmbedding(c) ==
  /\ meeting
  /\ pending' = pending \cup {c}
  /\ UNCHANGED <<segmentVars, owner, name, requestVars, heir, tag>>

-----------------------------------------------------------------------------
(* Profiles.                                                               *)

\* The unique key on the name lets an INSERT or UPDATE through.
NameFree(n) == Named(n) = {}

CreateProfile(n) ==
  /\ NameFree(n)
  /\ \E p \in Profiles :
       /\ heir[p] = Unborn
       /\ name' = [name EXCEPT ![p] = n]
       /\ heir' = [heir EXCEPT ![p] = p]
  /\ UNCHANGED <<segmentVars, owner, pending, requestVars, tag>>

RenameProfile(p, n) ==
  /\ Live(p)
  /\ NameFree(n)
  /\ name' = [name EXCEPT ![p] = n]
  /\ UNCHANGED <<segmentVars, owner, pending, requestVars, heir, tag>>

\* ON DELETE SET NULL.
Unlinked(o, p) == [s \in Segments |-> IF o[s] = p THEN NoProfile ELSE o[s]]

\* All that profile p has become now becomes q.
Inherited(p, q) == [r \in Profiles |-> IF heir[r] = p THEN q ELSE heir[r]]

DeleteProfile(p) ==
  /\ Live(p)
  /\ name' = [name EXCEPT ![p] = NoName]
  /\ owner' = Unlinked(owner, p)
  /\ heir' = Inherited(p, NoProfile)
  /\ UNCHANGED <<segmentVars, pending, requestVars, tag>>

-----------------------------------------------------------------------------
(* label_speaker_in_meeting.                                               *)

\* A profile with the name is there.
LabelFinds(l, c, n, p) ==
  /\ label[l].pc = "idle"
  /\ meeting
  /\ p \in Named(n)
  /\ label' = [label EXCEPT ![l] = Request("link", c, n, p)]
  /\ UNCHANGED <<segmentVars, owner, name, pending, merge, heir, tag>>

\* The name is new; the embedding comes with the request (`own`) or waits in
\* the database.  (With neither the request ends here: 422.)
LabelFindsNobody(l, c, n, own) ==
  /\ label[l].pc = "idle"
  /\ meeting
  /\ Named(n) = {}
  /\ own \/ c \in pending
  /\ label' = [label EXCEPT ![l] = Request("insert", c, n, NoProfile)]
  /\ UNCHANGED <<segmentVars, owner, name, pending, merge, heir, tag>>

\* The INSERT runs into the unique key: rollback.
LabelConflicts(l) ==
  /\ label[l].pc = "insert"
  /\ ~NameFree(label[l].name)
  /\ label' = [label EXCEPT ![l].pc = "reread"]
  /\ UNCHANGED <<segmentVars, owner, name, pending, merge, heir, tag>>

\* What the second get_by_name yields.
Reread(n) == Named(n)

\* get_by_name again: the other one's profile, or it is gone again (409).
LabelRereads(l) ==
  /\ label[l].pc = "reread"
  /\ LET c == label[l].cluster
         n == label[l].name IN
     \/ \E p \in Reread(n) : label' = [label EXCEPT ![l] = Request("link", c, n, p)]
     \/ Named(n) = {} /\ label' = [label EXCEPT ![l] = NoLabel]
  /\ UNCHANGED <<segmentVars, owner, name, pending, merge, heir, tag>>

\* Mutant: a cluster without segments is not an error.
Linkable_Always(c) == TRUE

\* linked == 0 is an error, and rolls back.
Linkable(c) == SegmentsOf(c) # {}

\* The segments of the cluster now refer to p; its embedding is used up.
LinksTo(l, p) ==
  /\ Linkable(label[l].cluster)
  /\ LET S == SegmentsOf(label[l].cluster) IN
     /\ owner' = [s \in Segments |-> IF s \in S THEN p ELSE owner[s]]
     /\ tag' = [s \in Segments |-> IF s \in S THEN p ELSE tag[s]]
  /\ pending' = pending \ {label[l].cluster}
  /\ label' = [label EXCEPT ![l] = NoLabel]
  /\ UNCHANGED <<segmentVars, merge>>

LabelCreates(l) ==
  /\ label[l].pc = "insert"
  /\ NameFree(label[l].name)
  /\ \E p \in Profiles :
       /\ heir[p] = Unborn
       /\ name' = [name EXCEPT ![p] = label[l].name]
       /\ heir' = [heir EXCEPT ![p] = p]
       /\ LinksTo(l, p)

\* The foreign key refuses a profile that has gone since it was read.
LabelLinks(l) ==
  /\ label[l].pc = "link"
  /\ Live(label[l].profile)
  /\ LinksTo(l, label[l].profile)
  /\ UNCHANGED <<name, heir>>

LabelFails(l) ==
  /\ \/ label[l].pc = "insert" /\ NameFree(label[l].name)
     \/ label[l].pc = "link"
  /\ \/ ~Linkable(label[l].cluster)
     \/ label[l].pc = "link" /\ ~Live(label[l].profile)
  /\ label' = [label EXCEPT ![l] = NoLabel]
  /\ UNCHANGED <<segmentVars, owner, name, pending, merge, heir, tag>>

-----------------------------------------------------------------------------
(* merge_speaker_profiles.                                                 *)

\* Winner and loser are read.  If the loser is gone nothing happens.
MergeReads(k, w, l) ==
  /\ merge[k].pc = "idle"
  /\ w # l
  /\ Live(w) /\ Live(l)
  /\ merge' = [merge EXCEPT ![k] = [pc |-> "read", winner |-> w, loser |-> l]]
  /\ UNCHANGED <<segmentVars, owner, name, pending, label, heir, tag>>

\* Mutant: the segments are moved after the DELETE.
Reassigned_TooLate(o, l, w) == o

\* reassign_speaker_profile.
Reassigned(o, l, w) == [s \in Segments |-> IF o[s] = l THEN w ELSE o[s]]

\* The foreign key looks at the winner only if a segment is moved to it.
MayMerge(w, l) == Live(w) \/ \A s \in Segments : owner[s] # l

\* Mutant: winner and loser are swapped in the DELETE.
Discarded_Winner(w, l) == w

\* The row the DELETE is about.
Discarded(w, l) == l

\* The segments go to the winner, then the loser is deleted; both tolerate
\* that another request has done it before.
MergeCommits(k) ==
  LET w == merge[k].winner
      l == merge[k].loser IN
  /\ merge[k].pc = "read"
  /\ MayMerge(w, l)
  /\ LET gone == Discarded(w, l) IN
     /\ owner' = Unlinked(Reassigned(owner, l, w), gone)
     /\ name' = [name EXCEPT ![gone] = NoName]
  /\ heir' = Inherited(l, heir[w])
  /\ merge' = [merge EXCEPT ![k] = NoMerge]
  /\ UNCHANGED <<segmentVars, pending, label, tag>>

MergeFails(k) ==
  /\ merge[k].pc = "read"
  /\ ~MayMerge(merge[k].winner, merge[k].loser)
  /\ merge' = [merge EXCEPT ![k] = NoMerge]
  /\ UNCHANGED <<segmentVars, owner, name, pending, label, heir, tag>>

-----------------------------------------------------------------------------

LabelStep(l) ==
  \/ \E c \in Clusters, n \in Names :
       \/ \E p \in Profiles : LabelFinds(l, c, n, p)
       \/ \E own \in BOOLEAN : LabelFindsNobody(l, c, n, own)
  \/ LabelConflicts(l) \/ LabelRereads(l)
  \/ LabelCreates(l) \/ LabelLinks(l) \/ LabelFails(l)

MergeStep(k) ==
  \/ \E w, l \in Profiles : MergeReads(k, w, l)
  \/ MergeCommits(k) \/ MergeFails(k)

Next ==
  \/ CreateMeeting \/ DeleteMeeting
  \/ \E S \in SUBSET Segments : UploadSegments(S)
  \/ \E c \in Clusters : PutEmbedding(c)
  \/ \E n \in Names : CreateProfile(n)
  \/ \E p \in Profiles : DeleteProfile(p) \/ \E n \in Names : RenameProfile(p, n)
  \/ \E l \in Labels : LabelStep(l)
  \/ \E k \in Merges : MergeStep(k)

Spec == Init /\ [][Next]_vars
-----------------------------------------------------------------------------
(* Properties.                                                             *)

\* Two profiles never share a name, whatever creates, renames and labels
\* overlap between their look at the name and their write.
NamesAreUnique ==
  \A p, q \in Profiles : Live(p) /\ name[p] = name[q] => p = q

\* A segment belongs to the profile a label or an upload gave it, followed
\* through all merges since, and to nobody if that was deleted: a merge
\* never takes a label away and none points to a row that is gone.
LabelsFollowMerges ==
  /\ \A s \in Segments :
       owner[s] = IF tag[s] = NoProfile THEN NoProfile ELSE heir[tag[s]]
  /\ \A s \in Segments : owner[s] # NoProfile => Live(owner[s])

\* A speaker who was merged lives on in a profile that exists, until that is
\* deleted.  That is what merging is for; with two merges it is not so.
MergedSpeakersSurvive ==
  \A p \in Profiles : heir[p] \in {Unborn, NoProfile} \/ Live(heir[p])

\* What is so, whatever merges, labels and deletes overlap: a profile that a
\* speaker lives on in goes by being deleted, or by a merge into a winner that
\* went before the merge commits.
MergesLoseNobody ==
  [][\A p \in Profiles : Live(heir[p]) =>
       \/ Live(heir[p])'
       \/ DeleteProfile(heir[p])
       \/ \E k \in Merges : MergeCommits(k) /\ ~Live(merge[k].winner)]_vars

\* The embedding of a cluster that nobody has named is not lost: it goes only
\* with the meeting, or when the segments of its cluster have an owner.
EmbeddingIsNotLost ==
  [][\A c \in pending \ pending' :
       \/ ~meeting'
       \/ /\ SegmentsOf(c) # {}
          /\ \A s \in SegmentsOf(c) : owner'[s] # NoProfile]_vars
=============================================================================
