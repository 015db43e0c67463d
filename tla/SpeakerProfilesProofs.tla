----------------------- MODULE SpeakerProfilesProofs -----------------------
(***************************************************************************)
(* The safety properties of SpeakerProfiles, for any profiles, names,      *)
(* segments and clusters and any number of requests in flight.             *)
(***************************************************************************)
EXTENDS SpeakerProfiles, TLAPS

USE DEF Live, Label, Merge, Request, NoLabel, NoMerge,
        segmentVars, requestVars

-----------------------------------------------------------------------------
(* The inductive invariant.                                                *)

LabelsFit ==
  \A l \in Labels : label[l].pc # "idle" =>
    /\ label[l].cluster \in Clusters
    /\ label[l].name \in Names
    /\ label[l].pc = "link" => label[l].profile \in Profiles

MergesFit ==
  \A k \in Merges : merge[k].pc = "read" =>
    /\ merge[k].winner \in Profiles /\ merge[k].loser \in Profiles
    /\ merge[k].winner # merge[k].loser
    /\ heir[merge[k].winner] # Unborn

\* A profile that exists is its own heir, and a tag names one that existed.
HeirsFit ==
  /\ \A p \in Profiles : Live(p) => heir[p] = p
  /\ \A s \in Segments : tag[s] # NoProfile => heir[tag[s]] # Unborn

IInv ==
  /\ TypeOK
  /\ LabelsFit
  /\ MergesFit
  /\ HeirsFit
  /\ NamesAreUnique
  /\ LabelsFollowMerges

-----------------------------------------------------------------------------
LEMMA CreateMeetingInv ==
  ASSUME IInv, CreateMeeting
  PROVE  IInv'
<1>1. TypeOK'
  BY SpeakerAssumption DEF IInv, TypeOK, LabelsFit, MergesFit, CreateMeeting
<1>2. LabelsFit'
  BY <1>1, SpeakerAssumption DEF IInv, TypeOK, LabelsFit, CreateMeeting
<1>3. MergesFit'
  BY <1>1, SpeakerAssumption DEF IInv, TypeOK, MergesFit, HeirsFit,
     CreateMeeting
<1>4. HeirsFit'
  BY <1>1, SpeakerAssumption DEF IInv, TypeOK, HeirsFit, LabelsFit,
     MergesFit, CreateMeeting
<1>5. NamesAreUnique'
  BY <1>1, SpeakerAssumption DEF IInv, TypeOK, NamesAreUnique, LabelsFit,
     CreateMeeting
<1>6. LabelsFollowMerges'
  BY <1>1, SpeakerAssumption DEF IInv, TypeOK, LabelsFollowMerges,
     LabelsFit, MergesFit, HeirsFit, CreateMeeting
<1> QED
  BY <1>1, <1>2, <1>3, <1>4, <1>5, <1>6 DEF IInv

LEMMA DeleteMeetingInv ==
  ASSUME IInv, DeleteMeeting
  PROVE  IInv'
<1>1. TypeOK'
  BY SpeakerAssumption DEF IInv, TypeOK, LabelsFit, MergesFit, DeleteMeeting
<1>2. LabelsFit'
  BY <1>1, SpeakerAssumption DEF IInv, TypeOK, LabelsFit, DeleteMeeting
<1>3. MergesFit'
  BY <1>1, SpeakerAssumption DEF IInv, TypeOK, MergesFit, HeirsFit,
     DeleteMeeting
<1>4. HeirsFit'
  BY <1>1, SpeakerAssumption DEF IInv, TypeOK, HeirsFit, LabelsFit,
     MergesFit, DeleteMeeting
<1>5. NamesAreUnique'
  BY <1>1, SpeakerAssumption DEF IInv, TypeOK, NamesAreUnique, LabelsFit,
     DeleteMeeting
<1>6. LabelsFollowMerges'
  BY <1>1, SpeakerAssumption DEF IInv, TypeOK, LabelsFollowMerges,
     LabelsFit, MergesFit, HeirsFit, DeleteMeeting
<1> QED
  BY <1>1, <1>2, <1>3, <1>4, <1>5, <1>6 DEF IInv

LEMMA UploadSegmentsInv ==
  ASSUME IInv, NEW S \in SUBSET Segments, UploadSegments(S)
  PROVE  IInv'
<1>1. TypeOK'
  BY SpeakerAssumption DEF IInv, TypeOK, LabelsFit, MergesFit,
     UploadSegments
<1>2. LabelsFit'
  BY <1>1, SpeakerAssumption DEF IInv, TypeOK, LabelsFit, UploadSegments
<1>3. MergesFit'
  BY <1>1, SpeakerAssumption DEF IInv, TypeOK, MergesFit, HeirsFit,
     UploadSegments
<1>4. HeirsFit'
  BY <1>1, SpeakerAssumption DEF IInv, TypeOK, HeirsFit, LabelsFit,
     MergesFit, UploadSegments
<1>5. NamesAreUnique'
  BY <1>1, SpeakerAssumption DEF IInv, TypeOK, NamesAreUnique, LabelsFit,
     UploadSegments
<1>6. LabelsFollowMerges'
  BY <1>1, SpeakerAssumption DEF IInv, TypeOK, LabelsFollowMerges,
     LabelsFit, MergesFit, HeirsFit, UploadSegments
<1> QED
  BY <1>1, <1>2, <1>3, <1>4, <1>5, <1>6 DEF IInv

LEMMA PutEmbeddingInv ==
  ASSUME IInv, NEW c \in Clusters, PutEmbedding(c)
  PROVE  IInv'
<1>1. TypeOK'
  BY SpeakerAssumption DEF IInv, TypeOK, LabelsFit, MergesFit, PutEmbedding
<1>2. LabelsFit'
  BY <1>1, SpeakerAssumption DEF IInv, TypeOK, LabelsFit, PutEmbedding
<1>3. MergesFit'
  BY <1>1, SpeakerAssumption DEF IInv, TypeOK, MergesFit, HeirsFit,
     PutEmbedding
<1>4. HeirsFit'
  BY <1>1, SpeakerAssumption DEF IInv, TypeOK, HeirsFit, LabelsFit,
     MergesFit, PutEmbedding
<1>5. NamesAreUnique'
  BY <1>1, SpeakerAssumption DEF IInv, TypeOK, NamesAreUnique, LabelsFit,
     PutEmbedding
<1>6. LabelsFollowMerges'
  BY <1>1, SpeakerAssumption DEF IInv, TypeOK, LabelsFollowMerges,
     LabelsFit, MergesFit, HeirsFit, PutEmbedding
<1> QED
  BY <1>1, <1>2, <1>3, <1>4, <1>5, <1>6 DEF IInv

LEMMA CreateProfileInv ==
  ASSUME IInv, NEW n \in Names, CreateProfile(n)
  PROVE  IInv'
<1>1. TypeOK'
  BY SpeakerAssumption DEF IInv, TypeOK, LabelsFit, MergesFit,
     CreateProfile, NameFree, Named
<1>2. LabelsFit'
  BY <1>1, SpeakerAssumption DEF IInv, TypeOK, LabelsFit, CreateProfile,
     NameFree, Named
<1>3. MergesFit'
  BY <1>1, SpeakerAssumption DEF IInv, TypeOK, MergesFit, HeirsFit,
     CreateProfile, NameFree, Named
<1>4. HeirsFit'
  BY <1>1, SpeakerAssumption DEF IInv, TypeOK, HeirsFit, LabelsFit,
     MergesFit, CreateProfile, NameFree, Named
<1>5. NamesAreUnique'
  BY <1>1, SpeakerAssumption DEF IInv, TypeOK, NamesAreUnique, LabelsFit,
     CreateProfile, NameFree, Named
<1>6. LabelsFollowMerges'
  BY <1>1, SpeakerAssumption DEF IInv, TypeOK, LabelsFollowMerges,
     LabelsFit, MergesFit, HeirsFit, CreateProfile, NameFree, Named
<1> QED
  BY <1>1, <1>2, <1>3, <1>4, <1>5, <1>6 DEF IInv

LEMMA RenameProfileInv ==
  ASSUME IInv, NEW p \in Profiles, NEW n \in Names, RenameProfile(p, n)
  PROVE  IInv'
<1>1. TypeOK'
  BY SpeakerAssumption DEF IInv, TypeOK, LabelsFit, MergesFit,
     RenameProfile, NameFree, Named
<1>2. LabelsFit'
  BY <1>1, SpeakerAssumption DEF IInv, TypeOK, LabelsFit, RenameProfile,
     NameFree, Named
<1>3. MergesFit'
  BY <1>1, SpeakerAssumption DEF IInv, TypeOK, MergesFit, HeirsFit,
     RenameProfile, NameFree, Named
<1>4. HeirsFit'
  BY <1>1, SpeakerAssumption DEF IInv, TypeOK, HeirsFit, LabelsFit,
     MergesFit, RenameProfile, NameFree, Named
<1>5. NamesAreUnique'
  BY <1>1, SpeakerAssumption DEF IInv, TypeOK, NamesAreUnique, LabelsFit,
     RenameProfile, NameFree, Named
<1>6. LabelsFollowMerges'
  BY <1>1, SpeakerAssumption DEF IInv, TypeOK, LabelsFollowMerges,
     LabelsFit, MergesFit, HeirsFit, RenameProfile, NameFree, Named
<1> QED
  BY <1>1, <1>2, <1>3, <1>4, <1>5, <1>6 DEF IInv

LEMMA DeleteProfileInv ==
  ASSUME IInv, NEW p \in Profiles, DeleteProfile(p)
  PROVE  IInv'
<1>1. TypeOK'
  BY SpeakerAssumption DEF IInv, TypeOK, LabelsFit, MergesFit,
     DeleteProfile, Unlinked, Inherited
<1>2. LabelsFit'
  BY <1>1, SpeakerAssumption DEF IInv, TypeOK, LabelsFit, DeleteProfile,
     Unlinked, Inherited
<1>3. MergesFit'
  BY <1>1, SpeakerAssumption DEF IInv, TypeOK, MergesFit, HeirsFit,
     DeleteProfile, Unlinked, Inherited
<1>4. HeirsFit'
  BY <1>1, SpeakerAssumption DEF IInv, TypeOK, HeirsFit, LabelsFit,
     MergesFit, DeleteProfile, Unlinked, Inherited
<1>5. NamesAreUnique'
  BY <1>1, SpeakerAssumption DEF IInv, TypeOK, NamesAreUnique, LabelsFit,
     DeleteProfile, Unlinked, Inherited
<1>6. LabelsFollowMerges'
  BY <1>1, SpeakerAssumption DEF IInv, TypeOK, LabelsFollowMerges,
     LabelsFit, MergesFit, HeirsFit, DeleteProfile, Unlinked, Inherited
<1> QED
  BY <1>1, <1>2, <1>3, <1>4, <1>5, <1>6 DEF IInv

LEMMA LabelFindsInv ==
  ASSUME IInv, NEW l \in Labels, NEW c \in Clusters, NEW n \in Names, NEW p
         \in Profiles, LabelFinds(l, c, n, p)
  PROVE  IInv'
<1>1. TypeOK'
  BY SpeakerAssumption DEF IInv, TypeOK, LabelsFit, MergesFit, LabelFinds,
     Named
<1>2. LabelsFit'
  BY <1>1, SpeakerAssumption DEF IInv, TypeOK, LabelsFit, LabelFinds, Named
<1>3. MergesFit'
  BY <1>1, SpeakerAssumption DEF IInv, TypeOK, MergesFit, HeirsFit,
     LabelFinds, Named
<1>4. HeirsFit'
  BY <1>1, SpeakerAssumption DEF IInv, TypeOK, HeirsFit, LabelsFit,
     MergesFit, LabelFinds, Named
<1>5. NamesAreUnique'
  BY <1>1, SpeakerAssumption DEF IInv, TypeOK, NamesAreUnique, LabelsFit,
     LabelFinds, Named
<1>6. LabelsFollowMerges'
  BY <1>1, SpeakerAssumption DEF IInv, TypeOK, LabelsFollowMerges,
     LabelsFit, MergesFit, HeirsFit, LabelFinds, Named
<1> QED
  BY <1>1, <1>2, <1>3, <1>4, <1>5, <1>6 DEF IInv

LEMMA LabelFindsNobodyInv ==
  ASSUME IInv, NEW l \in Labels, NEW c \in Clusters, NEW n \in Names, NEW
         own \in BOOLEAN, LabelFindsNobody(l, c, n, own)
  PROVE  IInv'
<1>1. TypeOK'
  BY SpeakerAssumption DEF IInv, TypeOK, LabelsFit, MergesFit,
     LabelFindsNobody
<1>2. LabelsFit'
  BY <1>1, SpeakerAssumption DEF IInv, TypeOK, LabelsFit, LabelFindsNobody
<1>3. MergesFit'
  BY <1>1, SpeakerAssumption DEF IInv, TypeOK, MergesFit, HeirsFit,
     LabelFindsNobody
<1>4. HeirsFit'
  BY <1>1, SpeakerAssumption DEF IInv, TypeOK, HeirsFit, LabelsFit,
     MergesFit, LabelFindsNobody
<1>5. NamesAreUnique'
  BY <1>1, SpeakerAssumption DEF IInv, TypeOK, NamesAreUnique, LabelsFit,
     LabelFindsNobody
<1>6. LabelsFollowMerges'
  BY <1>1, SpeakerAssumption DEF IInv, TypeOK, LabelsFollowMerges,
     LabelsFit, MergesFit, HeirsFit, LabelFindsNobody
<1> QED
  BY <1>1, <1>2, <1>3, <1>4, <1>5, <1>6 DEF IInv

LEMMA LabelConflictsInv ==
  ASSUME IInv, NEW l \in Labels, LabelConflicts(l)
  PROVE  IInv'
<1>1. TypeOK'
  BY SpeakerAssumption DEF IInv, TypeOK, LabelsFit, MergesFit,
     LabelConflicts
<1>2. LabelsFit'
  BY <1>1, SpeakerAssumption DEF IInv, TypeOK, LabelsFit, LabelConflicts
<1>3. MergesFit'
  BY <1>1, SpeakerAssumption DEF IInv, TypeOK, MergesFit, HeirsFit,
     LabelConflicts
<1>4. HeirsFit'
  BY <1>1, SpeakerAssumption DEF IInv, TypeOK, HeirsFit, LabelsFit,
     MergesFit, LabelConflicts
<1>5. NamesAreUnique'
  BY <1>1, SpeakerAssumption DEF IInv, TypeOK, NamesAreUnique, LabelsFit,
     LabelConflicts
<1>6. LabelsFollowMerges'
  BY <1>1, SpeakerAssumption DEF IInv, TypeOK, LabelsFollowMerges,
     LabelsFit, MergesFit, HeirsFit, LabelConflicts
<1> QED
  BY <1>1, <1>2, <1>3, <1>4, <1>5, <1>6 DEF IInv

LEMMA LabelRereadsInv ==
  ASSUME IInv, NEW l \in Labels, LabelRereads(l)
  PROVE  IInv'
<1>1. TypeOK'
  BY SpeakerAssumption DEF IInv, TypeOK, LabelsFit, MergesFit, LabelRereads,
     Named, Reread
<1>2. LabelsFit'
  BY <1>1, SpeakerAssumption DEF IInv, TypeOK, LabelsFit, LabelRereads,
     Named, Reread
<1>3. MergesFit'
  BY <1>1, SpeakerAssumption DEF IInv, TypeOK, MergesFit, HeirsFit,
     LabelRereads, Named, Reread
<1>4. HeirsFit'
  BY <1>1, SpeakerAssumption DEF IInv, TypeOK, HeirsFit, LabelsFit,
     MergesFit, LabelRereads, Named, Reread
<1>5. NamesAreUnique'
  BY <1>1, SpeakerAssumption DEF IInv, TypeOK, NamesAreUnique, LabelsFit,
     LabelRereads, Named, Reread
<1>6. LabelsFollowMerges'
  BY <1>1, SpeakerAssumption DEF IInv, TypeOK, LabelsFollowMerges,
     LabelsFit, MergesFit, HeirsFit, LabelRereads, Named, Reread
<1> QED
  BY <1>1, <1>2, <1>3, <1>4, <1>5, <1>6 DEF IInv

LEMMA LabelCreatesInv ==
  ASSUME IInv, NEW l \in Labels, LabelCreates(l)
  PROVE  IInv'
<1>1. TypeOK'
  BY SpeakerAssumption DEF IInv, TypeOK, LabelsFit, MergesFit, LabelCreates,
     LinksTo, NameFree, Named, SegmentsOf
<1>2. LabelsFit'
  BY <1>1, SpeakerAssumption DEF IInv, TypeOK, LabelsFit, LabelCreates,
     LinksTo, NameFree, Named, SegmentsOf
<1>3. MergesFit'
  BY <1>1, SpeakerAssumption DEF IInv, TypeOK, MergesFit, HeirsFit,
     LabelCreates, LinksTo, NameFree, Named, SegmentsOf
<1>4. HeirsFit'
  BY <1>1, SpeakerAssumption DEF IInv, TypeOK, HeirsFit, LabelsFit,
     MergesFit, LabelCreates, LinksTo, NameFree, Named, SegmentsOf
<1>5. NamesAreUnique'
  BY <1>1, SpeakerAssumption DEF IInv, TypeOK, NamesAreUnique, LabelsFit,
     LabelCreates, LinksTo, NameFree, Named, SegmentsOf
<1>6. LabelsFollowMerges'
  BY <1>1, SpeakerAssumption DEF IInv, TypeOK, LabelsFollowMerges,
     LabelsFit, MergesFit, HeirsFit, LabelCreates, LinksTo, NameFree, Named,
     SegmentsOf
<1> QED
  BY <1>1, <1>2, <1>3, <1>4, <1>5, <1>6 DEF IInv

LEMMA LabelLinksInv ==
  ASSUME IInv, NEW l \in Labels, LabelLinks(l)
  PROVE  IInv'
<1>1. TypeOK'
  BY SpeakerAssumption DEF IInv, TypeOK, LabelsFit, MergesFit, LabelLinks,
     LinksTo, SegmentsOf
<1>2. LabelsFit'
  BY <1>1, SpeakerAssumption DEF IInv, TypeOK, LabelsFit, LabelLinks,
     LinksTo, SegmentsOf
<1>3. MergesFit'
  BY <1>1, SpeakerAssumption DEF IInv, TypeOK, MergesFit, HeirsFit,
     LabelLinks, LinksTo, SegmentsOf
<1>4. HeirsFit'
  BY <1>1, SpeakerAssumption DEF IInv, TypeOK, HeirsFit, LabelsFit,
     MergesFit, LabelLinks, LinksTo, SegmentsOf
<1>5. NamesAreUnique'
  BY <1>1, SpeakerAssumption DEF IInv, TypeOK, NamesAreUnique, LabelsFit,
     LabelLinks, LinksTo, SegmentsOf
<1>6. LabelsFollowMerges'
  BY <1>1, SpeakerAssumption DEF IInv, TypeOK, LabelsFollowMerges,
     LabelsFit, MergesFit, HeirsFit, LabelLinks, LinksTo, SegmentsOf
<1> QED
  BY <1>1, <1>2, <1>3, <1>4, <1>5, <1>6 DEF IInv

LEMMA LabelFailsInv ==
  ASSUME IInv, NEW l \in Labels, LabelFails(l)
  PROVE  IInv'
<1>1. TypeOK'
  BY SpeakerAssumption DEF IInv, TypeOK, LabelsFit, MergesFit, LabelFails
<1>2. LabelsFit'
  BY <1>1, SpeakerAssumption DEF IInv, TypeOK, LabelsFit, LabelFails
<1>3. MergesFit'
  BY <1>1, SpeakerAssumption DEF IInv, TypeOK, MergesFit, HeirsFit,
     LabelFails
<1>4. HeirsFit'
  BY <1>1, SpeakerAssumption DEF IInv, TypeOK, HeirsFit, LabelsFit,
     MergesFit, LabelFails
<1>5. NamesAreUnique'
  BY <1>1, SpeakerAssumption DEF IInv, TypeOK, NamesAreUnique, LabelsFit,
     LabelFails
<1>6. LabelsFollowMerges'
  BY <1>1, SpeakerAssumption DEF IInv, TypeOK, LabelsFollowMerges,
     LabelsFit, MergesFit, HeirsFit, LabelFails
<1> QED
  BY <1>1, <1>2, <1>3, <1>4, <1>5, <1>6 DEF IInv

LEMMA MergeReadsInv ==
  ASSUME IInv, NEW k \in Merges, NEW w \in Profiles, NEW l \in Profiles,
         MergeReads(k, w, l)
  PROVE  IInv'
<1>1. TypeOK'
  BY SpeakerAssumption DEF IInv, TypeOK, LabelsFit, MergesFit, MergeReads
<1>2. LabelsFit'
  BY <1>1, SpeakerAssumption DEF IInv, TypeOK, LabelsFit, MergeReads
<1>3. MergesFit'
  BY <1>1, SpeakerAssumption DEF IInv, TypeOK, MergesFit, HeirsFit,
     MergeReads
<1>4. HeirsFit'
  BY <1>1, SpeakerAssumption DEF IInv, TypeOK, HeirsFit, LabelsFit,
     MergesFit, MergeReads
<1>5. NamesAreUnique'
  BY <1>1, SpeakerAssumption DEF IInv, TypeOK, NamesAreUnique, LabelsFit,
     MergeReads
<1>6. LabelsFollowMerges'
  BY <1>1, SpeakerAssumption DEF IInv, TypeOK, LabelsFollowMerges,
     LabelsFit, MergesFit, HeirsFit, MergeReads
<1> QED
  BY <1>1, <1>2, <1>3, <1>4, <1>5, <1>6 DEF IInv

LEMMA MergeCommitsInv ==
  ASSUME IInv, NEW k \in Merges, MergeCommits(k)
  PROVE  IInv'
<1>1. TypeOK'
  BY SpeakerAssumption DEF IInv, TypeOK, LabelsFit, MergesFit, MergeCommits,
     MayMerge, Reassigned, Unlinked, Inherited, Discarded
<1>2. LabelsFit'
  BY <1>1, SpeakerAssumption DEF IInv, TypeOK, LabelsFit, MergeCommits,
     MayMerge, Reassigned, Unlinked, Inherited, Discarded
<1>3. MergesFit'
  BY <1>1, SpeakerAssumption DEF IInv, TypeOK, MergesFit, HeirsFit,
     MergeCommits, MayMerge, Reassigned, Unlinked, Inherited, Discarded
<1>4. HeirsFit'
  BY <1>1, SpeakerAssumption DEF IInv, TypeOK, HeirsFit, LabelsFit,
     MergesFit, MergeCommits, MayMerge, Reassigned, Unlinked, Inherited,
     Discarded
<1>5. NamesAreUnique'
  BY <1>1, SpeakerAssumption DEF IInv, TypeOK, NamesAreUnique, LabelsFit,
     MergeCommits, MayMerge, Reassigned, Unlinked, Inherited, Discarded
<1>6. LabelsFollowMerges'
  BY <1>1, SpeakerAssumption DEF IInv, TypeOK, LabelsFollowMerges,
     LabelsFit, MergesFit, HeirsFit, MergeCommits, MayMerge, Reassigned,
     Unlinked, Inherited, Discarded
<1> QED
  BY <1>1, <1>2, <1>3, <1>4, <1>5, <1>6 DEF IInv

LEMMA MergeFailsInv ==
  ASSUME IInv, NEW k \in Merges, MergeFails(k)
  PROVE  IInv'
<1>1. TypeOK'
  BY SpeakerAssumption DEF IInv, TypeOK, LabelsFit, MergesFit, MergeFails
<1>2. LabelsFit'
  BY <1>1, SpeakerAssumption DEF IInv, TypeOK, LabelsFit, MergeFails
<1>3. MergesFit'
  BY <1>1, SpeakerAssumption DEF IInv, TypeOK, MergesFit, HeirsFit,
     MergeFails
<1>4. HeirsFit'
  BY <1>1, SpeakerAssumption DEF IInv, TypeOK, HeirsFit, LabelsFit,
     MergesFit, MergeFails
<1>5. NamesAreUnique'
  BY <1>1, SpeakerAssumption DEF IInv, TypeOK, NamesAreUnique, LabelsFit,
     MergeFails
<1>6. LabelsFollowMerges'
  BY <1>1, SpeakerAssumption DEF IInv, TypeOK, LabelsFollowMerges,
     LabelsFit, MergesFit, HeirsFit, MergeFails
<1> QED
  BY <1>1, <1>2, <1>3, <1>4, <1>5, <1>6 DEF IInv
-----------------------------------------------------------------------------

LEMMA InitInv == Init => IInv
<1> SUFFICES ASSUME Init PROVE IInv
  OBVIOUS
<1>1. TypeOK
  BY DEF Init, TypeOK
<1>2. LabelsFit /\ MergesFit /\ HeirsFit
  BY SpeakerAssumption DEF Init, LabelsFit, MergesFit, HeirsFit
<1>3. NamesAreUnique /\ LabelsFollowMerges
  BY SpeakerAssumption DEF Init, NamesAreUnique, LabelsFollowMerges
<1> QED
  BY <1>1, <1>2, <1>3 DEF IInv

LEMMA StutterInv ==
  ASSUME IInv, UNCHANGED vars
  PROVE  IInv'
BY DEF vars, IInv, TypeOK, LabelsFit, MergesFit, HeirsFit, NamesAreUnique,
   LabelsFollowMerges

LEMMA LabelStepInv ==
  ASSUME IInv, NEW l \in Labels, LabelStep(l)
  PROVE  IInv'
BY LabelFindsInv, LabelFindsNobodyInv, LabelConflictsInv, LabelRereadsInv,
   LabelCreatesInv, LabelLinksInv, LabelFailsInv DEF LabelStep

LEMMA MergeStepInv ==
  ASSUME IInv, NEW k \in Merges, MergeStep(k)
  PROVE  IInv'
BY MergeReadsInv, MergeCommitsInv, MergeFailsInv DEF MergeStep

LEMMA StepInv == IInv /\ [Next]_vars => IInv'
<1> SUFFICES ASSUME IInv, [Next]_vars PROVE IInv'
  OBVIOUS
<1>1. CASE CreateMeeting \/ DeleteMeeting
  BY <1>1, CreateMeetingInv, DeleteMeetingInv
<1>2. CASE \E S \in SUBSET Segments : UploadSegments(S)
  BY <1>2, UploadSegmentsInv
<1>3. CASE \E c \in Clusters : PutEmbedding(c)
  BY <1>3, PutEmbeddingInv
<1>4. CASE \E n \in Names : CreateProfile(n)
  BY <1>4, CreateProfileInv
<1>5. CASE \E p \in Profiles : DeleteProfile(p) \/ \E n \in Names : RenameProfile(p, n)
  BY <1>5, DeleteProfileInv, RenameProfileInv
<1>6. CASE \E l \in Labels : LabelStep(l)
  BY <1>6, LabelStepInv
<1>7. CASE \E k \in Merges : MergeStep(k)
  BY <1>7, MergeStepInv
<1>8. CASE UNCHANGED vars
  BY <1>8, StutterInv
<1> QED
  BY <1>1, <1>2, <1>3, <1>4, <1>5, <1>6, <1>7, <1>8 DEF Next

LEMMA Invariance == Spec => []IInv
  BY InitInv, StepInv, PTL DEF Spec

-----------------------------------------------------------------------------
(* The theorems.                                                           *)

\* Every variable keeps its type.
THEOREM TypeCorrect == Spec => []TypeOK
<1>1. IInv => TypeOK
  BY DEF IInv
<1> QED
  BY <1>1, Invariance, PTL

\* No two profiles share a name.
THEOREM NamesStayUnique == Spec => []NamesAreUnique
<1>1. IInv => NamesAreUnique
  BY DEF IInv
<1> QED
  BY <1>1, Invariance, PTL

\* A label follows its profile through every merge and deletion.
THEOREM LabelsAreKept == Spec => []LabelsFollowMerges
<1>1. IInv => LabelsFollowMerges
  BY DEF IInv
<1> QED
  BY <1>1, Invariance, PTL

\* The embedding of a cluster goes only with its meeting, or when the cluster
\* has been given to a profile.
THEOREM EmbeddingsAreKept == Spec => EmbeddingIsNotLost
<1>1. IInv /\ [Next]_vars =>
        [\A c \in pending \ pending' :
           \/ ~meeting'
           \/ /\ SegmentsOf(c) # {}
              /\ \A s \in SegmentsOf(c) : owner'[s] # NoProfile]_vars
  <2> SUFFICES ASSUME IInv, Next, NEW c \in pending, c \notin pending', meeting'
               PROVE  /\ SegmentsOf(c) # {}
                      /\ \A s \in SegmentsOf(c) : owner'[s] # NoProfile
    OBVIOUS
  <2>1. PICK l \in Labels, p \in Profiles : LinksTo(l, p)
    <3>1. \E l \in Labels : LabelStep(l)
      BY DEF Next, CreateMeeting, DeleteMeeting, UploadSegments, PutEmbedding,
         CreateProfile, RenameProfile, DeleteProfile, MergeStep, MergeReads,
         MergeCommits, MergeFails
    <3>2. PICK l \in Labels : LabelCreates(l) \/ LabelLinks(l)
      BY <3>1 DEF LabelStep, LabelFinds, LabelFindsNobody, LabelConflicts,
         LabelRereads, LabelFails
    <3> QED
      BY <3>2 DEF LabelCreates, LabelLinks
  <2>2. SegmentsOf(c) # {} /\ c = label[l].cluster
    BY <2>1 DEF LinksTo, Linkable
  <2>3. \A s \in SegmentsOf(c) : s \in Segments /\ owner'[s] = p
    BY <2>1, <2>2 DEF LinksTo, SegmentsOf, IInv, TypeOK
  <2> QED
    BY <2>2, <2>3, SpeakerAssumption
<1> QED
  BY <1>1, Invariance, PTL DEF Spec, EmbeddingIsNotLost

-----------------------------------------------------------------------------
(* Merges, any number of them at the same time.                            *)

LEMMA ProfilesComeAlone ==
  ASSUME IInv, NEW p \in Profiles, Live(heir[p]),
         NEW q \in Profiles, NEW n \in Names,
         heir[q] = Unborn,
         name' = [name EXCEPT ![q] = n], heir' = [heir EXCEPT ![q] = q]
  PROVE  Live(heir[p])'
BY SpeakerAssumption DEF IInv, TypeOK, HeirsFit

\* A merge into a winner that is still there moves everybody.
LEMMA MergeMoves ==
  ASSUME IInv, NEW p \in Profiles, Live(heir[p]),
         NEW k \in Merges, MergeCommits(k), Live(merge[k].winner)
  PROVE  Live(heir[p])'
<1> DEFINE w == merge[k].winner
           l == merge[k].loser
<1>1. w \in Profiles /\ l \in Profiles /\ w # l /\ heir[w] = w
  BY DEF IInv, MergesFit, HeirsFit, MergeCommits
<1>2. /\ name' = [name EXCEPT ![l] = NoName]
      /\ heir' = [r \in Profiles |-> IF heir[r] = l THEN heir[w] ELSE heir[r]]
  BY DEF MergeCommits, Discarded, Inherited
<1>3. CASE heir[p] = l
  BY <1>1, <1>2, <1>3 DEF IInv, TypeOK
<1>4. CASE heir[p] # l
  BY <1>1, <1>2, <1>4 DEF IInv, TypeOK
<1> QED
  BY <1>3, <1>4

\* However many merges, labels and deletes overlap, a speaker's profile goes by
\* being deleted, or by a merge whose winner is gone when it commits: the second
\* look that merge_speaker_profiles does not take is all that is missing.
THEOREM NobodyIsLost == Spec => MergesLoseNobody
<1>1. IInv /\ [Next]_vars =>
        [\A p \in Profiles : Live(heir[p]) =>
           \/ Live(heir[p])'
           \/ DeleteProfile(heir[p])
           \/ \E k \in Merges : MergeCommits(k) /\ ~Live(merge[k].winner)]_vars
  <2> SUFFICES ASSUME IInv, Next, NEW p \in Profiles, Live(heir[p]),
                      ~DeleteProfile(heir[p]),
                      \A k \in Merges : MergeCommits(k) => Live(merge[k].winner)
               PROVE  Live(heir[p])'
    OBVIOUS
  <2>1. CASE \E k \in Merges : MergeCommits(k)
    BY <2>1, MergeMoves
  <2>2. CASE \/ \E n \in Names : CreateProfile(n)
             \/ \E l \in Labels : LabelCreates(l)
    <3>1. PICK q \in Profiles, n \in Names :
            /\ heir[q] = Unborn
            /\ name' = [name EXCEPT ![q] = n]
            /\ heir' = [heir EXCEPT ![q] = q]
      BY <2>2 DEF CreateProfile, LabelCreates, IInv, LabelsFit
    <3> QED
      BY <3>1, ProfilesComeAlone
  <2>3. CASE \E q \in Profiles : DeleteProfile(q)
    <3>1. PICK q \in Profiles : DeleteProfile(q) /\ q # heir[p]
      BY <2>3
    <3> QED
      BY <3>1 DEF DeleteProfile, Inherited, IInv, TypeOK
  <2>4. CASE \E q \in Profiles, n \in Names : RenameProfile(q, n)
    BY <2>4, SpeakerAssumption DEF RenameProfile, IInv, TypeOK
  <2>5. CASE UNCHANGED <<name, heir>>
    BY <2>5
  <2>6. CASE \E l \in Labels : LabelStep(l)
    BY <2>2, <2>5, <2>6 DEF LabelStep, LabelFinds, LabelFindsNobody, LabelConflicts,
       LabelRereads, LabelLinks, LabelFails
  <2>7. CASE \E k \in Merges : MergeStep(k)
    BY <2>1, <2>5, <2>7 DEF MergeStep, MergeReads, MergeFails
  <2>8. CASE \/ CreateMeeting \/ DeleteMeeting
             \/ \E S \in SUBSET Segments : UploadSegments(S)
             \/ \E c \in Clusters : PutEmbedding(c)
    BY <2>5, <2>8 DEF CreateMeeting, DeleteMeeting, UploadSegments, PutEmbedding
  <2> QED
    BY <2>2, <2>3, <2>4, <2>6, <2>7, <2>8 DEF Next
<1> QED
  BY <1>1, Invariance, PTL DEF Spec, MergesLoseNobody
=============================================================================
