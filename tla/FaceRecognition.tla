--------------------------- MODULE FaceRecognition ---------------------------
(***************************************************************************)
(* From a frame to a face's feature (core/facemanager.cpp): detectFace      *)
(* decodes the network's boxes and suppresses those that overlap a better   *)
(* one; extractFaceFeature takes the best face and computes its feature,    *)
(* or gives out the last one again while the face seems not to have moved.  *)
(* Face payment (ui/facepaywidget.cpp) and registration                     *)
(* (ui/memberregister.cpp) send the feature to the server.                  *)
(*                                                                         *)
(* The networks are external: they put out boxes with scores, in tenths,    *)
(* and a feature is the person whose face it was computed from.             *)
(***************************************************************************)
EXTENDS Integers, Sequences, FiniteSets

CONSTANTS
  Persons,
  Anchors,         (* [x1, y1, x2, y2, score] the detector may put out      *)
  MaxAnchors,      (* boxes in a frame, at most                            *)
  ImageWidth, ImageHeight,
  REID_INTERVAL

ASSUME FaceAssumption ==
  /\ Anchors \subseteq [x1 : Int, y1 : Int, x2 : Int, y2 : Int, score : Int]
  /\ IsFiniteSet(Anchors) /\ MaxAnchors \in Nat /\ REID_INTERVAL \in Nat \ {0}
  /\ {ImageWidth, ImageHeight} \subseteq Nat

NoPerson == "no person"

VARIABLES
  frame,              (* history: the boxes of the last frame              *)
  faces,              (* what detectFace made of them                      *)
  m_lastFaceRect, m_lastFaceValid,
  m_lastFeature,      (* whose feature it is                               *)
  m_framesSinceReid,
  seen,               (* history: persons and rectangles of the last calls  *)
  sent                (* the feature given out last, and who was there      *)

faceVars == <<frame, faces, m_lastFaceRect, m_lastFaceValid, m_lastFeature, m_framesSinceReid,
              seen, sent>>

NoRect == [x1 |-> 0, y1 |-> 0, x2 |-> 0, y2 |-> 0]

FaceInit ==
  /\ frame = {} /\ faces = <<>>
  /\ m_lastFaceRect = NoRect /\ m_lastFaceValid = FALSE
  /\ m_lastFeature = NoPerson /\ m_framesSinceReid = 0
  /\ seen = <<>> /\ sent = [feature |-> NoPerson, person |-> NoPerson]

-----------------------------------------------------------------------------
(* Detection. *)

Lesser(a, b) == IF a < b THEN a ELSE b
Greater(a, b) == IF a > b THEN a ELSE b

Area(b) == (b.x2 - b.x1) * (b.y2 - b.y1)

Intersection(a, b) ==
  LET w == Lesser(a.x2, b.x2) - Greater(a.x1, b.x1)
      h == Lesser(a.y2, b.y2) - Greater(a.y1, b.y1)
  IN IF w <= 0 \/ h <= 0 THEN 0 ELSE w * h

(* Both thresholds are 0.3 (nms_threshold and the one of the cache). *)
Overlap(a, b) ==
  10 * Intersection(a, b) > 3 * (Area(a) + Area(b) - Intersection(a, b))

(* The decoding: confident boxes, clipped to the image, of more than 10       *)
(* pixels each way.                                                         *)
Clipped(a) ==
  [x1 |-> Greater(0, a.x1), y1 |-> Greater(0, a.y1), x2 |-> Lesser(ImageWidth, a.x2),
   y2 |-> Lesser(ImageHeight, a.y2), score |-> a.score]

Candidates(anchors) ==
  {b \in {Clipped(a) : a \in anchors} : b.score >= 7 /\ b.x2 - b.x1 > 10 /\ b.y2 - b.y1 > 10}

(* std::sort leaves the order of equal scores open. *)
ByScore(found) ==
  {s \in [1 .. Cardinality(found) -> found] :
     /\ \A b \in found : \E i \in DOMAIN s : s[i] = b
     /\ \A i, j \in DOMAIN s : i < j => s[i].score >= s[j].score}

(* The loop keeps a box that no box kept before suppresses. *)
Suppressed(kept, box) == \E i \in DOMAIN kept : Overlap(kept[i], box)

KeepOrNot(kept, box) == IF Suppressed(kept, box) THEN kept ELSE Append(kept, box)

decodeUltraFaceOutputs(order) ==
  LET kept[n \in 0 .. Len(order)] ==
        IF n = 0 THEN <<>> ELSE KeepOrNot(kept[n - 1], order[n])
  IN  kept[Len(order)]

-----------------------------------------------------------------------------
(* Recognition. *)

Rect(face) == [x1 |-> face.x1, y1 |-> face.y1, x2 |-> face.x2, y2 |-> face.y2]

(* Mutant: the cached feature does not expire. *)
NeverExpires(calls) == TRUE

NotExpired(calls) == calls < REID_INTERVAL

(* Whether the last feature is given out again, for this face at this call. *)
FeatureCached(face, calls) ==
  m_lastFaceValid /\ Overlap(face, m_lastFaceRect) /\ NotExpired(calls)

RememberCall(face, person) ==
  seen' = LET calls == Append(seen, [rect |-> Rect(face), person |-> person])
          IN IF Len(calls) > REID_INTERVAL THEN Tail(calls) ELSE calls

(* extractFaceFeature, on a frame of one person's; with a feature that cannot *)
(* be computed nothing is given out.  m_framesSinceReid counts calls, not     *)
(* frames.  The bound keeps the counter finite and means the same beyond it.  *)
extractFaceFeature(anchors, person) ==
  \E order \in ByScore(Candidates(anchors)) :
    /\ frame' = anchors /\ faces' = decodeUltraFaceOutputs(order)
    /\ IF faces' = <<>>
         THEN UNCHANGED <<m_lastFaceRect, m_lastFaceValid, m_lastFeature, m_framesSinceReid,
                          seen, sent>>
         ELSE LET mainFace == faces'[1]
                  calls == Lesser(m_framesSinceReid + 1, REID_INTERVAL)
              IN /\ RememberCall(mainFace, person)
                 /\ \/ /\ FeatureCached(mainFace, calls)
                       /\ sent' = [feature |-> m_lastFeature, person |-> person]
                       /\ m_framesSinceReid' = calls
                       /\ UNCHANGED <<m_lastFaceRect, m_lastFaceValid, m_lastFeature>>
                    \/ /\ ~FeatureCached(mainFace, calls)
                       /\ m_lastFaceRect' = Rect(mainFace) /\ m_lastFaceValid' = TRUE
                       /\ m_lastFeature' = person /\ m_framesSinceReid' = 0
                       /\ sent' = [feature |-> person, person |-> person]
                    \/ /\ ~FeatureCached(mainFace, calls)
                       /\ m_framesSinceReid' = calls
                       /\ sent' = [feature |-> NoPerson, person |-> person]
                       /\ UNCHANGED <<m_lastFaceRect, m_lastFaceValid, m_lastFeature>>

FaceNext ==
  \E anchors \in SUBSET Anchors, p \in Persons :
    Cardinality(anchors) <= MaxAnchors /\ extractFaceFeature(anchors, p)

FaceSpec == FaceInit /\ [][FaceNext]_faceVars

-----------------------------------------------------------------------------
(* Properties. *)

(* A face is reported once: no two reported boxes overlap, and a candidate is   *)
(* missing only if a better one that overlaps it is reported                 *)
(* (facemanager.cpp:543-593).                                               *)
OnePerFace ==
  /\ \A i, j \in DOMAIN faces : i # j => ~Overlap(faces[i], faces[j])
  /\ \A c \in Candidates(frame) :
       \E i \in DOMAIN faces :
         faces[i] = c \/ (faces[i].score >= c.score /\ Overlap(faces[i], c))

(* A feature that is given out belongs to somebody who was at that place       *)
(* within the last REID_INTERVAL calls, the present one included              *)
(* (facemanager.cpp:708-727, 757-763).                                       *)
FeatureRecent ==
  sent.feature # NoPerson =>
    \E i \in DOMAIN seen : /\ seen[i].person = sent.feature
                           /\ Overlap(seen[i].rect, seen[Len(seen)].rect)

(* Both. *)
FacesOnceFeaturesRecent == OnePerFace /\ FeatureRecent

(* Why: the call at which the cached feature was computed is among the last    *)
(* ones while the feature may be given out again.                            *)
CacheInv ==
  /\ seen \in Seq([rect : [x1 : Int, y1 : Int, x2 : Int, y2 : Int], person : Persons])
  /\ Len(seen) <= REID_INTERVAL
  /\ m_framesSinceReid \in 0 .. REID_INTERVAL
  /\ m_lastFaceValid /\ NotExpired(m_framesSinceReid) =>
       /\ m_framesSinceReid < Len(seen)
       /\ seen[Len(seen) - m_framesSinceReid] =
            [rect |-> m_lastFaceRect, person |-> m_lastFeature]

FaceInv == CacheInv /\ FacesOnceFeaturesRecent

(* The feature is the feature of the face in the frame (facepaywidget.cpp:130,  *)
(* memberregister.cpp:203 "Uploaded to server for cross-client face matching"). *)
(* Violated: who stands where somebody was before is taken for him.           *)
FeatureOfTheFace == sent.feature \in {sent.person, NoPerson}

=============================================================================
