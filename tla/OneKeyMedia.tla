----------------------------- MODULE OneKeyMedia -----------------------------
(***************************************************************************)
(* The ONEKEY_MEDIA_IMPORT job copies the photos of an imported listing    *)
(* (modules/onekey/service.ts importOneKeyMedia, modules/assets/service.ts)*)
(* while operators upload, reorder and delete assets (web/routes/v2.ts).   *)
(* Nothing is transactional across photos: the live assets are read once,  *)
(* then each photo is downloaded, stored and inserted.                     *)
(***************************************************************************)
EXTENDS Naturals, FiniteSets

CONSTANTS
  Photos,       \* image URLs, 1 .. Photos in the provider's order
  Copiers,      \* executions of the job
  MaxPhotoEdits \* bound on what operators do

ASSUME MediaAssumption == Photos \in Nat /\ MaxPhotoEdits \in Nat

VARIABLES
  gallery,    \* live listing_assets: photo (0 for an upload), a number per copy, and
              \* who made its kind HERO (nobody when it is of any other kind)
  copiers,    \* what each execution has read, where it is, what it imported
  sync,       \* listings.source_sync_status
  photoEdits,
  crowded,    \* history: two executions met
  pressed     \* history: an operator asked for a hero while the job ran, or beside the job's

mediaVars == <<gallery, copiers, sync, photoEdits, crowded, pressed>>

Urls == 1 .. Photos
HeroOf == {"nobody", "job", "operator"}
Asleep == [at |-> 0, seen |-> {}, hero |-> FALSE, imported |-> 0, warned |-> FALSE]

MediaTypeOK ==
  /\ \A g \in gallery : g.photo \in 0 .. Photos /\ g.hero \in HeroOf /\ g.copy \in Nat
  /\ copiers \in [Copiers -> [at : 0 .. Photos + 1, seen : SUBSET Urls, hero : BOOLEAN,
                              imported : 0 .. Photos, warned : BOOLEAN]]
  /\ sync \in {"CURRENT", "FAILED"} /\ photoEdits \in 0 .. MaxPhotoEdits
  /\ crowded \in BOOLEAN /\ pressed \in BOOLEAN

MediaInit ==
  /\ gallery = {} /\ copiers = [c \in Copiers |-> Asleep]
  /\ sync = "CURRENT" /\ photoEdits = 0 /\ crowded = FALSE /\ pressed = FALSE

Heroes == {g \in gallery : g.hero # "nobody"}
JobHeroes == {g \in gallery : g.hero = "job"}
Awake == {c \in Copiers : copiers[c].at > 0}
Copies(photo) == {g \in gallery : g.photo = photo}

\* The first execution, a retry after a throw or a lost worker, or
\* /onekey/media/retry, which creates a job of its own.
StartCopyBlind(c) ==
  /\ copiers[c].at = 0
  /\ copiers' = [copiers EXCEPT ![c] = [Asleep EXCEPT !.at = 1, !.hero = Heroes # {}]]
  /\ crowded' = (crowded \/ Awake # {})
  /\ UNCHANGED <<gallery, sync, photoEdits, pressed>>
StartCopy(c) ==
  /\ copiers[c].at = 0
  /\ copiers' = [copiers EXCEPT ![c] =
       [Asleep EXCEPT !.at = 1, !.hero = Heroes # {}, !.seen = {g.photo : g \in gallery} \ {0}]]
  /\ crowded' = (crowded \/ Awake # {})
  /\ UNCHANGED <<gallery, sync, photoEdits, pressed>>

SkipPhoto(c) ==
  /\ copiers[c].at \in copiers[c].seen
  /\ copiers' = [copiers EXCEPT ![c].at = @ + 1]
  /\ UNCHANGED <<gallery, sync, photoEdits, crowded, pressed>>
Wanted(c) == copiers[c].at \in Urls \ copiers[c].seen
\* downloadMedia or processAndStoreAsset throws: a warning, and on.
MissPhoto(c) ==
  /\ Wanted(c)
  /\ copiers' = [copiers EXCEPT ![c].at = @ + 1, ![c].warned = TRUE]
  /\ UNCHANGED <<gallery, sync, photoEdits, crowded, pressed>>
\* The first photo imported into a listing without a hero becomes it.
CopyPhoto(c) ==
  LET photo == copiers[c].at IN
  /\ Wanted(c)
  /\ gallery' = gallery \cup
       {[photo |-> photo, hero |-> IF copiers[c].hero \/ copiers[c].imported > 0 THEN "nobody" ELSE "job",
         copy |-> Cardinality(Copies(photo))]}
  /\ copiers' = [copiers EXCEPT ![c].at = @ + 1, ![c].imported = @ + 1]
  /\ UNCHANGED <<sync, photoEdits, crowded, pressed>>
\* With warnings and nothing imported the listing is FAILED and the job throws.
EndCopy(c) ==
  /\ copiers[c].at = Photos + 1
  /\ sync' = IF copiers[c].warned /\ copiers[c].imported = 0 THEN "FAILED" ELSE "CURRENT"
  /\ copiers' = [copiers EXCEPT ![c] = Asleep]
  /\ UNCHANGED <<gallery, photoEdits, crowded, pressed>>
LoseCopier(c) ==
  /\ copiers[c].at > 0
  /\ copiers' = [copiers EXCEPT ![c] = Asleep]
  /\ UNCHANGED <<gallery, sync, photoEdits, crowded, pressed>>

\* POST, PATCH and DELETE /listings/:id/assets.  Neither of the first two
\* looks at the other assets: operators get as many heroes as they ask for.
PhotoEdit == photoEdits < MaxPhotoEdits /\ photoEdits' = photoEdits + 1
UploadPhoto(hero) ==
  /\ PhotoEdit
  /\ gallery' = gallery \cup {[photo |-> 0, hero |-> hero, copy |-> photoEdits]}
  /\ pressed' = (pressed \/ (hero = "operator" /\ (Awake # {} \/ JobHeroes # {})))
  /\ UNCHANGED <<copiers, sync, crowded>>
\* A reorder sets the kinds it is sent, of any assets together: those in H
\* become HERO, those in G something else.
SentAs(g, H, G) ==
  IF g \in H THEN [g EXCEPT !.hero = "operator"]
  ELSE IF g \in G THEN [g EXCEPT !.hero = "nobody"] ELSE g
Reorder(H, G) ==
  /\ PhotoEdit
  /\ H \cap G = {}
  /\ gallery' = {SentAs(g, H, G) : g \in gallery}
  /\ pressed' = (pressed \/ (H # {} /\ (Awake # {} \/ JobHeroes \ (H \cup G) # {})))
  /\ UNCHANGED <<copiers, sync, crowded>>
DeletePhoto(g) ==
  /\ PhotoEdit
  /\ gallery' = gallery \ {g}
  /\ UNCHANGED <<copiers, sync, crowded, pressed>>

MediaNext ==
  \/ \E c \in Copiers : StartCopy(c) \/ SkipPhoto(c) \/ MissPhoto(c) \/ CopyPhoto(c) \/ EndCopy(c)
                        \/ LoseCopier(c)
  \/ \E hero \in {"nobody", "operator"} : UploadPhoto(hero)
  \/ \E H, G \in SUBSET gallery : Reorder(H, G)
  \/ \E g \in gallery : DeletePhoto(g)
MediaSpec == MediaInit /\ [][MediaNext]_mediaVars

-----------------------------------------------------------------------------
\* However often the job is retried after any part of its work, and whatever
\* operators delete, add or reorder between, a photo is live once, and the
\* job made one of the live photos the hero at most; that one is the only
\* hero, unless an operator asked for another beside it or while the job
\* ran.  What operators ask for among themselves is not bounded: no route
\* looks for a hero.  Executions that meet each other are set apart: the job
\* reads the assets once and locks nothing.
GalleryOnce ==
  ~crowded => /\ \A u \in Urls : Cardinality(Copies(u)) <= 1
              /\ Cardinality(JobHeroes) <= 1
              /\ ~pressed /\ JobHeroes # {} => Heroes = JobHeroes
=============================================================================
