----------------------------- MODULE Pictures -----------------------------
(***************************************************************************)
(* The pictures of products and POS categories (frontend/src/features/      *)
(* images/ImagePicker.tsx, backend/app/catalog/images.py).  A list says     *)
(* which version each owner's picture has; the version is part of the       *)
(* address, and a browser keeps what it was served at an address for good.  *)
(***************************************************************************)
EXTENDS Naturals, FiniteSets

CONSTANTS
    Owners,     \* products or categories
    Editors,    \* browsers where pictures are put and removed
    Viewers,    \* browsers that only show them: the tills
    Photos,     \* the files that may be chosen
    Removals,   \* pictures are removed too
    LastChoice,\* bound: requests made
    NoPicture

VARIABLES
    image,      \* [Owners -> the row of entity_images, or NoPicture]
    versions,   \* [Screens -> the list as last read]
    cache,      \* [Screens -> what each address was served]
    request,    \* [Editors -> what was chosen and not answered, or NoPicture]
    requests    \* Nat: requests made

picturesVars == <<image, versions, cache, request, requests>>

Screens == Editors \cup Viewers
Or(S) == S \cup {NoPicture}

\* The versions there can be, each the number of puts since the first
Versions == 1..LastChoice
Images == [version: Versions, photo: Photos]
Choices == [owner: Owners, photo: Or(Photos), loaded: Or(Images),
             step: {"resizing", "sent", "checked", "done", "refused"}]

PicturesAssumption ==
    /\ Removals \in BOOLEAN
    /\ LastChoice \in Nat
    /\ NoPicture \notin Nat \cup Photos \cup Images \cup Choices

(* The pictures, the lists, the caches and the requests have their types.  *)
PicturesTypeOK ==
    /\ image \in [Owners -> Or(Images)]
    /\ versions \in [Screens -> [Owners -> Or(Versions)]]
    /\ cache \in [Screens -> [Owners \X Versions -> Or(Photos)]]
    /\ request \in [Editors -> Or(Choices)]
    /\ requests \in 0..LastChoice

PicturesInit ==
    /\ image = [o \in Owners |-> NoPicture]
    /\ versions = [b \in Screens |-> [o \in Owners |-> NoPicture]]
    /\ cache = [b \in Screens |-> [url \in Owners \X Versions |-> NoPicture]]
    /\ request = [e \in Editors |-> NoPicture]
    /\ requests = 0

-----------------------------------------------------------------------------
(* The lists and the pictures on a screen *)

Listing == [o \in Owners |-> IF image[o] = NoPicture THEN NoPicture ELSE image[o].version]

\* After a success, or when the catalogue has changed (useLiveCatalog)
ReadList(b) ==
    /\ versions' = [versions EXCEPT ![b] = Listing]
    /\ versions' # versions
    /\ UNCHANGED <<image, cache, request, requests>>

\* The browser asks for an address it does not have: the handler serves the
\* picture there is, whatever version the address names, and it may be kept.
Fetch(b, o) ==
    LET version == versions[b][o] IN
    /\ version # NoPicture
    /\ image[o] # NoPicture
    /\ cache[b][<<o, version>>] = NoPicture
    /\ cache' = [cache EXCEPT ![b][<<o, version>>] = image[o].photo]
    /\ UNCHANGED <<image, versions, request, requests>>

\* What is seen of a picture on a tab or on a button
Shown(b, o) == IF versions[b][o] = NoPicture THEN NoPicture ELSE cache[b][<<o, versions[b][o]>>]

-----------------------------------------------------------------------------
(* The picker *)

\* "Poner foto", "Cambiar foto" and "Quitar"
Ask(e, o, photo) ==
    /\ request[e] = NoPicture
    /\ photo = NoPicture => Removals /\ versions[e][o] # NoPicture
    /\ requests < LastChoice
    /\ requests' = requests + 1
    /\ request' = [request EXCEPT ![e] = [owner |-> o, photo |-> photo, loaded |-> NoPicture,
                      step |-> IF photo = NoPicture THEN "sent" ELSE "resizing"]]
    /\ UNCHANGED <<image, versions, cache>>

\* The file is shrunk before it is sent, if it can be read.
Resize(e) ==
    /\ request[e] # NoPicture
    /\ request[e].step = "resizing"
    /\ \E step \in {"sent", "refused"} : request' = [request EXCEPT ![e].step = step]
    /\ UNCHANGED <<image, versions, cache, requests>>

\* The handler loads the row.
Load(e) ==
    /\ request[e] # NoPicture
    /\ request[e].step = "sent"
    /\ LET r == request[e] IN
       request' = [request EXCEPT ![e] =
           IF r.photo = NoPicture /\ image[r.owner] = NoPicture THEN [r EXCEPT !.step = "refused"]
           ELSE [r EXCEPT !.step = "checked", !.loaded = image[r.owner]]]
    /\ UNCHANGED <<image, versions, cache, requests>>

\* Mutant: a put keeps the version of the picture it replaces.
Written_SameVersion(r) ==
    IF r.photo = NoPicture THEN NoPicture
    ELSE [version |-> IF r.loaded = NoPicture THEN 1 ELSE r.loaded.version, photo |-> r.photo]

\* What a put or a removal leaves: a first picture has version 1.
Written(r) ==
    IF r.photo = NoPicture THEN NoPicture
    ELSE [version |-> IF r.loaded = NoPicture THEN 1 ELSE r.loaded.version + 1, photo |-> r.photo]

\* One row per owner by a unique key, and an update needs its row.
CommitPicture(e) ==
    /\ request[e] # NoPicture
    /\ request[e].step = "checked"
    /\ LET r == request[e] IN
       IF (r.loaded = NoPicture) = (image[r.owner] = NoPicture)
       THEN /\ image' = [image EXCEPT ![r.owner] = Written(r)]
            /\ request' = [request EXCEPT ![e].step = "done"]
       ELSE request' = [request EXCEPT ![e].step = "refused"] /\ UNCHANGED image
    /\ UNCHANGED <<versions, cache, requests>>

AnswerPicture(e) ==
    /\ request[e] # NoPicture
    /\ request[e].step \in {"done", "refused"}
    /\ request' = [request EXCEPT ![e] = NoPicture]
    /\ UNCHANGED <<image, versions, cache, requests>>

-----------------------------------------------------------------------------
Progress(e) == Resize(e) \/ Load(e) \/ CommitPicture(e) \/ AnswerPicture(e)

PicturesNext ==
    \/ \E b \in Screens : ReadList(b) \/ \E o \in Owners : Fetch(b, o)
    \/ \E e \in Editors :
          \/ \E o \in Owners, photo \in Or(Photos) : Ask(e, o, photo)
          \/ Resize(e) \/ Load(e) \/ CommitPicture(e) \/ AnswerPicture(e)

\* Choices are answered, lists are read again after every change and
\* browsers load the pictures on the screen.
PicturesFairness ==
    /\ \A b \in Screens : WF_picturesVars(ReadList(b)) /\ \A o \in Owners : WF_picturesVars(Fetch(b, o))
    /\ \A e \in Editors : WF_picturesVars(Progress(e))

PicturesSpec == PicturesInit /\ [][PicturesNext]_picturesVars /\ PicturesFairness

-----------------------------------------------------------------------------
(* A browser whose list is up to date, and that has the picture of its       *)
(* address, has the picture that is stored (images/api.ts: what is at an     *)
(* address never changes).                                                  *)
PictureIsCurrent == \A b \in Screens, o \in Owners :
    (image[o] # NoPicture /\ versions[b][o] = Listing[o] /\ Shown(b, o) # NoPicture)
    => Shown(b, o) = image[o].photo

(* The same, with the types.  It holds where one browser puts pictures and   *)
(* none is removed (images.py, images/api.ts).                              *)
PicturesAgree == PicturesTypeOK /\ PictureIsCurrent

(* Every screen ends up with the last picture that was put.                *)
LastPictureShows == <>[](\A b \in Screens, o \in Owners :
    image[o] # NoPicture => Shown(b, o) = image[o].photo)
=============================================================================
