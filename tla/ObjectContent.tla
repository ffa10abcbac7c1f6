---------------------------- MODULE ObjectContent ----------------------------
(***************************************************************************)
(* How a ConfigMap or a Secret holds the configurations that are synced:   *)
(* pkg/nacos/util.go and the wrappers of pkg/nacos/object_reference_       *)
(* wrapper.go.                                                             *)
(*                                                                         *)
(* A content is a non-empty string.  Only two facts about a string decide  *)
(* anything in the code: whether it starts with "{" or "[" (Json) and      *)
(* whether base64.StdEncoding decodes it (Base64).  The bytes of a Secret  *)
(* are represented by the one string EncodeToString returns for them, so   *)
(* decoding c yields Canonical[c]; a base64 text with line breaks decodes  *)
(* but is not its own canonical form.                                      *)
(***************************************************************************)

CONSTANTS
    DataIds,    \* keys of the object, the data ids of its Nacos group
    Contents,   \* non-empty contents
    Json,       \* the contents StoreContent puts into BinaryData
    Base64,     \* the contents StoreSecretContent can decode
    Canonical,  \* EncodeToString(DecodeString(c))
    Empty,      \* the empty string, and "no such config" on the Nacos server
    Absent,     \* the key is not in the map
    Kind        \* "ConfigMap" or "Secret"

ASSUME ContentAssumption ==
    /\ Json \subseteq Contents
    /\ Base64 \subseteq Contents
    /\ Canonical \in [Base64 -> Base64]
    /\ \A c \in Base64 : Canonical[Canonical[c]] = Canonical[c]
    /\ Empty \notin Contents
    /\ Absent \notin Contents \cup {Empty}
    /\ Kind \in {"ConfigMap", "Secret"}

Texts == Contents \cup {Empty}
Slots == Texts \cup {Absent}

(***************************************************************************)
(* The object as the API server keeps it.  A Secret uses data only.        *)
(***************************************************************************)
Objects == [exists : BOOLEAN, deleting : BOOLEAN, fin : BOOLEAN,
            data : [DataIds -> Slots], binary : [DataIds -> Slots]]

NoKeys == [d \in DataIds |-> Absent]

NoObject == [exists |-> FALSE, deleting |-> FALSE, fin |-> FALSE,
             data |-> NoKeys, binary |-> NoKeys]

\* The object Reload creates when the referenced one is not found.
NewObject == [NoObject EXCEPT !.exists = TRUE]

GetAllKeys(o) == {d \in DataIds : o.data[d] # Absent \/ o.binary[d] # Absent}

\* Data wins over BinaryData; a missing key reads as the empty string.
GetContent(o, d) ==
    CASE o.data[d] # Absent                            -> o.data[d]
      [] o.data[d] = Absent /\ o.binary[d] # Absent    -> o.binary[d]
      [] OTHER                                         -> Empty

\* StoreSecretContent fails on a content that is not base64; the empty string
\* decodes to no bytes.
CanStore(c) == Kind = "Secret" => c \in Base64 \cup {Empty}

\* Mutation: the content is not stored.
StoreContentNothing(o, d, c) == o

\* Neither map entry is ever removed: a JSON text goes to BinaryData whether
\* or not Data has the key, any other text to Data.
StoreContent(o, d, c) ==
    IF Kind = "Secret"
    THEN [o EXCEPT !.data[d] = IF c = Empty THEN Empty ELSE Canonical[c]]
    ELSE IF c \in Json THEN [o EXCEPT !.binary[d] = c]
                       ELSE [o EXCEPT !.data[d] = c]

-----------------------------------------------------------------------------
(***************************************************************************)
(* The API server (external): a ConfigMap with a key in both maps is       *)
(* rejected, and an object marked for deletion goes with its finalizer.    *)
(***************************************************************************)
Valid(o) == \A d \in DataIds : o.data[d] = Absent \/ o.binary[d] = Absent

Collected(o) == IF o.deleting /\ ~o.fin THEN NoObject ELSE o

\* A user writes key d of the object, or removes it (v = Absent).
UserPut(o, d, v) == [o EXCEPT !.data[d] = v, !.binary[d] = Absent]
=============================================================================
