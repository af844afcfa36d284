---------------------------- MODULE RemoteResources ----------------------------
(***************************************************************************)
(* RemoteResourceManager over the S3RemoteResourceProvider: load asks for   *)
(* all resources of the append entities at once, keeps the answers by id,   *)
(* and then processes them one after the other.  Promise.all rejects with   *)
(* the first get that fails; the other gets go on and fill the map.         *)
(***************************************************************************)
EXTENDS Clients

CONSTANTS Requests      \* what prepareManager asks for, per entity

\* Two entities may share a script: two objects of one id, which a Set keeps both.
ASSUME RequestsAssumption ==
  /\ Requests # {}
  /\ \A r \in Requests : r.type \in {"script", "geometry"}
  /\ \A r, s \in Requests : r.id = s.id => r.type = s.type

VARIABLES remote,           \* per id, what kind of object the bucket has
          gets,             \* per request, its get
          resourceMap,      \* the resources fetched so far, by id
          loading           \* how far load is

resourceVars == <<remote, gets, resourceMap, loading>>

Ids == {r.id : r \in Requests}

\* A script is any text; a geometry has to be a geojson or a bounding box.
Objects == {"text", "geojson", "bbox", "otherJson", "missing"}

Loading == {"no", "getting", "processing", "resolved", "failed"}

ResourceInit ==
  /\ remote \in [Ids -> Objects]
  /\ gets = [r \in Requests |-> "none"]
  /\ resourceMap = <<>>
  /\ loading = "no"

ResourceTypeOK ==
  /\ remote \in [Ids -> Objects]
  /\ gets \in [Requests -> {"none", "pending", "answered", "failed"}]
  /\ \A id \in DOMAIN resourceMap :
       id \in Ids /\ resourceMap[id] \in
         [type : {"script", "geometry"}, content : Objects, processed : BOOLEAN]
  /\ loading \in Loading

startLoad ==
  /\ loading = "no"
  /\ loading' = "getting"
  /\ gets' = [r \in Requests |-> "pending"]
  /\ UNCHANGED <<remote, resourceMap>>

\* The entry of an id is made once more by every request for it.
fetched(r) ==
  [id \in DOMAIN resourceMap \cup {r.id} |->
     IF id = r.id THEN [type |-> r.type, content |-> remote[id], processed |-> FALSE]
                  ELSE resourceMap[id]]

\* A variant with a plausible slip: the first answer is enough (Promise.any).
resourceFetchedFirst(r) ==
  /\ gets[r] = "pending" /\ remote[r.id] # "missing"
  /\ gets' = [gets EXCEPT ![r] = "answered"]
  /\ resourceMap' = fetched(r)
  /\ loading' = IF loading = "getting" THEN "processing" ELSE loading
  /\ UNCHANGED remote

resourceFetched(r) ==
  /\ gets[r] = "pending" /\ remote[r.id] # "missing"
  /\ gets' = [gets EXCEPT ![r] = "answered"]
  /\ resourceMap' = fetched(r)
  /\ loading' = IF \A q \in Requests : gets'[q] = "answered" THEN "processing" ELSE loading
  /\ UNCHANGED remote

\* A get fails: the object is missing, or the store or the stream breaks.
resourceFails(r) ==
  /\ gets[r] = "pending"
  /\ gets' = [gets EXCEPT ![r] = "failed"]
  /\ loading' = IF loading = "getting" THEN "failed" ELSE loading
  /\ UNCHANGED <<remote, resourceMap>>

isValid(resource) ==
  resource.type = "script" \/ resource.content \in {"geojson", "bbox"}

\* A script is written to the local disk, a geometry becomes a filter.
processed(id) ==
  /\ loading = "processing"
  /\ ~resourceMap[id].processed /\ isValid(resourceMap[id])
  /\ resourceMap' = [resourceMap EXCEPT ![id].processed = TRUE]
  /\ loading' = IF \A i \in DOMAIN resourceMap : resourceMap'[i].processed
                THEN "resolved" ELSE "processing"
  /\ UNCHANGED <<remote, gets>>

\* The codes of what can go wrong with a resource: the local disk, text that is
\* no JSON, JSON that is no geometry.
processFailures(resource) ==
  CASE resource.type = "script"        -> plainError
    [] isValid(resource)               -> {}
    [] resource.content = "text"       -> plainError
    [] OTHER                           -> {"INVALID_GEOMETRY_ERROR"}

processFails(id) ==
  /\ loading = "processing" /\ ~resourceMap[id].processed
  /\ loading' = "failed"
  /\ UNCHANGED <<remote, gets, resourceMap>>
=============================================================================
