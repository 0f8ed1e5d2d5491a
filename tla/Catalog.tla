-------------------------------- MODULE Catalog --------------------------------
(***************************************************************************)
(* What the semantic storage promises its users: a catalog of published    *)
(* versions of libraries and datasets. A version appears whole or not at   *)
(* all, with the sources of the create call that made it, it is later than *)
(* every version of its component and branch before it, and it never       *)
(* changes. Nothing is said of files, heads or mappings.                   *)
(***************************************************************************)
EXTENDS Naturals

VARIABLES
  catalog,   \* entries [comp, branch, ver, src]: published versions
  attempts   \* number of create calls; the src of an entry is one of them

catalogVars == <<catalog, attempts>>

CatalogInit ==
  /\ catalog = {}
  /\ attempts = 0

(* Versions are <<api_version, inc_version>> pairs. *)
Later(v, w) == v[1] > w[1] \/ (v[1] = w[1] /\ v[2] > w[2])

(* LibraryManager.create or DatasetManager.create is called. *)
Attempt ==
  /\ attempts' = attempts + 1
  /\ UNCHANGED catalog

(* The version of the latest call can be read from now on. *)
Publish ==
  /\ \E e \in catalog' :
        /\ e.src = attempts
        /\ catalog' = catalog \cup {e}
        /\ \A f \in catalog :
              f.comp = e.comp /\ f.branch = e.branch => Later(e.ver, f.ver)
  /\ \A f \in catalog : f.src < attempts
  /\ UNCHANGED attempts

CatalogNext == Attempt \/ Publish

CatalogSpec == CatalogInit /\ [][CatalogNext]_catalogVars
================================================================================
