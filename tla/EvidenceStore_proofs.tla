------------------------- MODULE EvidenceStore_proofs -------------------------
(***************************************************************************)
(* Proofs about EvidenceStore, for any number of files, obligations,       *)
(* overlapping requests and failures.                                      *)
(***************************************************************************)
EXTENDS EvidenceStore, TLAPS, FiniteSetTheorems

-----------------------------------------------------------------------------
(* The inductive invariants. *)

Uploading(p) == p.pc \in {"uploadStore", "uploadRow", "uploadClean"}
Deleting(p)  == p.pc \in {"deleteRow", "deleteFile"}

\* Each upload has a key of its own, made before and in no row yet; and what a
\* deletion is about to take away is named by no row any more.
KeyInv ==
  /\ \A d \in docs : d.key.n <= minted["doc"] /\ \A e \in docs : d.key = e.key => d = e
  /\ \A r \in Requests : Uploading(req[r]) =>
       /\ req[r].key.n <= minted["doc"]
       /\ \A d \in docs : d.key # req[r].key
       /\ \A q \in Requests \ {r} : Uploading(req[q]) => req[q].key # req[r].key
       /\ \A q \in Requests : Deleting(req[q]) => req[q].doc.key # req[r].key
  /\ \A r \in Requests : Deleting(req[r]) => req[r].doc.key.n <= minted["doc"]
  /\ \A r \in Requests : req[r].pc = "deleteFile" => \A d \in docs : d.key # req[r].doc.key

\* The objects that the rows name, or are about to, are in the bucket.
StoredInv ==
  ~condemned =>
    /\ \A d \in docs : d.key \in objects
    /\ \A r \in Requests : req[r].pc = "uploadRow" => req[r].key \in objects

\* A request holds a key while it still means to name it or to remove it.
Holding(p, k) == \/ p.pc \in {"uploadRow", "uploadClean"} /\ k = p.key
                 \/ p.pc = "deleteFile" /\ k = p.doc.key

\* The evidence objects that no row and no request knows of, each by a fault.
Lost    == {k \in objects \ (Named \cup InHand) : k.kind = "doc"}
LostInv == IsFiniteSet(objects) /\ (~condemned => Cardinality(Lost) <= faults)

-----------------------------------------------------------------------------
(* Types. *)

\* What a request is in the middle of, by its step.
LEMMA OfReq ==
  ASSUME NEW p \in Reqs
  PROVE  /\ p.pc \in {"idle", "uploadStore", "uploadRow", "uploadClean", "deleteRow", "deleteFile", "logoStore",
                      "logoRow", "logoOld", "unlogo", "edgeLogoRow", "certStore", "certRow", "condemn"}
         /\ Uploading(p) => p.key \in KeysOf("doc") /\ p.file \in Files /\ p.item \in Items \cup {NoItem}
         /\ Deleting(p) => p.doc \in Docs
         /\ p.pc \in {"logoStore", "logoRow", "logoOld"} =>
              p.key \in KeysOf("logo") /\ p.old \in KeysOf("logo") \cup {EdgeKey, NoKey}
         /\ p.pc \in {"certStore", "certRow"} => p.key \in KeysOf("cert")
         /\ p.pc = "condemn" => p.keys \subseteq Keys \cup {EdgeKey}
<1>1. CASE p = Idle
  BY <1>1 DEF Idle, Uploading, Deleting
<1>2. CASE p \in [pc : {"uploadStore", "uploadRow", "uploadClean"},
                  key : KeysOf("doc"), file : Files, item : Items \cup {NoItem}]
  BY <1>2 DEF Uploading, Deleting
<1>3. CASE p \in [pc : {"deleteRow", "deleteFile"}, doc : Docs]
  BY <1>3 DEF Uploading, Deleting
<1>4. CASE p \in [pc : {"logoStore", "logoRow", "logoOld"},
                  key : KeysOf("logo"), old : KeysOf("logo") \cup {EdgeKey, NoKey}]
  BY <1>4 DEF Uploading, Deleting
<1>5. CASE p \in [pc : {"unlogo", "edgeLogoRow"}]
  BY <1>5 DEF Uploading, Deleting
<1>6. CASE p \in [pc : {"certStore", "certRow"}, key : KeysOf("cert")]
  BY <1>6 DEF Uploading, Deleting
<1>7. CASE p \in [pc : {"condemn"}, keys : SUBSET (Keys \cup {EdgeKey})]
  BY <1>7 DEF Uploading, Deleting
<1> QED  BY <1>1, <1>2, <1>3, <1>4, <1>5, <1>6, <1>7 DEF Reqs

\* A request that goes on keeps what it holds.
LEMMA GoneOn ==
  ASSUME NEW p \in Reqs, NEW next,
         \/ Uploading(p) /\ next \in {"uploadRow", "uploadClean"}
         \/ Deleting(p) /\ next = "deleteFile"
         \/ p.pc \in {"logoStore", "logoRow"} /\ next \in {"logoRow", "logoOld"}
         \/ p.pc = "certStore" /\ next = "certRow"
  PROVE  /\ [p EXCEPT !.pc = next] \in Reqs
         /\ [p EXCEPT !.pc = next].pc = next
         /\ Uploading(p) => [p EXCEPT !.pc = next].key = p.key
         /\ Deleting(p) => [p EXCEPT !.pc = next].doc = p.doc
<1>1. CASE p = Idle
  BY <1>1 DEF Idle, Uploading, Deleting
<1>2. CASE p \in [pc : {"uploadStore", "uploadRow", "uploadClean"},
                  key : KeysOf("doc"), file : Files, item : Items \cup {NoItem}]
  BY <1>2 DEF Uploading, Deleting, Reqs
<1>3. CASE p \in [pc : {"deleteRow", "deleteFile"}, doc : Docs]
  BY <1>3 DEF Uploading, Deleting, Reqs
<1>4. CASE p \in [pc : {"logoStore", "logoRow", "logoOld"},
                  key : KeysOf("logo"), old : KeysOf("logo") \cup {EdgeKey, NoKey}]
  BY <1>4 DEF Uploading, Deleting, Reqs
<1>5. CASE p \in [pc : {"unlogo", "edgeLogoRow"}]
  BY <1>5 DEF Uploading, Deleting
<1>6. CASE p \in [pc : {"certStore", "certRow"}, key : KeysOf("cert")]
  BY <1>6 DEF Uploading, Deleting, Reqs
<1>7. CASE p \in [pc : {"condemn"}, keys : SUBSET (Keys \cup {EdgeKey})]
  BY <1>7 DEF Uploading, Deleting
<1> QED  BY <1>1, <1>2, <1>3, <1>4, <1>5, <1>6, <1>7 DEF Reqs

\* The key that is made next is a new one of its kind.
LEMMA NextKeyType ==
  ASSUME EvidenceStoreAssumption, TypeOK, NEW kind \in Kinds, Mint(kind)
  PROVE  /\ NextKey(kind) \in KeysOf(kind)
         /\ NextKey(kind).n = minted[kind] + 1
         /\ minted' \in [Kinds -> Nat] /\ \A k \in Kinds : minted'[k] <= MaxKeys[k]
         /\ minted'[kind] = minted[kind] + 1 /\ \A k \in Kinds \ {kind} : minted'[k] = minted[k]
  BY DEF EvidenceStoreAssumption, TypeOK, Mint, NextKey, KeysOf, Keys

LEMMA HoldType ==
  ASSUME TypeOK, NEW r \in Requests, NEW p \in Reqs, Hold(r, p)
  PROVE  req' \in [Requests -> Reqs]
  BY DEF TypeOK, Hold

LEMMA FaultsType ==
  ASSUME EvidenceStoreAssumption, TypeOK, Fault \/ Well
  PROVE  faults' \in 0..MaxFaults
  BY DEF EvidenceStoreAssumption, TypeOK, Fault, Well

\* Storing and discarding keep the bucket's keys well formed, and count a fault.
LEMMA StoreType ==
  ASSUME EvidenceStoreAssumption, TypeOK, NEW r \in Requests, NEW next, Store(r, next),
         req[r].key \in Keys, [req[r] EXCEPT !.pc = next] \in Reqs
  PROVE  TypeOK'
<1>1. Idle \in Reqs
  BY DEF Reqs
<1>2. CASE objects' = objects \cup {req[r].key} /\ Well /\ GoTo(r, next)
  BY <1>2, HoldType, FaultsType DEF Store, GoTo, TypeOK, rows
<1>3. CASE Fault /\ UNCHANGED objects /\ Done(r)
  BY <1>1, <1>3, HoldType, FaultsType DEF Store, Done, TypeOK, rows
<1> QED  BY <1>2, <1>3 DEF Store

LEMMA DiscardType ==
  ASSUME EvidenceStoreAssumption, TypeOK, NEW r \in Requests, NEW key, Discard(key),
         NEW p \in Reqs, Hold(r, p), UNCHANGED <<rows, minted>>, condemned' \in BOOLEAN
  PROVE  TypeOK'
<1>1. objects' \subseteq objects /\ (Fault \/ Well)
  BY DEF Discard
<1> QED  BY <1>1, HoldType, FaultsType DEF TypeOK, rows

LEMMA TypeStep ==
  ASSUME EvidenceStoreAssumption, TypeOK, NEW r \in Requests, Request(r)
  PROVE  TypeOK'
<1> DEFINE p == req[r]
<1>1. p \in Reqs /\ Idle \in Reqs
  BY DEF TypeOK, Reqs
<1>2. \A kind \in Kinds : KeysOf(kind) \subseteq Keys
  BY DEF KeysOf
<1>3. /\ "doc" \in Kinds /\ "logo" \in Kinds /\ "cert" \in Kinds
  BY DEF Kinds
<1>4. CASE UploadRead(r)
  <2>1. PICK f \in Files, i \in Items \cup {NoItem} :
          Hold(r, [pc |-> "uploadStore", key |-> NextKey("doc"), file |-> f, item |-> i])
    BY <1>4 DEF UploadRead
  <2>2. [pc |-> "uploadStore", key |-> NextKey("doc"), file |-> f, item |-> i] \in Reqs
    BY <1>3, <1>4, NextKeyType DEF UploadRead, Reqs
  <2> QED  BY <1>3, <1>4, <2>1, <2>2, HoldType, NextKeyType DEF UploadRead, TypeOK, rows
<1>5. CASE UploadStore(r)
  <2>1. [p EXCEPT !.pc = "uploadRow"] \in Reqs /\ p.key \in Keys
    BY <1>1, <1>2, <1>3, <1>5, OfReq, GoneOn DEF UploadStore, At, Uploading
  <2> QED  BY <1>5, <2>1, StoreType DEF UploadStore
<1>6. CASE UploadRow(r)
  <2>1. /\ [p EXCEPT !.pc = "uploadClean"] \in Reqs
        /\ [key |-> p.key, file |-> p.file, item |-> p.item] \in Docs
    BY <1>1, <1>6, OfReq, GoneOn DEF UploadRow, At, Uploading, Docs
  <2>2. req' \in [Requests -> Reqs] /\ faults' \in 0..MaxFaults
    BY <1>1, <1>6, <2>1, HoldType, FaultsType DEF UploadRow, GoTo, Done
  <2> QED  BY <1>6, <2>1, <2>2 DEF UploadRow, TypeOK, rows
<1>7. CASE UploadClean(r)
  BY <1>1, <1>7, DiscardType DEF UploadClean, Done, TypeOK
<1>8. CASE DeleteRead(r)
  <2>1. PICK d \in docs : Hold(r, [pc |-> "deleteRow", doc |-> d])
    BY <1>8 DEF DeleteRead
  <2>2. [pc |-> "deleteRow", doc |-> d] \in Reqs
    BY <2>1 DEF TypeOK, Reqs
  <2> QED  BY <1>8, <2>1, <2>2, HoldType DEF DeleteRead, TypeOK, rows
<1>9. CASE DeleteRow(r)
  <2>1. [p EXCEPT !.pc = "deleteFile"] \in Reqs
    BY <1>1, <1>9, GoneOn DEF DeleteRow, At, Deleting
  <2>2. req' \in [Requests -> Reqs] /\ faults' \in 0..MaxFaults
    BY <1>1, <1>9, <2>1, HoldType, FaultsType DEF DeleteRow, GoTo, Done
  <2> QED  BY <1>9, <2>2 DEF DeleteRow, TypeOK, rows
<1>10. CASE DeleteFile(r)
  BY <1>1, <1>10, DiscardType DEF DeleteFile, Done, TypeOK
<1>11. CASE LogoRead(r)
  <2>1. [pc |-> "logoStore", key |-> NextKey("logo"), old |-> logo] \in Reqs
    BY <1>3, <1>11, NextKeyType DEF LogoRead, Reqs, TypeOK
  <2> QED  BY <1>3, <1>11, <2>1, HoldType, NextKeyType DEF LogoRead, TypeOK, rows
<1>12. CASE LogoStore(r)
  <2>1. [p EXCEPT !.pc = "logoRow"] \in Reqs /\ p.key \in Keys
    BY <1>1, <1>2, <1>3, <1>12, OfReq, GoneOn DEF LogoStore, At
  <2> QED  BY <1>12, <2>1, StoreType DEF LogoStore
<1>13. CASE LogoRow(r)
  <2>1. [p EXCEPT !.pc = "logoOld"] \in Reqs /\ p.key \in KeysOf("logo")
    BY <1>1, <1>13, OfReq, GoneOn DEF LogoRow, At
  <2>2. req' \in [Requests -> Reqs] /\ faults' \in 0..MaxFaults
    BY <1>1, <1>13, <2>1, HoldType, FaultsType DEF LogoRow, GoTo, Done
  <2> QED  BY <1>13, <2>1, <2>2 DEF LogoRow, TypeOK
<1>14. CASE LogoOld(r)
  BY <1>1, <1>14, DiscardType DEF LogoOld, Done, TypeOK
<1>15. CASE RemoveLogoFile(r)
  <2>1. [pc |-> "unlogo"] \in Reqs
    BY DEF Reqs
  <2> QED  BY <1>15, <2>1, DiscardType DEF RemoveLogoFile, TypeOK
<1>16. CASE RemoveLogoRow(r)
  BY <1>1, <1>16, HoldType, FaultsType DEF RemoveLogoRow, Done, TypeOK
<1>17. CASE EdgeLogoStore(r)
  <2>1. [pc |-> "edgeLogoRow"] \in Reqs
    BY DEF Reqs
  <2> QED  BY <1>17, <2>1, HoldType, FaultsType DEF EdgeLogoStore, TypeOK, rows
<1>18. CASE EdgeLogoRow(r)
  BY <1>1, <1>18, HoldType, FaultsType DEF EdgeLogoRow, Done, TypeOK
<1>19. CASE CertRead(r)
  <2>1. [pc |-> "certStore", key |-> NextKey("cert")] \in Reqs
    BY <1>3, <1>19, NextKeyType DEF CertRead, Reqs
  <2> QED  BY <1>3, <1>19, <2>1, HoldType, NextKeyType DEF CertRead, TypeOK, rows
<1>20. CASE CertStore(r)
  <2>1. [p EXCEPT !.pc = "certRow"] \in Reqs /\ p.key \in Keys
    BY <1>1, <1>2, <1>3, <1>20, OfReq, GoneOn DEF CertStore, At
  <2> QED  BY <1>20, <2>1, StoreType DEF CertStore
<1>21. CASE CertRow(r)
  <2>1. p.key \in KeysOf("cert")
    BY <1>1, <1>21, OfReq DEF CertRow, At
  <2>2. req' \in [Requests -> Reqs] /\ faults' \in 0..MaxFaults
    BY <1>1, <1>21, HoldType, FaultsType DEF CertRow, Done
  <2> QED  BY <1>21, <2>1, <2>2 DEF CertRow, TypeOK
<1>22. CASE CondemnRead(r)
  <2> DEFINE keys == {d.key : d \in docs} \cup ({logo, cert} \ {NoKey})
  <2>1. keys \subseteq Keys \cup {EdgeKey}
    BY <1>2, <1>3 DEF TypeOK, Docs
  <2>2. [pc |-> "condemn", keys |-> keys] \in Reqs
    BY <2>1 DEF Reqs
  <2> QED  BY <1>22, <2>2, HoldType DEF CondemnRead, TypeOK, rows
<1>23. CASE CondemnFile(r)
  <2>1. PICK key \in p.keys : Discard(key) /\ Hold(r, [p EXCEPT !.keys = @ \ {key}])
    BY <1>23 DEF CondemnFile
  <2>2. p \in [pc : {"condemn"}, keys : SUBSET (Keys \cup {EdgeKey})]
    BY <1>1, <1>23 DEF CondemnFile, At, Reqs, Idle
  <2>3. [p EXCEPT !.keys = @ \ {key}] \in Reqs
    BY <2>2 DEF Reqs
  <2>4. UNCHANGED <<rows, minted>> /\ condemned' \in BOOLEAN
    BY <1>23 DEF CondemnFile
  <2> QED  BY <2>1, <2>3, <2>4, DiscardType
<1>24. CASE CondemnRow(r)
  BY <1>1, <1>24, HoldType, FaultsType DEF CondemnRow, Gone, Done, TypeOK, rows
<1>25. CASE EdgeDelete(r)
  BY <1>25 DEF EdgeDelete, Gone, TypeOK
<1>26. CASE Die(r)
  BY <1>1, <1>26, HoldType, FaultsType DEF Die, Done, TypeOK, rows
<1> QED
  BY <1>4, <1>5, <1>6, <1>7, <1>8, <1>9, <1>10, <1>11, <1>12, <1>13, <1>14, <1>15, <1>16, <1>17,
     <1>18, <1>19, <1>20, <1>21, <1>22, <1>23, <1>24, <1>25, <1>26 DEF Request

\* Rows, objects and requests keep their form, for any number of requests.
THEOREM EvidenceTypeCorrect == Spec => []TypeOK
<1>1. Init => TypeOK
  <2>1. Idle \in Reqs
    BY DEF Reqs
  <2>2. \A kind \in Kinds : 0 <= MaxKeys[kind]
    BY EvidenceStoreAssumption DEF EvidenceStoreAssumption
  <2>3. 0 \in 0..MaxFaults
    BY EvidenceStoreAssumption DEF EvidenceStoreAssumption
  <2>4. Init => minted \in [Kinds -> Nat] /\ \A kind \in Kinds : minted[kind] <= MaxKeys[kind]
    BY <2>2 DEF Init
  <2>5. Init => req \in [Requests -> Reqs]
    BY <2>1 DEF Init
  <2>6. Init => /\ company \in BOOLEAN /\ docs \subseteq Docs /\ objects \subseteq Keys \cup {EdgeKey}
                /\ logo \in KeysOf("logo") \cup {EdgeKey, NoKey} /\ cert \in KeysOf("cert") \cup {NoKey}
                /\ faults \in 0..MaxFaults /\ condemned \in BOOLEAN
    BY <2>3 DEF Init
  <2> QED  BY <2>4, <2>5, <2>6 DEF TypeOK
<1>2. TypeOK /\ [Next]_vars => TypeOK'
  <2>1. CASE Next
    BY <2>1, TypeStep, EvidenceStoreAssumption DEF Next
  <2>2. CASE UNCHANGED vars
    BY <2>2 DEF vars, TypeOK
  <2> QED  BY <2>1, <2>2
<1> QED  BY <1>1, <1>2, PTL DEF Spec

-----------------------------------------------------------------------------
(* No two documents share an object. *)

\* A request that takes up no key keeps the keys apart.
LEMMA KeysKept ==
  ASSUME TypeOK, KeyInv, NEW r \in Requests, NEW p, Hold(r, p),
         docs' \subseteq docs, minted'["doc"] \in Nat, minted["doc"] <= minted'["doc"],
         Uploading(p) => Uploading(req[r]) /\ p.key = req[r].key,
         Deleting(p) => Deleting(req[r]) /\ p.doc = req[r].doc,
         p.pc = "deleteFile" => req[r].pc = "deleteFile" \/ \A d \in docs' : d.key # p.doc.key
  PROVE  KeyInv'
<1>1. /\ req'[r] = p
      /\ \A q \in Requests \ {r} : req'[q] = req[q]
  BY DEF Hold, TypeOK
<1>2. /\ minted["doc"] \in Nat
      /\ \A d \in docs : d.key.n \in Nat
      /\ \A q \in Requests : Uploading(req[q]) => req[q].key.n \in Nat
      /\ \A q \in Requests : Deleting(req[q]) => req[q].doc.key.n \in Nat
  <2>1. \A q \in Requests : req[q] \in Reqs
    BY DEF TypeOK
  <2> QED  BY <2>1, OfReq DEF TypeOK, Docs, KeysOf, Keys, Kinds
<1>3. \A q \in Requests : /\ Uploading(req'[q]) => Uploading(req[q]) /\ req'[q].key = req[q].key
                          /\ Deleting(req'[q]) => Deleting(req[q]) /\ req'[q].doc = req[q].doc
  BY <1>1
<1>4. \A q \in Requests : req'[q].pc = "deleteFile" => \A d \in docs' : d.key # req'[q].doc.key
  <2>1. \A q \in Requests : req[q].pc = "deleteFile" => \A d \in docs' : d.key # req[q].doc.key
    BY DEF KeyInv
  <2> QED  BY <1>1, <2>1 DEF Deleting
<1>5. /\ \A d \in docs' : d.key.n <= minted'["doc"] /\ \A e \in docs' : d.key = e.key => d = e
  BY <1>2 DEF KeyInv
<1>6. \A q \in Requests : Deleting(req'[q]) => req'[q].doc.key.n <= minted'["doc"]
  BY <1>2, <1>3 DEF KeyInv
<1>7. \A q \in Requests : Uploading(req'[q]) => req'[q].key.n <= minted'["doc"]
  BY <1>2, <1>3 DEF KeyInv
<1>8. \A q \in Requests : Uploading(req'[q]) =>
        /\ \A d \in docs' : d.key # req'[q].key
        /\ \A o \in Requests \ {q} : Uploading(req'[o]) => req'[o].key # req'[q].key
        /\ \A o \in Requests : Deleting(req'[o]) => req'[o].doc.key # req'[q].key
  BY <1>3 DEF KeyInv
<1> QED  BY <1>4, <1>5, <1>6, <1>7, <1>8 DEF KeyInv, Uploading, Deleting

\* What every request and row holds was made before.
LEMMA Made ==
  ASSUME TypeOK
  PROVE  /\ minted["doc"] \in Nat
         /\ \A d \in docs : d.key.n \in Nat
         /\ \A q \in Requests : req[q] \in Reqs
         /\ \A q \in Requests : Uploading(req[q]) => req[q].key.n \in Nat
         /\ \A q \in Requests : Deleting(req[q]) => req[q].doc.key.n \in Nat
<1>1. \A q \in Requests : req[q] \in Reqs
  BY DEF TypeOK
<1> QED  BY <1>1, OfReq DEF TypeOK, Docs, KeysOf, Keys, Kinds

\* An upload begins with a key that nobody has.
LEMMA KeysBegun ==
  ASSUME EvidenceStoreAssumption, TypeOK, KeyInv, NEW r \in Requests, UploadRead(r)
  PROVE  KeyInv'
<1>1. PICK f \in Files, i \in Items \cup {NoItem} :
        Hold(r, [pc |-> "uploadStore", key |-> NextKey("doc"), file |-> f, item |-> i])
  BY DEF UploadRead
<1>2. /\ req'[r].pc = "uploadStore" /\ req'[r].key = NextKey("doc")
      /\ \A q \in Requests \ {r} : req'[q] = req[q]
  BY <1>1 DEF Hold, TypeOK
<1>3. /\ NextKey("doc").n = minted["doc"] + 1 /\ minted'["doc"] = minted["doc"] + 1
      /\ docs' = docs
  BY NextKeyType DEF UploadRead, Kinds, rows
<1>4. /\ \A d \in docs' : d.key.n <= minted["doc"] /\ d.key # NextKey("doc")
      /\ \A q \in Requests \ {r} : Uploading(req'[q]) => req'[q].key.n <= minted["doc"] /\ req'[q].key # NextKey("doc")
      /\ \A q \in Requests \ {r} : Deleting(req'[q]) => req'[q].doc.key.n <= minted["doc"] /\ req'[q].doc.key # NextKey("doc")
  BY <1>2, <1>3, Made DEF KeyInv
<1>5. /\ Uploading(req'[r]) /\ ~Deleting(req'[r]) /\ req'[r].pc # "deleteFile"
  BY <1>2 DEF Uploading, Deleting
<1>6. \A d \in docs' : d.key.n <= minted'["doc"] /\ \A e \in docs' : d.key = e.key => d = e
  BY <1>3, Made DEF KeyInv
<1>7. \A q \in Requests : Uploading(req'[q]) =>
        /\ req'[q].key.n <= minted'["doc"]
        /\ \A d \in docs' : d.key # req'[q].key
  BY <1>2, <1>3, <1>4, Made DEF KeyInv
<1>8. \A q \in Requests : Uploading(req'[q]) =>
        /\ \A o \in Requests \ {q} : Uploading(req'[o]) => req'[o].key # req'[q].key
        /\ \A o \in Requests : Deleting(req'[o]) => req'[o].doc.key # req'[q].key
  BY <1>2, <1>4, <1>5 DEF KeyInv
<1>9. \A q \in Requests : Deleting(req'[q]) => req'[q].doc.key.n <= minted'["doc"]
  BY <1>2, <1>3, <1>5, Made DEF KeyInv
<1>10. \A q \in Requests : req'[q].pc = "deleteFile" => \A d \in docs' : d.key # req'[q].doc.key
  BY <1>2, <1>3, <1>5 DEF KeyInv
<1> QED  BY <1>6, <1>7, <1>8, <1>9, <1>10 DEF KeyInv, Uploading, Deleting

\* The row takes over the key that its upload held.
LEMMA KeysFiled ==
  ASSUME TypeOK, KeyInv, NEW r \in Requests, At(r, "uploadRow"), Done(r), UNCHANGED minted,
         docs' = docs \cup {[key |-> req[r].key, file |-> req[r].file, item |-> req[r].item]}
  PROVE  KeyInv'
<1> DEFINE doc == [key |-> req[r].key, file |-> req[r].file, item |-> req[r].item]
<1>1. /\ req'[r] = Idle
      /\ \A q \in Requests \ {r} : req'[q] = req[q]
  BY DEF Done, Hold, TypeOK
<1>2. /\ Uploading(req[r]) /\ doc.key = req[r].key
      /\ ~Uploading(req'[r]) /\ ~Deleting(req'[r]) /\ req'[r].pc # "deleteFile"
  BY <1>1 DEF At, Uploading, Deleting, Idle
<1>3. docs' = docs \cup {doc} /\ minted' = minted
  OBVIOUS
<1> HIDE DEF doc
<1>4. \A d \in docs' : d.key.n <= minted'["doc"] /\ \A e \in docs' : d.key = e.key => d = e
  BY <1>2, <1>3 DEF KeyInv
<1>5. \A q \in Requests : Uploading(req'[q]) =>
        /\ req'[q].key.n <= minted'["doc"]
        /\ \A d \in docs' : d.key # req'[q].key
        /\ \A o \in Requests \ {q} : Uploading(req'[o]) => req'[o].key # req'[q].key
        /\ \A o \in Requests : Deleting(req'[o]) => req'[o].doc.key # req'[q].key
  BY <1>1, <1>2, <1>3 DEF KeyInv
<1>6. \A q \in Requests : Deleting(req'[q]) => req'[q].doc.key.n <= minted'["doc"]
  BY <1>1, <1>2, <1>3 DEF KeyInv
<1>7. \A q \in Requests : req'[q].pc = "deleteFile" => \A d \in docs' : d.key # req'[q].doc.key
  <2>1. ASSUME NEW q \in Requests, req'[q].pc = "deleteFile"  PROVE \A d \in docs' : d.key # req'[q].doc.key
    <3>1. q # r /\ req'[q] = req[q] /\ Deleting(req[q])
      BY <1>1, <1>2, <2>1 DEF Deleting
    <3> QED  BY <1>2, <1>3, <2>1, <3>1 DEF KeyInv
  <2> QED  BY <2>1
<1> QED  BY <1>4, <1>5, <1>6, <1>7 DEF KeyInv, Uploading, Deleting

\* A deletion takes up a document that is there.
LEMMA KeysDoomed ==
  ASSUME TypeOK, KeyInv, NEW r \in Requests, NEW d \in docs, Hold(r, [pc |-> "deleteRow", doc |-> d]),
         UNCHANGED <<docs, minted>>
  PROVE  KeyInv'
<1>1. /\ req'[r].pc = "deleteRow" /\ req'[r].doc = d
      /\ \A q \in Requests \ {r} : req'[q] = req[q]
  BY DEF Hold, TypeOK
<1>2. /\ ~Uploading(req'[r]) /\ req'[r].pc # "deleteFile"
  BY <1>1 DEF Uploading
<1>3. \A q \in Requests : Uploading(req'[q]) =>
        /\ req'[q].key.n <= minted'["doc"]
        /\ \A e \in docs' : e.key # req'[q].key
        /\ \A o \in Requests \ {q} : Uploading(req'[o]) => req'[o].key # req'[q].key
        /\ \A o \in Requests : Deleting(req'[o]) => req'[o].doc.key # req'[q].key
  BY <1>1, <1>2 DEF KeyInv
<1>4. \A q \in Requests : Deleting(req'[q]) => req'[q].doc.key.n <= minted'["doc"]
  BY <1>1 DEF KeyInv
<1>5. \A q \in Requests : req'[q].pc = "deleteFile" => \A e \in docs' : e.key # req'[q].doc.key
  BY <1>1, <1>2 DEF KeyInv
<1>6. \A e \in docs' : e.key.n <= minted'["doc"] /\ \A o \in docs' : e.key = o.key => e = o
  BY DEF KeyInv
<1> QED  BY <1>3, <1>4, <1>5, <1>6 DEF KeyInv, Uploading, Deleting

\* Every step of every request keeps the keys apart.
LEMMA KeyStep ==
  ASSUME EvidenceStoreAssumption, TypeOK, KeyInv, NEW r \in Requests, Request(r)
  PROVE  KeyInv'
<1>1. req[r] \in Reqs /\ minted["doc"] \in Nat
  BY Made
<1>2. ~Uploading(Idle) /\ ~Deleting(Idle) /\ Idle.pc # "deleteFile"
  BY DEF Idle, Uploading, Deleting
<1>3. CASE UploadRead(r)
  BY <1>3, KeysBegun
<1>4. CASE UploadStore(r)
  <2> DEFINE p == [req[r] EXCEPT !.pc = "uploadRow"]
  <2>1. Uploading(req[r]) /\ UNCHANGED <<docs, minted>> /\ (Hold(r, p) \/ Hold(r, Idle))
    BY <1>4 DEF UploadStore, At, Store, GoTo, Done, Uploading, rows
  <2>2. p.key = req[r].key /\ p.pc = "uploadRow"
    BY <1>1, <2>1, GoneOn
  <2> HIDE DEF p
  <2>3. ~Deleting(p) /\ p.pc # "deleteFile"
    BY <2>2 DEF Deleting
  <2>4. CASE Hold(r, p)
    BY <1>1, <2>1, <2>2, <2>3, <2>4, KeysKept
  <2>5. CASE Hold(r, Idle)
    BY <1>1, <1>2, <2>1, <2>5, KeysKept
  <2> QED  BY <2>1, <2>4, <2>5
<1>5. CASE UploadRow(r)
  <2> DEFINE p == [req[r] EXCEPT !.pc = "uploadClean"]
  <2>1. Uploading(req[r])
    BY <1>5 DEF UploadRow, At, Uploading
  <2>2. p.key = req[r].key /\ p.pc = "uploadClean"
    BY <1>1, <2>1, GoneOn
  <2>3. \/ /\ Done(r) /\ At(r, "uploadRow") /\ UNCHANGED minted
           /\ docs' = docs \cup {[key |-> req[r].key, file |-> req[r].file, item |-> req[r].item]}
        \/ Hold(r, p) /\ UNCHANGED <<docs, minted>>
    BY <1>5 DEF UploadRow, GoTo
  <2> HIDE DEF p
  <2>4. ~Deleting(p) /\ p.pc # "deleteFile"
    BY <2>2 DEF Deleting
  <2>5. CASE Hold(r, p) /\ UNCHANGED <<docs, minted>>
    BY <1>1, <2>1, <2>2, <2>4, <2>5, KeysKept
  <2> QED  BY <2>3, <2>5, KeysFiled
<1>6. CASE DeleteRead(r)
  BY <1>6, KeysDoomed DEF DeleteRead, rows
<1>7. CASE DeleteRow(r)
  <2> DEFINE p == [req[r] EXCEPT !.pc = "deleteFile"]
  <2>1. Deleting(req[r])
    BY <1>7 DEF DeleteRow, At, Deleting
  <2>2. p.doc = req[r].doc /\ p.pc = "deleteFile"
    BY <1>1, <2>1, GoneOn
  <2>3. /\ UNCHANGED minted
        /\ \/ Hold(r, p) /\ req[r].doc \in docs /\ docs' = docs \ {req[r].doc}
           \/ Hold(r, Idle) /\ UNCHANGED docs
    BY <1>7 DEF DeleteRow, GoTo, Done
  <2> HIDE DEF p
  <2>4. ~Uploading(p)
    BY <2>2 DEF Uploading
  <2>5. CASE Hold(r, p) /\ req[r].doc \in docs /\ docs' = docs \ {req[r].doc}
    <3>1. docs' \subseteq docs /\ \A d \in docs' : d.key # p.doc.key
      BY <2>2, <2>5 DEF KeyInv
    <3> QED  BY <1>1, <2>1, <2>2, <2>3, <2>4, <2>5, <3>1, KeysKept
  <2>6. CASE Hold(r, Idle) /\ UNCHANGED docs
    BY <1>1, <1>2, <2>3, <2>6, KeysKept
  <2> QED  BY <2>3, <2>5, <2>6
<1>8. CASE UploadClean(r) \/ DeleteFile(r) \/ LogoOld(r) \/ RemoveLogoRow(r) \/ EdgeLogoRow(r) \/ CertRow(r)
           \/ CondemnRow(r) \/ Die(r)
  <2>1. Hold(r, Idle) /\ UNCHANGED minted /\ docs' \subseteq docs
    BY <1>8 DEF UploadClean, DeleteFile, LogoOld, RemoveLogoRow, EdgeLogoRow, CertRow, CondemnRow, Die, Done, Gone, rows
  <2> QED  BY <1>1, <1>2, <2>1, KeysKept
<1>9. CASE LogoStore(r) \/ LogoRow(r) \/ CertStore(r)
  <2>1. PICK next \in {"logoRow", "logoOld", "certRow"} :
          /\ Hold(r, [req[r] EXCEPT !.pc = next]) \/ Hold(r, Idle)
          /\ UNCHANGED <<docs, minted>>
          /\ \/ req[r].pc \in {"logoStore", "logoRow"} /\ next \in {"logoRow", "logoOld"}
             \/ req[r].pc = "certStore" /\ next = "certRow"
    <3>1. CASE LogoStore(r)
      BY <3>1 DEF LogoStore, Store, GoTo, Done, At, rows
    <3>2. CASE LogoRow(r)
      BY <3>2 DEF LogoRow, GoTo, Done, At
    <3>3. CASE CertStore(r)
      BY <3>3 DEF CertStore, Store, GoTo, Done, At, rows
    <3> QED  BY <1>9, <3>1, <3>2, <3>3
  <2> DEFINE p == [req[r] EXCEPT !.pc = next]
  <2>2. p.pc = next
    BY <1>1, <2>1, GoneOn
  <2> HIDE DEF p
  <2>3. ~Uploading(p) /\ ~Deleting(p) /\ p.pc # "deleteFile"
    BY <2>1, <2>2 DEF Uploading, Deleting
  <2>4. CASE Hold(r, p)
    BY <1>1, <2>1, <2>3, <2>4, KeysKept
  <2>5. CASE Hold(r, Idle)
    BY <1>1, <1>2, <2>1, <2>5, KeysKept
  <2> QED  BY <2>1, <2>4, <2>5 DEF p
<1>10. CASE LogoRead(r) \/ CertRead(r) \/ CondemnRead(r) \/ RemoveLogoFile(r) \/ EdgeLogoStore(r)
  <2>1. PICK p : /\ Hold(r, p) /\ UNCHANGED docs
                 /\ p.pc \in {"logoStore", "certStore", "condemn", "unlogo", "edgeLogoRow"}
    BY <1>10 DEF LogoRead, CertRead, CondemnRead, RemoveLogoFile, EdgeLogoStore, rows
  <2>2. minted'["doc"] = minted["doc"]
    BY <1>10 DEF LogoRead, CertRead, CondemnRead, RemoveLogoFile, EdgeLogoStore, Mint, TypeOK, Kinds
  <2>3. ~Uploading(p) /\ ~Deleting(p) /\ p.pc # "deleteFile"
    BY <2>1 DEF Uploading, Deleting
  <2> QED  BY <1>1, <2>1, <2>2, <2>3, KeysKept
<1>11. CASE CondemnFile(r)
  <2>1. PICK key \in req[r].keys : Hold(r, [req[r] EXCEPT !.keys = @ \ {key}])
    BY <1>11 DEF CondemnFile
  <2> DEFINE p == [req[r] EXCEPT !.keys = @ \ {key}]
  <2>2. req[r].pc = "condemn" /\ UNCHANGED <<docs, minted>>
    BY <1>11 DEF CondemnFile, At, rows
  <2>3. p.pc = "condemn"
    <3>1. req[r] \in [pc : {"condemn"}, keys : SUBSET (Keys \cup {EdgeKey})]
      BY <1>1, <2>2 DEF Reqs, Idle
    <3> QED  BY <3>1
  <2>4. Hold(r, p)
    BY <2>1
  <2> HIDE DEF p
  <2>5. ~Uploading(p) /\ ~Deleting(p) /\ p.pc # "deleteFile"
    BY <2>3 DEF Uploading, Deleting
  <2> QED  BY <1>1, <2>2, <2>4, <2>5, KeysKept
<1>12. CASE EdgeDelete(r)
  <2>1. Hold(r, req[r]) /\ UNCHANGED minted /\ docs' = {}
    BY <1>12 DEF EdgeDelete, Gone, Hold, TypeOK
  <2> QED  BY <1>1, <2>1, KeysKept
<1> QED
  BY <1>3, <1>4, <1>5, <1>6, <1>7, <1>8, <1>9, <1>10, <1>11, <1>12 DEF Request

-----------------------------------------------------------------------------
(* What the rows name is in the bucket. *)

\* A step that takes no object of a row or of another upload away.
LEMMA StoredKept ==
  ASSUME TypeOK, StoredInv, NEW r \in Requests, NEW p, Hold(r, p),
         ~condemned' => ~condemned,
         ~condemned' => docs' \subseteq docs,
         ~condemned' => \A d \in docs : d.key \in objects => d.key \in objects',
         ~condemned' => \A q \in Requests \ {r} :
                          req[q].pc = "uploadRow" /\ req[q].key \in objects => req[q].key \in objects',
         ~condemned' /\ p.pc = "uploadRow" => p.key \in objects'
  PROVE  StoredInv'
<1>1. /\ req'[r] = p
      /\ \A q \in Requests \ {r} : req'[q] = req[q]
  BY DEF Hold, TypeOK
<1>2. ASSUME ~condemned'  PROVE \A d \in docs' : d.key \in objects'
  BY <1>2 DEF StoredInv
<1>3. ASSUME ~condemned', NEW q \in Requests, req'[q].pc = "uploadRow"  PROVE req'[q].key \in objects'
  <2>1. CASE q = r
    BY <1>1, <1>3, <2>1
  <2>2. CASE q # r
    BY <1>1, <1>3, <2>2 DEF StoredInv
  <2> QED  BY <2>1, <2>2
<1> QED  BY <1>2, <1>3 DEF StoredInv

\* The objects of evidence are not those of a logo.
LEMMA KindsApart ==
  ASSUME TypeOK
  PROVE  /\ \A d \in docs : d.key.kind = "doc"
         /\ \A q \in Requests : Uploading(req[q]) => req[q].key.kind = "doc"
         /\ \A q \in Requests : Deleting(req[q]) => req[q].doc.key.kind = "doc"
         /\ logo.kind # "doc" /\ cert.kind # "doc"
         /\ \A q \in Requests : req[q].pc \in {"logoStore", "logoRow", "logoOld"} =>
                                  req[q].key.kind # "doc" /\ req[q].old.kind # "doc"
         /\ \A q \in Requests : req[q].pc \in {"certStore", "certRow"} => req[q].key.kind # "doc"
<1>1. \A q \in Requests : req[q] \in Reqs
  BY DEF TypeOK
<1>2. /\ \A k \in KeysOf("doc") : k.kind = "doc"
      /\ \A k \in KeysOf("logo") \cup {EdgeKey, NoKey} : k.kind # "doc"
      /\ \A k \in KeysOf("cert") \cup {NoKey} : k.kind # "doc"
  BY DEF KeysOf, EdgeKey, NoKey
<1>3. \A d \in Docs : d.key \in KeysOf("doc")
  BY DEF Docs
<1> QED  BY <1>1, <1>2, <1>3, OfReq DEF TypeOK

LEMMA StoredStep ==
  ASSUME TypeOK, KeyInv, StoredInv, NEW r \in Requests, Request(r)
  PROVE  StoredInv'
<1>1. Idle.pc # "uploadRow" /\ req[r] \in Reqs
  BY Made DEF Idle
<1>2. CASE UploadRead(r) \/ DeleteRead(r) \/ LogoRead(r) \/ CertRead(r) \/ CondemnRead(r)
  <2>1. PICK p : Hold(r, p) /\ p.pc \in {"uploadStore", "deleteRow", "logoStore", "certStore", "condemn"}
    <3>1. CASE UploadRead(r)
      <4>1. PICK f \in Files, i \in Items \cup {NoItem} :
              Hold(r, [pc |-> "uploadStore", key |-> NextKey("doc"), file |-> f, item |-> i])
        BY <3>1 DEF UploadRead
      <4> QED  BY <4>1
    <3>2. CASE DeleteRead(r)
      <4>1. PICK d \in docs : Hold(r, [pc |-> "deleteRow", doc |-> d])
        BY <3>2 DEF DeleteRead
      <4> QED  BY <4>1
    <3>3. CASE LogoRead(r) \/ CertRead(r) \/ CondemnRead(r)
      BY <3>3 DEF LogoRead, CertRead, CondemnRead
    <3> QED  BY <1>2, <3>1, <3>2, <3>3
  <2>2. UNCHANGED <<docs, objects, condemned>>
    BY <1>2 DEF UploadRead, DeleteRead, LogoRead, CertRead, CondemnRead, rows
  <2> QED  BY <2>1, <2>2, StoredKept
<1>3. CASE UploadStore(r)
  <2> DEFINE p == [req[r] EXCEPT !.pc = "uploadRow"]
  <2>1. Uploading(req[r])
    BY <1>3 DEF UploadStore, At, Uploading
  <2>2. p.key = req[r].key
    BY <1>1, <2>1, GoneOn
  <2>3. \/ Hold(r, p) /\ objects' = objects \cup {req[r].key}
        \/ Hold(r, Idle) /\ UNCHANGED objects
    BY <1>3 DEF UploadStore, Store, GoTo, Done
  <2>4. UNCHANGED <<docs, condemned>>
    BY <1>3 DEF UploadStore, Store, rows
  <2> HIDE DEF p
  <2>5. CASE Hold(r, p) /\ objects' = objects \cup {req[r].key}
    BY <2>2, <2>4, <2>5, StoredKept
  <2>6. CASE Hold(r, Idle) /\ UNCHANGED objects
    BY <1>1, <2>4, <2>6, StoredKept
  <2> QED  BY <2>3, <2>5, <2>6
<1>4. CASE UploadRow(r)
  <2> DEFINE p   == [req[r] EXCEPT !.pc = "uploadClean"]
             doc == [key |-> req[r].key, file |-> req[r].file, item |-> req[r].item]
  <2>1. Uploading(req[r]) /\ req[r].pc = "uploadRow"
    BY <1>4 DEF UploadRow, At, Uploading
  <2>2. p.pc = "uploadClean" /\ doc.key = req[r].key
    BY <1>1, <2>1, GoneOn
  <2>3. \/ Hold(r, Idle) /\ docs' = docs \cup {doc}
        \/ Hold(r, p) /\ UNCHANGED docs
    BY <1>4 DEF UploadRow, GoTo, Done
  <2>4. UNCHANGED <<objects, condemned>>
    BY <1>4 DEF UploadRow
  <2> HIDE DEF p, doc
  <2>5. CASE Hold(r, Idle) /\ docs' = docs \cup {doc}
    <3>1. \A q \in Requests : req'[q].pc = "uploadRow" => req'[q] = req[q]
      BY <1>1, <2>5 DEF Hold, TypeOK
    <3> QED  BY <2>1, <2>2, <2>4, <2>5, <3>1 DEF StoredInv
  <2>6. CASE Hold(r, p) /\ UNCHANGED docs
    BY <2>2, <2>4, <2>6, StoredKept
  <2> QED  BY <2>3, <2>5, <2>6
<1>5. CASE UploadClean(r)
  <2>1. Uploading(req[r]) /\ Hold(r, Idle) /\ UNCHANGED <<docs, condemned>> /\ objects \ {req[r].key} \subseteq objects'
    BY <1>5 DEF UploadClean, At, Uploading, Discard, Done, rows
  <2>2. /\ \A d \in docs : d.key # req[r].key
        /\ \A q \in Requests \ {r} : req[q].pc = "uploadRow" => req[q].key # req[r].key
    BY <2>1 DEF KeyInv, Uploading
  <2> QED  BY <1>1, <2>1, <2>2, StoredKept
<1>6. CASE DeleteFile(r)
  <2>1. /\ req[r].pc = "deleteFile" /\ Deleting(req[r])
        /\ Hold(r, Idle) /\ UNCHANGED <<docs, condemned>> /\ objects \ {req[r].doc.key} \subseteq objects'
    BY <1>6 DEF DeleteFile, At, Deleting, Discard, Done, rows
  <2>2. /\ \A d \in docs : d.key # req[r].doc.key
        /\ \A q \in Requests : req[q].pc = "uploadRow" => req[q].key # req[r].doc.key
    BY <2>1 DEF KeyInv, Uploading
  <2> QED  BY <1>1, <2>1, <2>2, StoredKept
<1>7. CASE DeleteRow(r)
  <2>1. PICK p : Hold(r, p) /\ p.pc \in {"deleteFile", "idle"}
    <3>1. Deleting(req[r])
      BY <1>7 DEF DeleteRow, At, Deleting
    <3> DEFINE p == [req[r] EXCEPT !.pc = "deleteFile"]
    <3>2. p.pc = "deleteFile" /\ Idle.pc = "idle"
      BY <1>1, <3>1, GoneOn DEF Idle
    <3>3. Hold(r, p) \/ Hold(r, Idle)
      BY <1>7 DEF DeleteRow, GoTo, Done
    <3> HIDE DEF p
    <3> QED  BY <3>2, <3>3
  <2>2. docs' \subseteq docs /\ UNCHANGED <<objects, condemned>>
    BY <1>7 DEF DeleteRow
  <2> QED  BY <2>1, <2>2, StoredKept
<1>8. CASE LogoOld(r)
  <2>1. Hold(r, Idle) /\ UNCHANGED <<docs, condemned>> /\ objects \ {req[r].old} \subseteq objects' /\ req[r].pc = "logoOld"
    BY <1>8 DEF LogoOld, At, Discard, Done, rows
  <2>2. /\ \A d \in docs : d.key # req[r].old
        /\ \A q \in Requests : req[q].pc = "uploadRow" => req[q].key # req[r].old
    BY <2>1, KindsApart DEF Uploading
  <2> QED  BY <1>1, <2>1, <2>2, StoredKept
<1>9. CASE RemoveLogoFile(r)
  <2>1. /\ Hold(r, [pc |-> "unlogo"]) /\ UNCHANGED <<docs, condemned>> /\ objects \ {logo} \subseteq objects'
    BY <1>9 DEF RemoveLogoFile, Discard, rows
  <2>2. /\ \A d \in docs : d.key # logo
        /\ \A q \in Requests : req[q].pc = "uploadRow" => req[q].key # logo
    BY <2>1, KindsApart DEF Uploading
  <2> QED  BY <2>1, <2>2, StoredKept
<1>10. CASE LogoStore(r) \/ LogoRow(r) \/ CertStore(r)
  <2>1. PICK p : Hold(r, p) /\ p.pc # "uploadRow"
    <3> DEFINE p(next) == [req[r] EXCEPT !.pc = next]
    <3>1. \/ Hold(r, p("logoRow")) /\ req[r].pc = "logoStore"
          \/ Hold(r, p("logoOld")) /\ req[r].pc = "logoRow"
          \/ Hold(r, p("certRow")) /\ req[r].pc = "certStore"
          \/ Hold(r, Idle)
      BY <1>10 DEF LogoStore, LogoRow, CertStore, Store, GoTo, Done, At
    <3>2. /\ req[r].pc = "logoStore" => p("logoRow").pc = "logoRow"
          /\ req[r].pc = "logoRow" => p("logoOld").pc = "logoOld"
          /\ req[r].pc = "certStore" => p("certRow").pc = "certRow"
      BY <1>1, GoneOn
    <3> HIDE DEF p
    <3> QED  BY <1>1, <3>1, <3>2
  <2>2. UNCHANGED <<docs, condemned>> /\ objects \subseteq objects'
    BY <1>10 DEF LogoStore, LogoRow, CertStore, Store, rows
  <2> QED  BY <2>1, <2>2, StoredKept
<1>11. CASE RemoveLogoRow(r) \/ EdgeLogoStore(r) \/ EdgeLogoRow(r) \/ CertRow(r) \/ Die(r)
  <2>1. PICK p : Hold(r, p) /\ p.pc # "uploadRow"
    BY <1>1, <1>11 DEF RemoveLogoRow, EdgeLogoStore, EdgeLogoRow, CertRow, Die, Done
  <2>2. UNCHANGED <<docs, condemned>> /\ objects \subseteq objects'
    BY <1>11 DEF RemoveLogoRow, EdgeLogoStore, EdgeLogoRow, CertRow, Die, rows
  <2> QED  BY <2>1, <2>2, StoredKept
<1>12. CASE CondemnFile(r) \/ CondemnRow(r) \/ EdgeDelete(r)
  BY <1>12 DEF CondemnFile, CondemnRow, EdgeDelete, StoredInv
<1> QED
  BY <1>2, <1>3, <1>4, <1>5, <1>6, <1>7, <1>8, <1>9, <1>10, <1>11, <1>12 DEF Request

\* Evidence is readable in every reachable state until a permanent deletion
\* begins, for any number of requests, uploads and failures.
THEOREM EvidenceStays == Spec => []EvidenceReadable
<1>1. Init => KeyInv /\ StoredInv
  BY DEF Init, KeyInv, StoredInv, Idle, Uploading, Deleting
<1>2. TypeOK /\ KeyInv /\ StoredInv /\ [Next]_vars => KeyInv' /\ StoredInv'
  <2>1. CASE TypeOK /\ KeyInv /\ StoredInv /\ Next
    BY <2>1, KeyStep, StoredStep, EvidenceStoreAssumption DEF Next
  <2>2. CASE UNCHANGED vars
    BY <2>2 DEF vars, KeyInv, StoredInv, Uploading, Deleting
  <2> QED  BY <2>1, <2>2
<1>3. StoredInv => EvidenceReadable
  BY DEF StoredInv, EvidenceReadable
<1> QED  BY <1>1, <1>2, <1>3, EvidenceTypeCorrect, PTL DEF Spec

-----------------------------------------------------------------------------
(* Objects that nobody knows of. *)

\* An evidence object is lost when no row names it and no request holds it.
LEMMA LostIs ==
  ASSUME TypeOK
  PROVE  \A k : k \in Lost <=> /\ k \in objects /\ k.kind = "doc"
                               /\ \A d \in docs : d.key # k
                               /\ \A q \in Requests : ~Holding(req[q], k)
<1>1. \A k : k \in InHand <=> \E q \in Requests : Holding(req[q], k)
  BY DEF InHand, Holding
<1>2. \A k : k.kind = "doc" => (k \in Named <=> \E d \in docs : d.key = k)
  BY KindsApart DEF Named
<1> QED  BY <1>1, <1>2 DEF Lost

\* A step loses at most what it stores, or lets go of, and no row names.
LEMMA LostBy ==
  ASSUME TypeOK, TypeOK', NEW r \in Requests, NEW p, Hold(r, p), NEW X,
         \A k : k \in objects' /\ k.kind = "doc" /\ (\A d \in docs' : d.key # k) /\ ~Holding(p, k) /\ k \notin X
                  => k \in objects /\ (\A d \in docs : d.key # k) /\ ~Holding(req[r], k)
  PROVE  Lost' \subseteq Lost \cup X
<1>1. /\ req'[r] = p
      /\ \A q \in Requests \ {r} : req'[q] = req[q]
  BY DEF Hold, TypeOK
<1>2. \A k : k \in Lost' <=> /\ k \in objects' /\ k.kind = "doc"
                             /\ \A d \in docs' : d.key # k
                             /\ \A q \in Requests : ~Holding(req'[q], k)
  <2>1. \A k : k \in InHand' <=> \E q \in Requests : Holding(req'[q], k)
    BY DEF InHand, Holding
  <2>2. logo'.kind # "doc" /\ cert'.kind # "doc"
    BY DEF TypeOK, KeysOf, EdgeKey, NoKey
  <2>3. \A k : k.kind = "doc" => (k \in Named' <=> \E d \in docs' : d.key = k)
    BY <2>2 DEF Named
  <2> QED  BY <2>1, <2>3 DEF Lost
<1>3. ASSUME NEW k \in Lost', k \notin X  PROVE k \in Lost
  <2>1. k \in objects /\ k.kind = "doc" /\ (\A d \in docs : d.key # k) /\ ~Holding(req[r], k)
    BY <1>1, <1>2, <1>3
  <2>2. \A q \in Requests \ {r} : ~Holding(req[q], k)
    BY <1>1, <1>2, <1>3
  <2> QED  BY <2>1, <2>2, LostIs
<1> QED  BY <1>3

LEMMA LostStep ==
  ASSUME EvidenceStoreAssumption, TypeOK, TypeOK', NEW r \in Requests, Request(r), ~condemned'
  PROVE  ~condemned /\ (Lost' \subseteq Lost \/ (Fault /\ \E x : Lost' \subseteq Lost \cup {x}))
<1> USE DEF Holding
<1>1. req[r] \in Reqs /\ Idle.pc = "idle"
  BY Made DEF Idle
<1>2. /\ \A d \in docs : d.key.kind = "doc"
      /\ ~condemned \/ condemned'
  BY KindsApart DEF Request, UploadRead, UploadStore, Store, UploadRow, UploadClean, DeleteRead, DeleteRow, DeleteFile,
        LogoRead, LogoStore, LogoRow, LogoOld, RemoveLogoFile, RemoveLogoRow, EdgeLogoStore, EdgeLogoRow,
        CertRead, CertStore, CertRow, CondemnRead, CondemnFile, CondemnRow, EdgeDelete, Die
<1>3. CASE UploadRead(r) \/ DeleteRead(r) \/ LogoRead(r) \/ CertRead(r) \/ CondemnRead(r)
  <2>1. PICK p : Hold(r, p) /\ p.pc \in {"uploadStore", "deleteRow", "logoStore", "certStore", "condemn"}
    <3>1. CASE UploadRead(r)
      <4>1. PICK f \in Files, i \in Items \cup {NoItem} :
              Hold(r, [pc |-> "uploadStore", key |-> NextKey("doc"), file |-> f, item |-> i])
        BY <3>1 DEF UploadRead
      <4> QED  BY <4>1
    <3>2. CASE DeleteRead(r)
      <4>1. PICK d \in docs : Hold(r, [pc |-> "deleteRow", doc |-> d])
        BY <3>2 DEF DeleteRead
      <4> QED  BY <4>1
    <3>3. CASE LogoRead(r) \/ CertRead(r) \/ CondemnRead(r)
      BY <3>3 DEF LogoRead, CertRead, CondemnRead
    <3> QED  BY <1>3, <3>1, <3>2, <3>3
  <2>2. UNCHANGED <<docs, objects>> /\ req[r].pc = "idle"
    BY <1>3 DEF UploadRead, DeleteRead, LogoRead, CertRead, CondemnRead, Free, rows
  <2>3. Lost' \subseteq Lost \cup {}
    BY <2>1, <2>2, LostBy
  <2> QED  BY <1>2, <2>3
<1>4. CASE UploadStore(r)
  <2> DEFINE p == [req[r] EXCEPT !.pc = "uploadRow"]
  <2>1. Uploading(req[r]) /\ req[r].pc = "uploadStore"
    BY <1>4 DEF UploadStore, At, Uploading
  <2>2. p.key = req[r].key /\ p.pc = "uploadRow"
    BY <1>1, <2>1, GoneOn
  <2>3. /\ UNCHANGED docs
        /\ \/ Hold(r, p) /\ objects' = objects \cup {req[r].key}
           \/ Hold(r, Idle) /\ UNCHANGED objects
    BY <1>4 DEF UploadStore, Store, GoTo, Done, rows
  <2> HIDE DEF p
  <2>4. CASE Hold(r, p) /\ objects' = objects \cup {req[r].key}
    <3>1. Lost' \subseteq Lost \cup {}
      BY <2>1, <2>2, <2>3, <2>4, LostBy
    <3> QED  BY <1>2, <3>1
  <2>5. CASE Hold(r, Idle) /\ UNCHANGED objects
    <3>1. Lost' \subseteq Lost \cup {}
      BY <1>1, <2>1, <2>3, <2>5, LostBy
    <3> QED  BY <1>2, <3>1
  <2> QED  BY <2>3, <2>4, <2>5
<1>5. CASE UploadRow(r)
  <2> DEFINE p   == [req[r] EXCEPT !.pc = "uploadClean"]
             doc == [key |-> req[r].key, file |-> req[r].file, item |-> req[r].item]
  <2>1. Uploading(req[r]) /\ req[r].pc = "uploadRow"
    BY <1>5 DEF UploadRow, At, Uploading
  <2>2. p.key = req[r].key /\ p.pc = "uploadClean" /\ doc.key = req[r].key
    BY <1>1, <2>1, GoneOn
  <2>3. /\ UNCHANGED objects
        /\ \/ Hold(r, Idle) /\ docs' = docs \cup {doc}
           \/ Hold(r, p) /\ UNCHANGED docs
    BY <1>5 DEF UploadRow, GoTo, Done
  <2> HIDE DEF p, doc
  <2>4. CASE Hold(r, Idle) /\ docs' = docs \cup {doc}
    <3>1. Lost' \subseteq Lost \cup {}
      BY <1>1, <2>1, <2>2, <2>3, <2>4, LostBy
    <3> QED  BY <1>2, <3>1
  <2>5. CASE Hold(r, p) /\ UNCHANGED docs
    <3>1. Lost' \subseteq Lost \cup {}
      BY <2>1, <2>2, <2>3, <2>5, LostBy
    <3> QED  BY <1>2, <3>1
  <2> QED  BY <2>3, <2>4, <2>5
<1>6. CASE UploadClean(r)
  <2>1. req[r].pc = "uploadClean" /\ Hold(r, Idle) /\ UNCHANGED docs
    BY <1>6 DEF UploadClean, At, Done, rows
  <2>2. CASE objects' = objects \ {req[r].key}
    <3>1. Lost' \subseteq Lost \cup {}
      BY <1>1, <2>1, <2>2, LostBy
    <3> QED  BY <1>2, <3>1
  <2>3. CASE Fault /\ UNCHANGED objects
    <3>1. Lost' \subseteq Lost \cup {req[r].key}
      BY <1>1, <2>1, <2>3, LostBy
    <3> QED  BY <1>2, <2>3, <3>1
  <2> QED  BY <1>6, <2>2, <2>3 DEF UploadClean, Discard
<1>7. CASE DeleteRow(r)
  <2> DEFINE p == [req[r] EXCEPT !.pc = "deleteFile"]
  <2>1. Deleting(req[r]) /\ req[r].pc = "deleteRow"
    BY <1>7 DEF DeleteRow, At, Deleting
  <2>2. p.doc = req[r].doc /\ p.pc = "deleteFile"
    BY <1>1, <2>1, GoneOn
  <2>3. /\ UNCHANGED objects
        /\ \/ Hold(r, p) /\ docs' = docs \ {req[r].doc}
           \/ Hold(r, Idle) /\ UNCHANGED docs
    BY <1>7 DEF DeleteRow, GoTo, Done
  <2> HIDE DEF p
  <2>4. CASE Hold(r, p) /\ docs' = docs \ {req[r].doc}
    <3>1. Lost' \subseteq Lost \cup {}
      BY <2>1, <2>2, <2>3, <2>4, LostBy
    <3> QED  BY <1>2, <3>1
  <2>5. CASE Hold(r, Idle) /\ UNCHANGED docs
    <3>1. Lost' \subseteq Lost \cup {}
      BY <1>1, <2>1, <2>3, <2>5, LostBy
    <3> QED  BY <1>2, <3>1
  <2> QED  BY <2>3, <2>4, <2>5
<1>8. CASE DeleteFile(r)
  <2>1. req[r].pc = "deleteFile" /\ Hold(r, Idle) /\ UNCHANGED docs
    BY <1>8 DEF DeleteFile, At, Done, rows
  <2>2. CASE objects' = objects \ {req[r].doc.key}
    <3>1. Lost' \subseteq Lost \cup {}
      BY <1>1, <2>1, <2>2, LostBy
    <3> QED  BY <1>2, <3>1
  <2>3. CASE Fault /\ UNCHANGED objects
    <3>1. Lost' \subseteq Lost \cup {req[r].doc.key}
      BY <1>1, <2>1, <2>3, LostBy
    <3> QED  BY <1>2, <2>3, <3>1
  <2> QED  BY <1>8, <2>2, <2>3 DEF DeleteFile, Discard
<1>9. CASE LogoStore(r) \/ CertStore(r)
  <2> DEFINE p(next) == [req[r] EXCEPT !.pc = next]
  <2>1. /\ req[r].pc \in {"logoStore", "certStore"} /\ UNCHANGED docs
        /\ objects' \subseteq objects \cup {req[r].key} /\ req[r].key.kind # "doc"
    BY <1>9, KindsApart DEF LogoStore, CertStore, At, Store, rows
  <2>2. \/ Hold(r, p("logoRow")) /\ req[r].pc = "logoStore"
        \/ Hold(r, p("certRow")) /\ req[r].pc = "certStore"
        \/ Hold(r, Idle)
    BY <1>9 DEF LogoStore, CertStore, Store, GoTo, Done, At
  <2>3. /\ req[r].pc = "logoStore" => p("logoRow").pc = "logoRow"
        /\ req[r].pc = "certStore" => p("certRow").pc = "certRow"
    BY <1>1, GoneOn
  <2> HIDE DEF p
  <2>4. PICK q : Hold(r, q) /\ q.pc \in {"logoRow", "certRow", "idle"}
    BY <1>1, <2>2, <2>3
  <2>5. Lost' \subseteq Lost \cup {}
    BY <2>1, <2>4, LostBy
  <2> QED  BY <1>2, <2>5
<1>10. CASE LogoRow(r)
  <2> DEFINE p == [req[r] EXCEPT !.pc = "logoOld"]
  <2>1. req[r].pc = "logoRow" /\ UNCHANGED <<docs, objects>> /\ (Hold(r, p) \/ Hold(r, Idle))
    BY <1>10 DEF LogoRow, At, GoTo, Done
  <2>2. p.pc = "logoOld"
    BY <1>1, <2>1, GoneOn
  <2> HIDE DEF p
  <2>3. PICK q : Hold(r, q) /\ q.pc \in {"logoOld", "idle"}
    BY <1>1, <2>1, <2>2
  <2>4. Lost' \subseteq Lost \cup {}
    BY <2>1, <2>3, LostBy
  <2> QED  BY <1>2, <2>4
<1>11. CASE LogoOld(r) \/ RemoveLogoRow(r) \/ EdgeLogoRow(r) \/ CertRow(r)
  <2>1. /\ Hold(r, Idle) /\ objects' \subseteq objects /\ UNCHANGED docs
        /\ req[r].pc \in {"logoOld", "unlogo", "edgeLogoRow", "certRow"}
    BY <1>11 DEF LogoOld, RemoveLogoRow, EdgeLogoRow, CertRow, At, Discard, Done, rows
  <2>2. Lost' \subseteq Lost \cup {}
    BY <1>1, <2>1, LostBy
  <2> QED  BY <1>2, <2>2
<1>12. CASE RemoveLogoFile(r) \/ EdgeLogoStore(r)
  <2>1. PICK p : Hold(r, p) /\ p.pc \in {"unlogo", "edgeLogoRow"}
    BY <1>12 DEF RemoveLogoFile, EdgeLogoStore
  <2>2. objects' \subseteq objects \cup {EdgeKey} /\ UNCHANGED docs /\ req[r].pc = "idle"
    BY <1>12 DEF RemoveLogoFile, EdgeLogoStore, Discard, Free, rows
  <2>3. EdgeKey.kind # "doc"
    BY DEF EdgeKey
  <2>4. Lost' \subseteq Lost \cup {}
    BY <2>1, <2>2, <2>3, LostBy
  <2> QED  BY <1>2, <2>4
<1>13. CASE Die(r)
  <2>1. Hold(r, Idle) /\ UNCHANGED <<docs, objects>> /\ Fault
    BY <1>13 DEF Die, Done, rows
  <2>2. PICK x : \A k : Holding(req[r], k) => k = x
    <3>1. CASE req[r].pc = "deleteFile"
      BY <3>1
    <3>2. CASE req[r].pc # "deleteFile"
      BY <3>2
    <3> QED  BY <3>1, <3>2
  <2>3. Lost' \subseteq Lost \cup {x}
    BY <1>1, <2>1, <2>2, LostBy
  <2> QED  BY <1>2, <2>1, <2>3
<1>14. CASE CondemnFile(r) \/ CondemnRow(r) \/ EdgeDelete(r)
  BY <1>14 DEF CondemnFile, CondemnRow, EdgeDelete
<1> QED
  BY <1>3, <1>4, <1>5, <1>6, <1>7, <1>8, <1>9, <1>10, <1>11, <1>12, <1>13, <1>14 DEF Request

\* The bucket grows one object at a time.
LEMMA OneObjectMore ==
  ASSUME NEW r \in Requests, Request(r)
  PROVE  \E x : objects' \subseteq objects \cup {x}
<1>1. CASE UploadStore(r) \/ LogoStore(r) \/ CertStore(r) \/ EdgeLogoStore(r)
  BY <1>1 DEF UploadStore, LogoStore, CertStore, Store, EdgeLogoStore
<1>2. CASE UploadClean(r) \/ DeleteFile(r) \/ LogoOld(r) \/ RemoveLogoFile(r) \/ CondemnFile(r)
  BY <1>2 DEF UploadClean, DeleteFile, LogoOld, RemoveLogoFile, CondemnFile, Discard
<1>3. CASE \/ UploadRead(r) \/ UploadRow(r) \/ DeleteRead(r) \/ DeleteRow(r) \/ LogoRead(r) \/ LogoRow(r)
           \/ RemoveLogoRow(r) \/ EdgeLogoRow(r) \/ CertRead(r) \/ CertRow(r) \/ CondemnRead(r)
           \/ CondemnRow(r) \/ EdgeDelete(r) \/ Die(r)
  BY <1>3 DEF UploadRead, UploadRow, DeleteRead, DeleteRow, LogoRead, LogoRow, RemoveLogoRow, EdgeLogoRow,
              CertRead, CertRow, CondemnRead, CondemnRow, EdgeDelete, Die
<1> QED  BY <1>1, <1>2, <1>3 DEF Request

LEMMA LostCounted ==
  ASSUME EvidenceStoreAssumption, TypeOK, TypeOK', LostInv, NEW r \in Requests, Request(r)
  PROVE  LostInv'
<1>1. IsFiniteSet(objects) /\ IsFiniteSet(objects')
  <2>1. PICK x : objects' \subseteq objects \cup {x}
    BY OneObjectMore
  <2>2. IsFiniteSet(objects \cup {x})
    BY FS_AddElement DEF LostInv
  <2> QED  BY <2>1, <2>2, FS_Subset DEF LostInv
<1>2. IsFiniteSet(Lost)
  <2>1. Lost \subseteq objects
    BY DEF Lost
  <2> QED  BY <1>1, <2>1, FS_Subset
<1>3. ASSUME ~condemned'  PROVE Cardinality(Lost') <= faults'
  <2>1. ~condemned /\ Cardinality(Lost) <= faults /\ faults \in Nat /\ faults' \in Nat
    BY <1>3, LostStep, EvidenceStoreAssumption DEF LostInv, TypeOK, EvidenceStoreAssumption
  <2>2. CASE Lost' \subseteq Lost
    <3>1. Cardinality(Lost') <= Cardinality(Lost) /\ IsFiniteSet(Lost')
      BY <1>2, <2>2, FS_Subset
    <3>2. Cardinality(Lost) \in Nat /\ Cardinality(Lost') \in Nat
      BY <1>2, <3>1, FS_CardinalityType
    <3>3. faults <= faults'
      <4>1. Fault \/ faults' = faults
        BY DEF Request, UploadRead, UploadStore, Store, UploadRow, UploadClean, DeleteRead, DeleteRow, DeleteFile,
               LogoRead, LogoStore, LogoRow, LogoOld, RemoveLogoFile, RemoveLogoRow, EdgeLogoStore, EdgeLogoRow,
               CertRead, CertStore, CertRow, CondemnRead, CondemnFile, CondemnRow, EdgeDelete, Die, Discard, Well
      <4> QED  BY <2>1, <4>1 DEF Fault
    <3> QED  BY <2>1, <3>1, <3>2, <3>3
  <2>3. CASE Fault /\ \E x : Lost' \subseteq Lost \cup {x}
    <3>1. PICK x : Lost' \subseteq Lost \cup {x}
      BY <2>3
    <3>2. IsFiniteSet(Lost \cup {x}) /\ Cardinality(Lost \cup {x}) <= Cardinality(Lost) + 1
      BY <1>2, FS_AddElement, FS_CardinalityType
    <3>3. Cardinality(Lost') <= Cardinality(Lost \cup {x}) /\ IsFiniteSet(Lost')
      BY <3>1, <3>2, FS_Subset
    <3>4. Cardinality(Lost) \in Nat /\ Cardinality(Lost') \in Nat /\ Cardinality(Lost \cup {x}) \in Nat
      BY <1>2, <3>2, <3>3, FS_CardinalityType
    <3> QED  BY <2>1, <2>3, <3>2, <3>3, <3>4 DEF Fault
  <2> QED  BY <1>3, <2>2, <2>3, LostStep
<1> QED  BY <1>1, <1>3 DEF LostInv

\* Until the company is deleted, there are never more evidence objects that
\* nobody knows of than calls that failed and processes that died.
THEOREM EvidenceIsNotLost == Spec => []EvidenceNotStranded
<1>1. Init => LostInv
  <2>1. ASSUME Init  PROVE objects = {} /\ Lost = {} /\ faults = 0
    BY <2>1 DEF Init, Lost
  <2> QED  BY <2>1, FS_EmptySet DEF LostInv
<1>2. TypeOK /\ TypeOK' /\ LostInv /\ [Next]_vars => LostInv'
  <2>1. CASE TypeOK /\ TypeOK' /\ LostInv /\ Next
    BY <2>1, LostCounted, EvidenceStoreAssumption DEF Next
  <2>2. CASE UNCHANGED vars
    BY <2>2 DEF vars, LostInv, Lost, Named, InHand
  <2> QED  BY <2>1, <2>2
<1>3. LostInv => EvidenceNotStranded
  BY DEF LostInv, EvidenceNotStranded, Lost
<1> QED  BY <1>1, <1>2, <1>3, EvidenceTypeCorrect, PTL DEF Spec
=============================================================================
