--------------------------- MODULE EvidenceStore ---------------------------
(***************************************************************************)
(* One company's files: the objects in the bucket (storage.ts) and the     *)
(* rows that name them.  Evidence documents (documents.service.ts), the    *)
(* logo and the registration certificates (companies.service.ts and its    *)
(* twin companies-api), and the permanent deletion of the company.         *)
(*                                                                         *)
(* No transaction spans the database and the bucket.  A handler changes    *)
(* one, then the other; each call is a step, any may fail, and the process *)
(* may die between two of them.                                            *)
(***************************************************************************)
EXTENDS Integers, FiniteSets

CONSTANTS
  Files,     \* contents a caller may upload, told apart by their sha256
  Items,     \* the obligations a document may be filed against
  Requests,  \* handles of requests in flight
  MaxKeys,   \* bound: MaxKeys[k] fresh keys of kind k are made
  MaxFaults  \* bound: calls that fail, processes that die

Kinds == {"doc", "logo", "cert"}

ASSUME EvidenceStoreAssumption == MaxKeys \in [Kinds -> Nat] /\ MaxFaults \in Nat

VARIABLES
  company,  \* the companies row is there
  docs,     \* its documents rows
  logo,     \* logoStorageKey
  cert,     \* certificateKey of its GST or Udyam registration
  objects,  \* the keys the bucket holds
  minted,   \* minted[k]: how many keys of kind k have been made
  req,      \* req[r]: where request r is, and what it read
  faults,   \* calls that have failed and processes that have died
  condemned \* a permanent deletion has begun to remove files, or the row

vars == <<company, docs, logo, cert, objects, minted, req, faults, condemned>>
rows == <<company, docs, logo, cert>>

NoItem == "none"
NoKey  == [kind |-> "null", n |-> 0]

\* buildStorageKey puts a random UUID in every key: no two are the same.  The
\* edge builds the logo's key from the file's name, and so makes one again.
Keys    == {k \in [kind : Kinds, n : Nat \ {0}] : k.n <= MaxKeys[k.kind]}
EdgeKey == [kind |-> "edge", n |-> 0]

KeysOf(kind) == {k \in Keys : k.kind = kind}

Docs == [key : KeysOf("doc"), file : Files, item : Items \cup {NoItem}]

Idle == [pc |-> "idle"]
Reqs ==
  {Idle} \cup [pc : {"uploadStore", "uploadRow", "uploadClean"},
               key : KeysOf("doc"), file : Files, item : Items \cup {NoItem}]
         \cup [pc : {"deleteRow", "deleteFile"}, doc : Docs]
         \cup [pc : {"logoStore", "logoRow", "logoOld"},
               key : KeysOf("logo"), old : KeysOf("logo") \cup {EdgeKey, NoKey}]
         \cup [pc : {"unlogo", "edgeLogoRow"}]
         \cup [pc : {"certStore", "certRow"}, key : KeysOf("cert")]
         \cup [pc : {"condemn"}, keys : SUBSET (Keys \cup {EdgeKey})]

Init ==
  /\ company = TRUE /\ docs = {} /\ logo = NoKey /\ cert = NoKey
  /\ objects = {} /\ minted = [k \in Kinds |-> 0]
  /\ req = [r \in Requests |-> Idle]
  /\ faults = 0 /\ condemned = FALSE

Free(r)        == req[r].pc = "idle"
At(r, pc)      == req[r].pc = pc
Hold(r, state) == req' = [req EXCEPT ![r] = state]
GoTo(r, pc)    == Hold(r, [req[r] EXCEPT !.pc = pc])
Done(r)        == Hold(r, Idle)

Named == {d.key : d \in docs} \cup ({logo, cert} \ {NoKey})

Fault == faults < MaxFaults /\ faults' = faults + 1
Well  == UNCHANGED faults

NextKey(kind) == [kind |-> kind, n |-> minted[kind] + 1]

Mint(kind) == minted[kind] < MaxKeys[kind] /\ minted' = [minted EXCEPT ![kind] = @ + 1]

\* storage.upload of the request's key: it is stored, or nothing is.
Store(r, next) ==
  /\ \/ objects' = objects \cup {req[r].key} /\ Well /\ GoTo(r, next)
     \/ Fault /\ UNCHANGED objects /\ Done(r)
  /\ UNCHANGED <<rows, minted, condemned>>

\* storage.remove(key).catch(...): an object that will not go is left behind.
Discard(key) ==
  \/ objects' = objects \ {key} /\ Well
  \/ Fault /\ UNCHANGED objects

-----------------------------------------------------------------------------
(* Documents *)

\* uploadDocument up to its key: the company, the item, the inspection, and a
\* document that holds the same file already, which is answered with instead.
UploadRead(r) ==
  /\ Free(r) /\ company /\ Mint("doc")
  /\ \E f \in Files, i \in Items \cup {NoItem} :
       /\ \A d \in docs : d.file # f \/ d.item # i
       /\ Hold(r, [pc |-> "uploadStore", key |-> NextKey("doc"), file |-> f, item |-> i])
  /\ UNCHANGED <<rows, objects, faults, condemned>>

UploadStore(r) == At(r, "uploadStore") /\ Store(r, "uploadRow")

UploadRow_AnswersDuplicate(r) ==
  /\ At(r, "uploadRow")
  /\ \/ /\ \E d \in docs : d.file = req[r].file /\ d.item = req[r].item
        /\ Well /\ Done(r) /\ UNCHANGED docs
     \/ /\ company /\ Well /\ Done(r)
        /\ docs' = docs \cup {[key |-> req[r].key, file |-> req[r].file, item |-> req[r].item]}
     \/ ((~company /\ Well) \/ Fault) /\ GoTo(r, "uploadClean") /\ UNCHANGED docs
  /\ UNCHANGED <<company, logo, cert, objects, minted, condemned>>

\* prisma.document.create; the foreign key refuses a company that is gone.
UploadRow(r) ==
  /\ At(r, "uploadRow")
  /\ \/ /\ company /\ Well /\ Done(r)
        /\ docs' = docs \cup {[key |-> req[r].key, file |-> req[r].file, item |-> req[r].item]}
     \/ ((~company /\ Well) \/ Fault) /\ GoTo(r, "uploadClean") /\ UNCHANGED docs
  /\ UNCHANGED <<company, logo, cert, objects, minted, condemned>>

UploadClean(r) ==
  /\ At(r, "uploadClean")
  /\ Discard(req[r].key) /\ Done(r)
  /\ UNCHANGED <<rows, minted, condemned>>

DeleteRead(r) ==
  /\ Free(r)
  /\ \E d \in docs : Hold(r, [pc |-> "deleteRow", doc |-> d])
  /\ UNCHANGED <<rows, objects, minted, faults, condemned>>

DeleteRow_FileFirst(r) ==
  /\ At(r, "deleteRow")
  /\ objects' = objects \ {req[r].doc.key} /\ Well /\ GoTo(r, "deleteFile")
  /\ UNCHANGED <<rows, minted, condemned>>

\* The row goes first.  If another request took it, P2025 ends this one.
DeleteRow(r) ==
  /\ At(r, "deleteRow")
  /\ \/ /\ req[r].doc \in docs /\ docs' = docs \ {req[r].doc}
        /\ Well /\ GoTo(r, "deleteFile")
     \/ ((req[r].doc \notin docs /\ Well) \/ Fault) /\ Done(r) /\ UNCHANGED docs
  /\ UNCHANGED <<company, logo, cert, objects, minted, condemned>>

DeleteFile(r) ==
  /\ At(r, "deleteFile")
  /\ Discard(req[r].doc.key) /\ Done(r)
  /\ UNCHANGED <<rows, minted, condemned>>

-----------------------------------------------------------------------------
(* The logo *)

LogoRead(r) ==
  /\ Free(r) /\ company /\ Mint("logo")
  /\ Hold(r, [pc |-> "logoStore", key |-> NextKey("logo"), old |-> logo])
  /\ UNCHANGED <<rows, objects, faults, condemned>>

LogoStore(r) == At(r, "logoStore") /\ Store(r, "logoRow")

\* The row's update, which fails on a company that is gone.
LogoRow(r) ==
  /\ At(r, "logoRow")
  /\ \/ /\ company /\ logo' = req[r].key /\ Well
        /\ IF req[r].old = NoKey THEN Done(r) ELSE GoTo(r, "logoOld")
     \/ ((~company /\ Well) \/ Fault) /\ Done(r) /\ UNCHANGED logo
  /\ UNCHANGED <<company, docs, cert, objects, minted, condemned>>

LogoOld(r) ==
  /\ At(r, "logoOld")
  /\ Discard(req[r].old) /\ Done(r)
  /\ UNCHANGED <<rows, minted, condemned>>

\* removeLogo, here and at the edge: the object goes before the row knows.
RemoveLogoFile(r) ==
  /\ Free(r) /\ logo # NoKey
  /\ Discard(logo)
  /\ Hold(r, [pc |-> "unlogo"])
  /\ UNCHANGED <<rows, minted, condemned>>

RemoveLogoRow(r) ==
  /\ At(r, "unlogo")
  /\ \/ logo' = NoKey /\ Well
     \/ Fault /\ UNCHANGED logo
  /\ Done(r)
  /\ UNCHANGED <<company, docs, cert, objects, minted, condemned>>

\* companies-api: nobody looks at how the upload ends, and the row names the
\* key either way.  Another logo's object stays where it is.
EdgeLogoStore(r) ==
  /\ Free(r) /\ company
  /\ \/ objects' = objects \cup {EdgeKey} /\ Well
     \/ Fault /\ UNCHANGED objects
  /\ Hold(r, [pc |-> "edgeLogoRow"])
  /\ UNCHANGED <<rows, minted, condemned>>

EdgeLogoRow(r) ==
  /\ At(r, "edgeLogoRow")
  /\ logo' = IF company THEN EdgeKey ELSE logo
  /\ Well /\ Done(r)
  /\ UNCHANGED <<company, docs, cert, objects, minted, condemned>>

-----------------------------------------------------------------------------
(* Certificates *)

\* importGstCertificate and importUdyamCertificate.
CertRead(r) ==
  /\ Free(r) /\ company /\ Mint("cert")
  /\ Hold(r, [pc |-> "certStore", key |-> NextKey("cert")])
  /\ UNCHANGED <<rows, objects, faults, condemned>>

CertStore(r) == At(r, "certStore") /\ Store(r, "certRow")

\* Only a certificate whose number was read is named by a row.  The one it takes
\* the place of is not removed.
CertRow(r) ==
  /\ At(r, "certRow")
  /\ \/ company /\ cert' = req[r].key /\ Well
     \/ Well /\ UNCHANGED cert
     \/ Fault /\ UNCHANGED cert
  /\ Done(r)
  /\ UNCHANGED <<company, docs, logo, objects, minted, condemned>>

-----------------------------------------------------------------------------
(* The company's end *)

\* deleteCompanyPermanently reads every key its rows name, ...
CondemnRead(r) ==
  /\ Free(r) /\ company
  /\ Hold(r, [pc |-> "condemn", keys |-> {d.key : d \in docs} \cup ({logo, cert} \ {NoKey})])
  /\ UNCHANGED <<rows, objects, minted, faults, condemned>>

\* ... removes the objects one by one, ...
CondemnFile(r) ==
  /\ At(r, "condemn")
  /\ \E key \in req[r].keys :
       /\ Discard(key)
       /\ Hold(r, [req[r] EXCEPT !.keys = @ \ {key}])
  /\ condemned' = TRUE
  /\ UNCHANGED <<rows, minted>>

Gone == company' = FALSE /\ docs' = {} /\ logo' = NoKey /\ cert' = NoKey

\* ... and then the row, with all that cascades from it.
CondemnRow(r) ==
  /\ At(r, "condemn") /\ req[r].keys = {}
  /\ \/ company /\ Gone /\ Well
     \/ ~company /\ Well /\ UNCHANGED rows
     \/ Fault /\ UNCHANGED rows
  /\ Done(r) /\ condemned' = TRUE
  /\ UNCHANGED <<objects, minted>>

\* fn_delete_company_permanently, the edge's way: the rows alone.
EdgeDelete(r) ==
  /\ Free(r) /\ company /\ Gone
  /\ condemned' = TRUE
  /\ UNCHANGED <<objects, minted, req, faults>>

-----------------------------------------------------------------------------
\* The process that serves the request dies.
Die(r) ==
  /\ ~Free(r) /\ Fault /\ Done(r)
  /\ UNCHANGED <<rows, objects, minted, condemned>>

Request(r) ==
  \/ UploadRead(r) \/ UploadStore(r) \/ UploadRow(r) \/ UploadClean(r)
  \/ DeleteRead(r) \/ DeleteRow(r)   \/ DeleteFile(r)
  \/ LogoRead(r)   \/ LogoStore(r)   \/ LogoRow(r)   \/ LogoOld(r)
  \/ RemoveLogoFile(r) \/ RemoveLogoRow(r) \/ EdgeLogoStore(r) \/ EdgeLogoRow(r)
  \/ CertRead(r)   \/ CertStore(r)   \/ CertRow(r)
  \/ CondemnRead(r) \/ CondemnFile(r) \/ CondemnRow(r) \/ EdgeDelete(r)
  \/ Die(r)

Next == \E r \in Requests : Request(r)

Spec == Init /\ [][Next]_vars

-----------------------------------------------------------------------------
(***************************************************************************)
(* Properties.                                                             *)
(***************************************************************************)

\* Rows, objects and requests are well formed, and name keys of their own kind.
TypeOK ==
  /\ company \in BOOLEAN /\ docs \subseteq Docs
  /\ logo \in KeysOf("logo") \cup {EdgeKey, NoKey} /\ cert \in KeysOf("cert") \cup {NoKey}
  /\ objects \subseteq Keys \cup {EdgeKey}
  /\ minted \in [Kinds -> Nat] /\ \A kind \in Kinds : minted[kind] <= MaxKeys[kind]
  /\ req \in [Requests -> Reqs]
  /\ faults \in 0..MaxFaults /\ condemned \in BOOLEAN

\* Evidence the gate counts can be read: every document row names an object the
\* bucket holds, however requests overlap, fail and die.  Only a permanent
\* deletion gives that up, and one that fails leaves the rows standing.
EvidenceReadable == ~condemned => \A d \in docs : d.key \in objects

\* The keys a request in flight still means to name or to remove.
InHand == UNION {IF req[r].pc \in {"uploadRow", "uploadClean"} THEN {req[r].key}
                 ELSE IF req[r].pc = "deleteFile" THEN {req[r].doc.key} ELSE {} : r \in Requests}

\* "Do not leave an orphaned object behind" (uploadDocument): until the company
\* is deleted, each evidence object that no row and no request knows of is the
\* work of one call that failed or one process that died.
EvidenceNotStranded ==
  ~condemned =>
    Cardinality({k \in objects \ (Named \cup InHand) : k.kind = "doc"}) <= faults
=============================================================================
