--------------------------- MODULE DeviceRegistry ---------------------------
(***************************************************************************)
(* The device registry of frychain-depin: registry.rs, and the identity    *)
(* documents of did.rs it keeps.  Every operation runs to its end under    *)
(* &mut self; a call that is refused changes nothing and has no action.    *)
(* An index is a Vec of ids whose order nothing depends on: a bag.  The    *)
(* hash of a document is the document; reputation, earnings and times of a *)
(* device have no bearing on the rest and are left out.                    *)
(***************************************************************************)
EXTENDS Naturals

CONSTANTS
  Device,      \* DIDs
  Owner, Type,
  Revision,    \* what tells the documents of a device apart
  Missing      \* not in a map

\* A DIDDocument: the DID it describes, and whether it names a verification
\* and an authentication method
Document == [id : Device, rev : Revision, verifies : BOOLEAN, authenticates : BOOLEAN]
DeviceStatus == {"pending", "active", "suspended", "deactivated"}
DeviceInfo == [owner : Owner, type : Type, docHash : Document, status : DeviceStatus]

ASSUME RegistryAssumption == Missing \notin DeviceInfo /\ Missing \notin Document

VARIABLES
  devices,    \* DeviceInfo by DID
  documents,  \* did_documents
  byOwner,    \* devices_by_owner: how often it lists a device
  byType      \* devices_by_type

registryVars == <<devices, documents, byOwner, byType>>

RegistryTypeOK ==
  /\ devices \in [Device -> DeviceInfo \cup {Missing}]
  /\ documents \in [Device -> Document \cup {Missing}]
  /\ byOwner \in [Owner -> [Device -> Nat]]
  /\ byType \in [Type -> [Device -> Nat]]

RegistryInit ==
  /\ devices = [d \in Device |-> Missing]
  /\ documents = [d \in Device |-> Missing]
  /\ byOwner = [o \in Owner |-> [d \in Device |-> 0]]
  /\ byType = [ty \in Type |-> [d \in Device |-> 0]]

\* DIDDocument::validate
Validate(doc) == doc.verifies /\ doc.authenticates

\* Mutant of Register: a device may register again
RegisterAgain(owner, doc, type) ==
  LET d == doc.id IN
  /\ Validate(doc)
  /\ devices' = [devices EXCEPT ![d] =
       [owner |-> owner, type |-> type, docHash |-> doc, status |-> "pending"]]
  /\ documents' = [documents EXCEPT ![d] = doc]
  /\ byOwner' = [byOwner EXCEPT ![owner][d] = @ + 1]
  /\ byType' = [byType EXCEPT ![type][d] = @ + 1]

Register(owner, doc, type) ==
  LET d == doc.id IN
  /\ Validate(doc) /\ devices[d] = Missing
  /\ devices' = [devices EXCEPT ![d] =
       [owner |-> owner, type |-> type, docHash |-> doc, status |-> "pending"]]
  /\ documents' = [documents EXCEPT ![d] = doc]
  /\ byOwner' = [byOwner EXCEPT ![owner][d] = @ + 1]
  /\ byType' = [byType EXCEPT ![type][d] = @ + 1]

Owns(by, d) == devices[d] # Missing /\ devices[d].owner = by

SetStatus(d, status) ==
  /\ devices' = [devices EXCEPT ![d].status = status]
  /\ UNCHANGED <<documents, byOwner, byType>>

ActivateDevice(d, by) == Owns(by, d) /\ SetStatus(d, "active")

SuspendDevice(d, by) == Owns(by, d) /\ SetStatus(d, "suspended")

\* deactivate, by way of get_device_mut: nobody asks who does it
Deactivate(d) == devices[d] # Missing /\ SetStatus(d, "deactivated")

\* deregister: out of both indexes (retain drops every copy) and both maps
Deregister(d, by) ==
  /\ Owns(by, d)
  /\ byOwner' = [byOwner EXCEPT ![by][d] = 0]
  /\ byType' = [byType EXCEPT ![devices[d].type][d] = 0]
  /\ devices' = [devices EXCEPT ![d] = Missing]
  /\ documents' = [documents EXCEPT ![d] = Missing]

\* update_did_document: any valid document, whatever device it describes
UpdateDidDocument(d, doc, by) ==
  /\ Validate(doc) /\ Owns(by, d)
  /\ devices' = [devices EXCEPT ![d].docHash = doc]
  /\ documents' = [documents EXCEPT ![d] = doc]
  /\ UNCHANGED <<byOwner, byType>>

RegistryNext ==
  \/ \E owner \in Owner, doc \in Document, type \in Type : Register(owner, doc, type)
  \/ \E d \in Device, by \in Owner :
       \/ ActivateDevice(d, by) \/ SuspendDevice(d, by) \/ Deregister(d, by)
       \/ \E doc \in Document : UpdateDidDocument(d, doc, by)
  \/ \E d \in Device : Deactivate(d)

RegistrySpec == RegistryInit /\ [][RegistryNext]_registryVars

-----------------------------------------------------------------------------

\* The four maps of the registry tell one story, whatever was registered,
\* updated, deregistered and registered again by others: a registered device,
\* and no other, is listed once for its owner and once for its type, and has a
\* valid document whose hash is the one on record.
RegistryConsistent ==
  \A d \in Device :
    /\ \A o \in Owner : byOwner[o][d] = IF Owns(o, d) THEN 1 ELSE 0
    /\ \A ty \in Type :
         byType[ty][d] = IF devices[d] # Missing /\ devices[d].type = ty THEN 1 ELSE 0
    /\ IF devices[d] = Missing THEN documents[d] = Missing
       ELSE /\ documents[d] = devices[d].docHash
            /\ documents[d] # Missing /\ Validate(documents[d])

=============================================================================
