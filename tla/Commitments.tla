---------------------------- MODULE Commitments ----------------------------
(***************************************************************************)
(* Commitments and their links: services/commitment_management.py and      *)
(* services/commitments.py.  Of the money of a commitment, only whether it *)
(* is given counts here; of its dates, their order.                        *)
(***************************************************************************)
EXTENDS Notes

CONSTANTS
  Terms,            \* the money and the dates a commitment is created with
  Statuses,         \* the statuses clients give a commitment
  TermPatches       \* what a PATCH says of them: records of some of the fields

CommitmentStatus == {"draft", "planned", "active", "completed", "cancelled", "archived"}

ASSUME CommitmentAssumption == Statuses \subseteq CommitmentStatus \ {"archived"}

\* The tables a commitment link leads to.
TargetModels == {"note", "plan", "actual", "budget", "saving", "goal"}

(***************************************************************************)
(* The shape that the schema checks on creation, _prospective_values on an *)
(* update and the table by its constraints.                                *)
(***************************************************************************)
WellShaped(terms) ==
  /\ terms.starts # None /\ terms.ends # None => terms.starts < terms.ends
  /\ terms.deadline # None /\ terms.ends # None => terms.deadline <= terms.ends
  /\ (terms.cost \/ terms.buffer) <=> terms.currency

\* A PATCH that leaves no money takes the currency away with it.
ProspectiveValues(terms, patch) ==
  LET after == patch & terms
  IN IF /\ DOMAIN patch \cap {"cost", "buffer"} # {}
        /\ ~after.cost /\ ~after.buffer
        /\ "currency" \notin DOMAIN patch
     THEN [currency |-> FALSE] & patch
     ELSE patch

(***************************************************************************)
(* Commitments.                                                            *)
(***************************************************************************)
Archived(k) == db.commitment[k].status = "archived"

BeginCreateCommitment(c) ==
  Reads(c, "create_commitment",
    {[terms |-> terms, status |-> status] & Creation("commitment") :
       terms \in {t \in Terms : Free("commitment") # {} /\ WellShaped(t)},
       status \in Statuses})

CreateCommitment(c) ==
  /\ Writes(c, "create_commitment")
  /\ db' = Added("commitment", [terms |-> request[c].terms, status |-> request[c].status])

\* A PATCH writes the fields it names, and a status other than archived.
CommitmentPatches(k) ==
  {[values |-> ProspectiveValues(db.commitment[k].terms, patch),
    status |-> db.commitment[k].status] : patch \in TermPatches}
  \cup [values : {<<>>}, status : Statuses]

BeginUpdateCommitment(c) ==
  Reads(c, "update_commitment",
    UNION {{patch & Change("commitment", k) :
              patch \in {p \in CommitmentPatches(k) :
                           WellShaped(p.values & db.commitment[k].terms)}} :
           k \in {j \in Changeable("commitment") : ~Archived(j)}})

UpdateCommitment(c) ==
  LET r == request[c]
  IN /\ Writes(c, "update_commitment")
     /\ db' = Updated(r, [terms |-> r.values & db.commitment[r.id].terms,
                          status |-> r.status])

BeginArchiveCommitment(c) ==
  Reads(c, "archive_commitment",
    {Change("commitment", k) : k \in {j \in Changeable("commitment") : ~Archived(j)}})

ArchiveCommitment(c) ==
  Writes(c, "archive_commitment") /\ db' = Updated(request[c], [status |-> "archived"])

\* The links are read before the transaction.
BeginDeleteCommitment(c) ==
  Reads(c, "delete_commitment",
    {[Change("commitment", k) EXCEPT
        !.drops = {l \in links : l[1] = "commitment" /\ l[2] = k}] :
       k \in Changeable("commitment")})

DeleteCommitment(c) ==
  Writes(c, "delete_commitment") /\ db' = SoftDeleted(request[c])

(***************************************************************************)
(* Links.  Whether both ends are active, whether the commitment is         *)
(* archived and whether the link exists is asked before the transaction.   *)
(***************************************************************************)
Linkable == {k \in Live("commitment") : ~Archived(k)}

BeginAddCommitmentLink(c) ==
  Reads(c, "add_commitment_link",
    {[LinkChange EXCEPT !.adds = {l}] :
       l \in {<<"commitment", k, x>> :
                k \in Linkable, x \in {y \in RecordsOf(TargetModels) : y[2] \in Live(y[1])}}
             \ links})

AddCommitmentLink(c) ==
  Writes(c, "add_commitment_link") /\ UNCHANGED db

BeginRemoveCommitmentLink(c) ==
  Reads(c, "remove_commitment_link",
    {[LinkChange EXCEPT !.drops = {l}] :
       l \in {m \in links : m[1] = "commitment" /\ m[2] \in Linkable}})

RemoveCommitmentLink(c) ==
  Writes(c, "remove_commitment_link") /\ UNCHANGED db

\* The requests of commitments.py.
CommitmentRequest(c) ==
  \/ BeginCreateCommitment(c) \/ CreateCommitment(c)
  \/ BeginUpdateCommitment(c) \/ UpdateCommitment(c)
  \/ BeginArchiveCommitment(c) \/ ArchiveCommitment(c)
  \/ BeginDeleteCommitment(c) \/ DeleteCommitment(c)
  \/ BeginAddCommitmentLink(c) \/ AddCommitmentLink(c)
  \/ BeginRemoveCommitmentLink(c) \/ RemoveCommitmentLink(c)

(***************************************************************************)
(* Properties.                                                             *)
(***************************************************************************)
\* The stored dates and money of a commitment fit together although a PATCH
\* is validated against an earlier read and writes only the fields it names.
CommitmentsWellShaped ==
  \A k \in {j \in Ids["commitment"] : db.commitment[j].rev > 0} :
    WellShaped(db.commitment[k].terms)

\* What is archived is not edited, only deleted, also by a PATCH that began
\* before.
ArchivedImmutable ==
  \A k \in Live("commitment") : Archived(k) =>
    /\ db'.commitment[k].terms = db.commitment[k].terms
    /\ db'.commitment[k].status = "archived"

LinksToActive(k) ==
  {l \in links : l[1] = "commitment" /\ l[2] = k /\ l[3][2] \in Live(l[3][1])}

\* docs/commitment-engine.md:158: archived commitments "retain their links as
\* an audit snapshot, and reject edits and link mutations".  While one client
\* works alone, an archived commitment keeps its links to the records that
\* stay, and gets no other.
ArchivedKeepsLinks ==
  [][Alone => \A k \in Live("commitment") \cap Live("commitment")' : Archived(k) =>
       LinksToActive(k)' = {l \in LinksToActive(k) : l[3][2] \in Live(l[3][1])'}]_recordVars
=============================================================================
