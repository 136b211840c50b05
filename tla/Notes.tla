------------------------------- MODULE Notes -------------------------------
(***************************************************************************)
(* Notes, tags and the links between records: services/notes.py, tags.py   *)
(* and domain_links.py.  The link rows are of the kinds                    *)
(*   "note"        from a note to a note                                   *)
(*   "entity"      from a note to a record of another kind                 *)
(*   "tag"         from a tag to a note                                    *)
(*   "commitment"  from a commitment to a record.                          *)
(* Tasks, projects and events have links of the same kinds; here they are  *)
(* the records of finance, the goals and the notes.                        *)
(***************************************************************************)
EXTENDS Goals

CONSTANTS
  Dates,         \* the dates of daily notes
  NoteLinkTypes, \* the tables a note's entity links lead to
  MaxLinks       \* bound: the tags, entities and commitments of one body

Daily(date) == {<<"note", "daily", d>> : d \in {date} \ {None}}

Small(S) == {s \in SUBSET S : Cardinality(s) <= MaxLinks}

RecordsOf(tables) == UNION {{t} \X Ids[t] : t \in tables}

\* What a body says of the links of a note.
NoteLinksBodies ==
  [tags : Small(Ids["tag"]), entities : Small(RecordsOf(NoteLinkTypes)),
   commitments : Small(Ids["commitment"])]

TagLinks(n, tags) == {<<"tag", t, <<"note", n>>>> : t \in tags}

EntityLinks(n, entities) == {<<"entity", n, e>> : e \in entities}

CommitmentLinks(n, commitments) == {<<"commitment", k, <<"note", n>>>> : k \in commitments}

\* replace_tag_links and its like ask for the records inside the
\* transaction, where they cannot be deleted any more.
Needed(body) ==
  ({"tag"} \X body.tags) \cup body.entities \cup ({"commitment"} \X body.commitments)

NoteLinks(n, body) ==
  TagLinks(n, body.tags) \cup EntityLinks(n, body.entities)
    \cup CommitmentLinks(n, body.commitments)

(***************************************************************************)
(* Notes.  One live note has a daily date.                                 *)
(***************************************************************************)
DateFree(date, except) ==
  \A n \in Live("note") \ {except} : db.note[n].held \cap Daily(date) = {}

NoteCreation(body, date) ==
  [body |-> body, date |-> date] &
    [Creation("note") EXCEPT !.held = Daily(date), !.needs = Needed(body)]

BeginCreateNote(c) ==
  Reads(c, "create_note",
    {NoteCreation(body, date) :
       body \in NoteLinksBodies,
       date \in {d \in Field(Dates) : Free("note") # {} /\ DateFree(d, None)}})

CreateNote(c) ==
  LET r == request[c]
  IN /\ Commits(c, "create_note", {}, NoteLinks(NewId("note"), r.body))
     /\ db' = Added("note", [held |-> r.held, date |-> r.date])

\* A PATCH names the date, or the links of one kind, or none of them; the
\* kinds it does not name stay.
NotePatches(n) ==
  {[kinds |-> {}, date |-> date] & [Change("note", n) EXCEPT !.held = Daily(date)] :
     date \in {d \in Field(Dates) : DateFree(d, n)}}
  \cup {[kinds |-> {"tag"}, date |-> db.note[n].date] &
          [Change("note", n) EXCEPT !.needs = Needed(body), !.adds = NoteLinks(n, body)] :
        body \in {b \in NoteLinksBodies : b.entities = {} /\ b.commitments = {}}}
  \cup {[kinds |-> {"entity", "commitment"}, date |-> db.note[n].date] &
          [Change("note", n) EXCEPT !.needs = Needed(body), !.adds = NoteLinks(n, body)] :
        body \in {b \in NoteLinksBodies : b.tags = {}}}

BeginUpdateNote(c) ==
  Reads(c, "update_note", UNION {NotePatches(n) : n \in Changeable("note")})

\* The rows of the kinds of link that a body names.
LinksReplaced(n, kinds) ==
  {l \in links : l[1] \in kinds
     /\ IF l[1] = "entity" THEN l[2] = n ELSE l[3] = <<"note", n>>}

UpdateNote(c) ==
  LET r == request[c]
  IN /\ Commits(c, "update_note", LinksReplaced(r.id, r.kinds), r.adds)
     /\ db' = Updated(r, [date |-> r.date])

\* Everything that leads to the note or from it.
LinksWith(n) ==
  {l \in links : \/ l[3] = <<"note", n>>
                 \/ l[1] \in {"note", "entity"} /\ l[2] = n}

BeginDeleteNote(c) ==
  Reads(c, "delete_note",
    {[Change("note", n) EXCEPT !.held = {}, !.drops = LinksWith(n)] :
       n \in Changeable("note")})

DeleteNote(c) ==
  Writes(c, "delete_note") /\ db' = SoftDeleted(request[c])

BeginAddNoteLink(c) ==
  Reads(c, "add_note_link",
    {[LinkChange EXCEPT !.adds = {<<"note", p[1], <<"note", p[2]>>>>}] :
       p \in {q \in Live("note") \X Live("note") :
                q[1] # q[2] /\ <<"note", q[1], <<"note", q[2]>>>> \notin links}})

AddNoteLink(c) ==
  Writes(c, "add_note_link") /\ UNCHANGED db

BeginRemoveNoteLink(c) ==
  Reads(c, "remove_note_link",
    {[LinkChange EXCEPT !.drops = {l}] :
       l \in {k \in links : k[1] = "note" /\ k[2] \in Live("note")}})

RemoveNoteLink(c) ==
  Writes(c, "remove_note_link") /\ UNCHANGED db

(***************************************************************************)
(* Tags.                                                                   *)
(***************************************************************************)
BeginCreateTag(c) ==
  Reads(c, "create_tag", {Creation("tag") : i \in Free("tag")})

CreateTag(c) ==
  Writes(c, "create_tag") /\ db' = Added("tag", [named |-> TRUE])

BeginDeleteTag(c) ==
  Reads(c, "delete_tag", {Change("tag", t) : t \in Changeable("tag")})

\* The links of the tag stay.
DeleteTag(c) ==
  Writes(c, "delete_tag") /\ db' = SoftDeleted(request[c])

(***************************************************************************)
(* The requests of notes.py and tags.py.                                   *)
(***************************************************************************)
NoteRequest(c) ==
  \/ BeginCreateNote(c) \/ CreateNote(c)
  \/ BeginUpdateNote(c) \/ UpdateNote(c)
  \/ BeginDeleteNote(c) \/ DeleteNote(c)
  \/ BeginAddNoteLink(c) \/ AddNoteLink(c)
  \/ BeginRemoveNoteLink(c) \/ RemoveNoteLink(c)

TagRequest(c) ==
  \/ BeginCreateTag(c) \/ CreateTag(c)
  \/ BeginDeleteTag(c) \/ DeleteTag(c)

(***************************************************************************)
(* Properties.                                                             *)
(***************************************************************************)
\* While one client works alone, a link between notes and a link of a
\* commitment lead from an active record to an active record: every service
\* that deletes a record removes them.
LinksLead ==
  Alone => \A l \in links :
    /\ l[1] = "note" => l[2] \in Live("note")
    /\ l[1] = "commitment" => l[2] \in Live("commitment")
    /\ l[1] \in {"note", "commitment"} => l[3][2] \in Live(l[3][1])
    /\ l[1] = "entity" => l[2] \in Live("note")
=============================================================================
