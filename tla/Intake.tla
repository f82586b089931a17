-------------------------------- MODULE Intake --------------------------------
(***************************************************************************)
(* What becomes of the file of a POST /documents (routers/documents.py     *)
(* upload_document, pipeline/intake.py, pipeline/email_intake.py): which   *)
(* documents it makes, which of its parts are rejected by name, and when   *)
(* the request fails as a whole.                                           *)
(*                                                                         *)
(* A file is its kind, and the parts of an archive or of a message are a   *)
(* sequence of kinds.  "folder" and "locked" (encrypted or damaged) are    *)
(* entries of an archive, "message" is a message attached to a message,    *)
(* "item" any Outlook item that is not a message.                          *)
(***************************************************************************)
EXTENDS Naturals, Sequences

FileKinds == {"pdf", "office", "empty", "large", "infected", "zip"}

\* An upload: parts is empty unless kind is "zip", "eml" or "msg".
Upload == [kind : FileKinds \cup {"eml", "msg", "item"},
           parts : Seq(FileKinds \cup {"folder", "locked", "message"})]

Has(u, kind) == \E i \in DOMAIN u.parts : u.parts[i] = kind

\* validate_and_scan: only a PDF of a sane size, without malware, is accepted.
Validated(kind) == kind = "pdf"

\* expand_zip: one level only, and without the folders.
Entries(u) == SelectSeq(u.parts, LAMBDA k : k \notin {"folder", "zip"})
NestedArchives(u) == SelectSeq(u.parts, LAMBDA k : k = "zip")

\* ... and what it raises, of its own or from archive.read.
ArchiveRaises(u) == Has(u, "locked") \/ \A i \in DOMAIN u.parts : u.parts[i] = "folder"

\* parse_msg takes the attachments whose data is bytes, parse_eml takes all of
\* them and raises for a message: it is neither bytes nor a string.
Attachments(u) == SelectSeq(u.parts, LAMBDA k : k # "message")
EmlRaises(u) == Has(u, "message")

\* upload_document: when the whole request fails, ...
Raises(u) ==
  CASE u.kind = "zip" -> ArchiveRaises(u)
    [] u.kind = "eml" -> EmlRaises(u)
    [] u.kind = "msg" -> FALSE
    [] OTHER -> ~Validated(u.kind)

\* ... and otherwise the documents it creates, one after another (for a message
\* the first is its body) ...
Received(u) ==
  CASE u.kind = "zip" -> SelectSeq(Entries(u), Validated)
    [] u.kind \in {"eml", "msg"} -> <<"pdf">> \o SelectSeq(Attachments(u), Validated)
    [] OTHER -> <<u.kind>>

\* ... and the parts that it lists under "rejected".
Rejected(u) ==
  LET Refused(k) == ~Validated(k)
  IN  CASE u.kind = "zip" -> NestedArchives(u) \o SelectSeq(Entries(u), Refused)
        [] u.kind \in {"eml", "msg"} -> SelectSeq(Attachments(u), Refused)
        [] OTHER -> <<>>

-----------------------------------------------------------------------------
(* Checked over small uploads                                               *)

Parts(kinds) == UNION {[1..n -> kinds] : n \in 0..3}

Archives == [kind : {"zip"}, parts : Parts(FileKinds \cup {"folder", "locked"})]
Messages == [kind : {"eml", "msg"}, parts : Parts(FileKinds \cup {"message"})]

\* Files that a person would count: not folders, and the body of a message.
Files(u) ==
  Len(SelectSeq(u.parts, LAMBDA k : k # "folder")) + (IF u.kind = "zip" THEN 0 ELSE 1)

\* "bad entries are collected in `rejected` rather than failing the whole batch":
\* what does not fail is accounted for to the last file, with one exception, the
\* messages attached to an Outlook message, which nobody is told of.
ASSUME FilesAccounted ==
  \A u \in Archives \cup Messages :
    ~Raises(u) =>
      /\ Len(Received(u)) + Len(Rejected(u))
           = Files(u) - Len(SelectSeq(u.parts, LAMBDA k : u.kind = "msg" /\ k = "message"))
      /\ \A i \in DOMAIN Received(u) : Validated(Received(u)[i])

=============================================================================
