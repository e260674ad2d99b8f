----------------------------- MODULE Preferences -----------------------------
(***************************************************************************)
(* The configuration file of the chat client, which client/MainWindow.cpp  *)
(* reads when it starts and writes when the user accepts the dialog of     *)
(* client/PreferencesDialog.cpp.                                           *)
(*                                                                         *)
(* A value is represented by its length.  The file is the document written *)
(* last, from its first byte on, and what is left behind it of earlier     *)
(* ones.  Every document that is written ends with a brace and a line      *)
(* break, so that what is left behind is the end of one, too.              *)
(***************************************************************************)
EXTENDS Integers, FiniteSetsExt

CONSTANTS
    Keys,        \* the entries of the configuration
    Default,     \* the length of the default value of each
    MaxValue     \* bound: length of a value

VARIABLES
    running,     \* is there a process?
    fatal,       \* has qFatal ended it?
    conf_,       \* of the window
    table,       \* the values in the dialog's table
    file,        \* what is in config_file_
    unwritten    \* the document in its write buffer: none or one

vars == <<running, fatal, conf_, table, file, unwritten>>

Values == [Keys -> 0 .. MaxValue]

\* The length of the values in a document; the rest of it is always the same.
Size(doc) == MapThenSumSet(LAMBDA k : doc[k], DOMAIN doc)

\* seek(0) and write: the file is not truncated, so bytes of an earlier one
\* stay behind a shorter document.
Overwritten(f, doc) ==
    [doc |-> doc,
     left |-> IF f.doc = << >> THEN 0 ELSE Max({0, Size(f.doc) + f.left - Size(doc)})]

\* Does QJsonDocument::fromJson accept the file?  One byte that is left behind
\* is the line break, more are not part of any document.
Valid(f) == f.left <= 1

\* loadConf, of a valid document: entries that are missing get default values.
Loaded(doc) == [k \in Keys |-> IF k \in DOMAIN doc THEN doc[k] ELSE Default]

\* The constructors of MainWindow and PreferencesDialog.
Start ==
    /\ ~running /\ ~fatal
    /\ IF Valid(file)
       THEN /\ running' = TRUE
            /\ conf_' = Loaded(file.doc)
            /\ table' = Loaded(file.doc)
            /\ UNCHANGED fatal
       ELSE /\ fatal' = TRUE
            /\ UNCHANGED <<running, conf_, table>>
    /\ UNCHANGED <<file, unwritten>>

\* The user changes a value in the table.  It stays there if he cancels.
Edit(k, v) ==
    /\ running
    /\ table' = [table EXCEPT ![k] = v]
    /\ UNCHANGED <<running, fatal, conf_, file, unwritten>>

\* PreferencesDialog::accept and MainWindow::saveConf: seek passes on what was
\* still in the buffer.
Accept ==
    /\ running
    /\ conf_' = table
    /\ file' = IF unwritten = {} THEN file
               ELSE Overwritten(file, CHOOSE doc \in unwritten : TRUE)
    /\ unwritten' = {table}
    /\ UNCHANGED <<running, fatal, table>>

\* The program ends, and the file is closed; a process that is killed may lose
\* what is in the buffer.
End(closed) ==
    /\ running
    /\ running' = FALSE
    /\ file' = IF unwritten = {} \/ ~closed THEN file
               ELSE Overwritten(file, CHOOSE doc \in unwritten : TRUE)
    /\ unwritten' = {}
    /\ UNCHANGED <<fatal, conf_, table>>

-----------------------------------------------------------------------------
\* Before the first start the file is empty.
Init ==
    /\ running = FALSE /\ fatal = FALSE
    /\ conf_ = Loaded(<< >>) /\ table = Loaded(<< >>)
    /\ file = [doc |-> << >>, left |-> 0]
    /\ unwritten = {}

Next ==
    \/ Start
    \/ \E k \in Keys : \E v \in 0 .. MaxValue : Edit(k, v)
    \/ Accept
    \/ \E closed \in BOOLEAN : End(closed)

Spec == Init /\ [][Next]_vars

-----------------------------------------------------------------------------
(* Properties *)

\* qFatal("Invalid configuration") is for files that somebody else has spoiled:
\* one that only saveConf has written can be loaded again.
Restartable == ~fatal
=============================================================================
