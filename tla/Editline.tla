------------------------------ MODULE Editline ------------------------------
(***************************************************************************)
(* The glue to libedit (src/editline.c): an editline structure, its        *)
(* history with an optional file, and the loop ec_editline_interact(),     *)
(* whose command callbacks may call the library again.  The process may    *)
(* die at any time; the history files stay.                                *)
(*                                                                         *)
(* p is the process: the objects in use (live, left and fault: see         *)
(* Interact), the structure ed, the history el_hist that libedit refers    *)
(* to, the content of the current history (past), the local variables of   *)
(* ec_editline_interact() (loop), and the file that the caller asked for   *)
(* last (asked).                                                           *)
(***************************************************************************)
EXTENDS Interact, SequencesExt

CONSTANTS
  Lines,        \* what can be typed: records, see Interact
  Files,        \* names of history files
  NoFile,
  Grammars,     \* sh_lex nodes that the caller keeps
  Others,       \* nodes of another type
  NoNode,
  Sizes,        \* the history sizes that the caller asks for
  DefaultSize,  \* EC_EDITLINE_HISTORY_SIZE
  CutLine,      \* a line of a file whose end was not written
  MaxLeft,      \* bound on the place of the call that fails
  MaxEntered    \* bound on the lines entered in history files

ASSUME EditlineAssumption ==
  /\ NoFile \notin Files /\ NoNode \notin Grammars \cup Others
  /\ Sizes \subseteq Nat /\ DefaultSize \in Nat \ {0} /\ MaxLeft \in Nat
  /\ \A l \in Lines : {l.words, l.groups, l.items, l.right.groups} \subseteq Nat /\ l.name # CutLine

VARIABLES
  p,
  disk,     \* the content of each file
  entered,  \* history: the lines read while each file was asked for
  missing,  \* history: whether a line read or saved before may be missing in
            \* the history in memory
  partial   \* history: whether one may be missing in each file

kept == <<disk, entered, missing, partial>>
vars == <<p, disk, entered, missing, partial>>

NoEditline == [self |-> Null, el |-> Null, history |-> Null, file |-> Null, path |-> NoFile, prompt |-> Null, node |-> NoNode]
NoPast == [size |-> 0, lines |-> <<>>]
NoLoop == [pc |-> "out", node |-> NoNode, line |-> Null, vec |-> Null, parse |-> Null]
NewProcess ==
  [live |-> {}, left |-> -1, fault |-> FALSE, ed |-> NoEditline, el_hist |-> Null,
   past |-> NoPast, loop |-> NoLoop, asked |-> NoFile]

Up == p.ed.self # Null
\* the calls before the one that fails, -1 if none does; Few for the functions
\* that make two such calls, Several for ec_editline_set_history(), of five
Budgets == -1..MaxLeft
Few == -1..1
Several == -1..4
WithLeft(k) == [p EXCEPT !.left = k]
Rest(q) == [q EXCEPT !.left = -1]

-----------------------------------------------------------------------------
\* The history of libedit: a line that repeats the newest one is not entered
\* (H_SETUNIQUE), and the oldest are dropped.
Entered(past, s) ==
  IF past.lines # <<>> /\ Last(past.lines) = s THEN past.lines
  ELSE LET all == Append(past.lines, s) IN SubSeq(all, Len(all) - (IF Len(all) > past.size THEN past.size ELSE Len(all)) + 1, Len(all))
Loaded(size, lines) ==
  LET f[n \in 0..Len(lines)] == IF n = 0 THEN <<>> ELSE Entered([size |-> size, lines |-> f[n - 1]], lines[n])
  IN  f[Len(lines)]

EndHistory(q) == [Free(q, q.ed.history) EXCEPT !.ed.history = Null, !.past = NoPast]

\* ec_editline_set_history() so far, and its label fail
Sets(q) == [ok |-> TRUE, p |-> q]
HistoryFails(q) == [ok |-> FALSE, p |-> EndHistory(q)]

\* history_init(), and one of the settings H_SETSIZE and H_SETUNIQUE
NewHistory(q, size) ==
  New(q, {q.ed.history, q.el_hist} \ {Null}, LAMBDA r : [ok |-> FALSE, p |-> [r EXCEPT !.ed.history = Null]], LAMBDA r, h :
  Sets([r EXCEPT !.ed.history = h, !.past = [size |-> size, lines |-> <<>>]]))
HistorySetting(r) == IF r.ok THEN Call(r.p, HistoryFails, Sets) ELSE r

\* the file is loaded, errors ignored; lines are those that were read
LoadHistory(r, file, lines) ==
  IF ~r.ok \/ file = NoFile THEN r
  ELSE Alloc(r.p, HistoryFails, LAMBDA q, o :
       Sets([q EXCEPT !.ed.file = o, !.ed.path = file, !.past.lines = Loaded(q.past.size, lines)]))

\* el_set(EL_HIST)
Attach(r) ==
  IF r.ok THEN Call(r.p, HistoryFails, LAMBDA q : Sets([q EXCEPT !.el_hist = q.ed.history])) ELSE r

\* what ec_editline_set_history() first does
DropHistory(q) ==
  [Free(Free(q, q.ed.history), q.ed.file) EXCEPT !.ed.file = Null, !.ed.path = NoFile, !.past = NoPast]

\* ec_editline_set_history(); lines is what H_LOAD reads from the file.  With
\* size 0 it leaves ed.history as it is.
SetHistoryOf(q, size, file, lines) ==
  IF size = 0 THEN Sets(DropHistory(q))
  ELSE Attach(LoadHistory(HistorySetting(HistorySetting(NewHistory(DropHistory(q), size))), file, lines))

\* ec_editline_free()
FreeEditline(q) ==
  [FreeAll(Free(Free(Free(q, q.ed.history), q.ed.file), q.ed.prompt), {q.ed.self, q.ed.el} \ {Null})
    EXCEPT !.ed = NoEditline, !.el_hist = Null, !.past = NoPast, !.asked = NoFile]

\* ec_editline(): el_init(), the settings, the prompt, the history and the
\* completion callback; the label fail frees what there is
Made(q) == q.ed.self # Null
NewSelf(q) == Alloc(q, LAMBDA r : r, LAMBDA r, self : [r EXCEPT !.ed.self = self])
NewEl(q) == IF Made(q) THEN Alloc(q, FreeEditline, LAMBDA r, el : [r EXCEPT !.ed.el = el]) ELSE q
Settings(q) == IF Made(q) THEN Call(q, FreeEditline, LAMBDA r : r) ELSE q
NewPrompt(q) == IF Made(q) THEN Alloc(q, FreeEditline, LAMBDA r, prompt : [r EXCEPT !.ed.prompt = prompt]) ELSE q
OrFree(r) == IF r.ok THEN r.p ELSE FreeEditline(r.p)
SetUpHistory(q, history) ==
  IF Made(q) /\ history THEN OrFree(SetHistoryOf(q, DefaultSize, NoFile, <<>>)) ELSE q
SetUpCompletion(q, completion) == IF completion THEN Settings(q) ELSE q
NewEditline(q, history, completion) ==
  SetUpCompletion(SetUpHistory(Settings(NewPrompt(Settings(NewEl(NewSelf(q))))), history), completion)

\* ec_editline_set_prompt(), ec_editline_set_prompt_esc()
SetPromptOf(q) ==
  Alloc(q, LAMBDA r : r, LAMBDA r, copy :
  Call(r, LAMBDA r1 : Free(r1, copy), LAMBDA r1 : [Free(r1, r.ed.prompt) EXCEPT !.ed.prompt = copy]))

-----------------------------------------------------------------------------
\* What H_LOAD reads of a file: all, or the lines before the one at which it
\* fails
Loads(file) == IF file = NoFile THEN {<<>>} ELSE {SubSeq(disk[file], 1, n) : n \in 0..Len(disk[file])}

\* The functions that the caller calls outside of the loop, or from a callback
CanCall == Up /\ p.loop.pc \in {"out", "cb"}

Open ==
  /\ ~Up /\ p.loop = NoLoop
  /\ \E k \in Budgets, history, completion \in BOOLEAN : p' = Rest(NewEditline(WithLeft(k), history, completion))
  /\ UNCHANGED kept

Close ==
  /\ Up /\ p.loop.pc = "out"
  /\ p' = FreeEditline(p) /\ missing' = FALSE
  /\ UNCHANGED <<disk, entered, partial>>

\* what was loaded misses a line, unless it is all of a file that does not; an
\* empty history misses none of those that come after it
SetHistory ==
  /\ CanCall
  /\ \E size \in Sizes, file \in Files \cup {NoFile}, k \in Several :
     \E lines \in Loads(file) :
     \E r \in {SetHistoryOf(WithLeft(k), size, file, lines)} :
       /\ p' = [Rest(r.p) EXCEPT !.asked = IF r.ok /\ size > 0 THEN file ELSE NoFile]
       /\ missing' = (lines # <<>> /\ (lines # disk[file] \/ partial[file]))
  /\ UNCHANGED <<disk, entered, partial>>

SetPrompt ==
  /\ CanCall
  /\ \E k \in Few : p' = Rest(SetPromptOf(WithLeft(k)))
  /\ UNCHANGED kept

\* EINVAL for a node that is not a sh_lex
SetNode ==
  /\ CanCall
  /\ \E node \in Grammars \cup Others : p' = IF node \in Grammars THEN [p EXCEPT !.ed.node = node] ELSE p
  /\ UNCHANGED kept

\* What ec_editline_gets() does once libedit gave the line: a line that is not
\* blank is entered in the history (done tells whether H_ENTER succeeds), and
\* the history is saved; errors of both are ignored.
Enters(q, l) == q.ed.history # Null /\ ~l.blank
History(q, l, done) == IF Enters(q, l) /\ done THEN Entered(q.past, l.name) ELSE q.past.lines
Remembers(q, l, done) ==
  IF Enters(q, l) THEN [q EXCEPT !.past.lines = History(q, l, done), !.fault = @ \/ q.ed.history \notin q.live]
  ELSE q

\* What a file can hold once H_SAVE was called: what it held, if it cannot be
\* opened; else the lines, or their beginning if a write fails or the process
\* dies, the last of these being cut anywhere.
Beginnings(lines) == {SubSeq(lines, 1, n) : n \in 0..Len(lines)}
CutShort(lines) == {Append(SubSeq(lines, 1, n - 1), CutLine) : n \in 1..Len(lines)}
Written(file, lines) == {disk[file]} \cup Beginnings(lines) \cup CutShort(lines)

Saved(file, lines) ==
  \E content \in Written(file, lines) :
    /\ disk' = [disk EXCEPT ![file] = content]
    /\ partial' = [partial EXCEPT ![file] = missing' \/ content # lines]

\* mutant: the file is written before the line is in the history
SavesEarly(q, l, done) ==
  /\ missing' = (missing \/ (Enters(q, l) /\ ~done))
  /\ IF Enters(q, l) /\ q.ed.path # NoFile THEN Saved(q.ed.path, q.past.lines) ELSE UNCHANGED <<disk, partial>>

Saves(q, l, done) ==
  /\ missing' = (missing \/ (Enters(q, l) /\ ~done))
  /\ IF Enters(q, l) /\ q.ed.path # NoFile THEN Saved(q.ed.path, History(q, l, done)) ELSE UNCHANGED <<disk, partial>>
Room == MapThenSumSet(LAMBDA f : Len(entered[f]), Files) < MaxEntered
Logs(l) ==
  /\ p.asked # NoFile /\ ~l.blank => Room
  /\ entered' = IF p.asked # NoFile /\ ~l.blank THEN [entered EXCEPT ![p.asked] = Append(@, l.name)] ELSE entered

\* ec_editline_parse() by the caller, who frees the tree; as ec_editline_gets(),
\* it may be called by a callback to ask for something
Parsed(q, line) == Alloc(q, LAMBDA r : Free(r, line), LAMBDA r, parse : Free(Free(r, line), parse))
ParseLineOf(q, l, done) ==
  Alloc(q, LAMBDA r : [ok |-> FALSE, p |-> r], LAMBDA r, line : [ok |-> TRUE, p |-> Parsed(Remembers(r, l, done), line)])
ParseLine ==
  /\ CanCall /\ p.ed.node # NoNode
  /\ \E l \in Lines, done \in BOOLEAN, k \in Few : \E r \in {ParseLineOf(WithLeft(k), l, done)} :
       /\ p' = Rest(r.p)
       /\ IF r.ok THEN Logs(l) /\ Saves(p, l, done) ELSE UNCHANGED kept

-----------------------------------------------------------------------------
\* ec_editline_interact()

\* node is read once, before the loop
Interact ==
  /\ Up /\ p.loop.pc = "out" /\ p.ed.node # NoNode
  /\ p' = [p EXCEPT !.loop = [NoLoop EXCEPT !.pc = "check", !.node = p.ed.node]]
  /\ UNCHANGED kept

CheckExit ==
  /\ p.loop.pc = "check"
  /\ \E exit \in BOOLEAN : p' = [p EXCEPT !.loop = IF exit THEN NoLoop ELSE [@ EXCEPT !.pc = "gets"]]
  /\ UNCHANGED kept

\* TAB or '?' while a line is edited
CompleteKey ==
  /\ p.loop.pc = "gets"
  /\ \E key \in {"?", "tab"}, l \in Lines, k \in Budgets : p' = Rest(Complete(WithLeft(k), key, l, p.ed.node # NoNode))
  /\ UNCHANGED kept

\* mutant: the variable parse keeps the address of the tree it freed
AgainStale(q) ==
  [Free(Free(Free(q, q.loop.line), q.loop.parse), q.loop.vec)
    EXCEPT !.loop = [NoLoop EXCEPT !.pc = "check", !.node = q.loop.node, !.parse = q.loop.parse]]

\* the labels again and fail
Again(q) ==
  [Free(Free(Free(q, q.loop.line), q.loop.parse), q.loop.vec)
    EXCEPT !.loop = [NoLoop EXCEPT !.pc = "check", !.node = q.loop.node]]
Leave(q) == [Free(Free(Free(q, q.loop.line), q.loop.parse), q.loop.vec) EXCEPT !.loop = NoLoop]

\* a line that does not match: the helps are printed, or "Invalid command" if
\* either fails
ErrorReport(q, l) == Printed(GetErrorHelps(q, l)).p

CallCommand(q, l) ==
  IF ~l.matches THEN Again(ErrorReport(q, l)) ELSE IF l.cb THEN [q EXCEPT !.loop.pc = "cb"] ELSE Leave(q)

\* the line is split (EBADMSG if it is open), parsed, and its callback called
ParseStep(q, l) ==
  Alloc(q, Leave, LAMBDA r, tree :
  CallCommand([r EXCEPT !.loop.parse = tree], l))
LexStep(q, l) ==
  IF l.open THEN Again(q)
  ELSE Alloc(q, Leave, LAMBDA r, vec :
       IF l.words = 0 THEN Again([r EXCEPT !.loop.vec = vec]) ELSE ParseStep([r EXCEPT !.loop.vec = vec], l))

\* the line is read; on EOF, or if it cannot be copied, the loop ends
EndOfInput ==
  /\ p.loop.pc = "gets"
  /\ p' = Leave(p)
  /\ UNCHANGED kept
GetLine ==
  /\ p.loop.pc = "gets"
  /\ \E l \in Lines, done \in BOOLEAN, k \in Budgets \ {0} :
     /\ p' = Rest(Alloc(WithLeft(k), Leave, LAMBDA q, line : LexStep([Remembers(q, l, done) EXCEPT !.loop.line = line], l)))
     /\ Logs(l)
     /\ Saves(p, l, done)

\* the callback returns, with an error or not
CallbackReturns ==
  /\ p.loop.pc = "cb"
  /\ p' = Again(p)
  /\ UNCHANGED kept

\* the process dies: what is in memory is lost
Crash ==
  /\ Up
  /\ p' = NewProcess /\ missing' = FALSE
  /\ UNCHANGED <<disk, entered, partial>>

\* the process dies in ec_editline_gets(), before, in or after H_SAVE
CrashInGets ==
  /\ p.loop.pc = "gets" \/ (CanCall /\ p.ed.node # NoNode)
  /\ p' = NewProcess
  /\ \E l \in Lines, done \in BOOLEAN : Logs(l) /\ Saves(p, l, done)

Init ==
  /\ p = NewProcess
  /\ disk = [f \in Files |-> <<>>]
  /\ entered = [f \in Files |-> <<>>]
  /\ missing = FALSE
  /\ partial = [f \in Files |-> FALSE]

Next ==
  \/ Open \/ Close \/ SetHistory \/ SetPrompt \/ SetNode \/ ParseLine
  \/ Interact \/ CheckExit \/ CompleteKey \/ EndOfInput \/ GetLine \/ CallbackReturns \/ Crash
  \/ CrashInGets

Spec == Init /\ [][Next]_vars

-----------------------------------------------------------------------------
\* The objects that a variable of the library points to
Pointers == <<p.ed.self, p.ed.el, p.ed.history, p.ed.file, p.ed.prompt, p.loop.line, p.loop.vec, p.loop.parse>>

(***************************************************************************)
(* Whatever fails on the way, every object in use has exactly one owner,   *)
(* and every pointer of the structure and of the loop is NULL or in use:   *)
(* nothing leaks, is freed twice or is used once freed, on the paths of    *)
(* ec_editline(), of its setters, of completion, of the help and error     *)
(* reports and of the labels again and fail, also when a callback calls    *)
(* the library from inside of the loop.  With size 0 it does not hold: the *)
(* history that was ended stays in the structure and is ended again.       *)
(***************************************************************************)
OwnedExact ==
  /\ ~p.fault /\ p.live = Range(Pointers) \ {Null}
  /\ \A i, j \in DOMAIN Pointers : Pointers[i] = Pointers[j] => i = j \/ Pointers[i] = Null

\* The lines of a log without those that repeat the one before
Squeezed(log) ==
  LET f[n \in 0..Len(log)] ==
        IF n = 0 THEN <<>>
        ELSE IF n > 1 /\ log[n] = log[n - 1] THEN f[n - 1] ELSE Append(f[n - 1], log[n])
  IN  f[Len(log)]

\* The lines are among those of the log, in their order and each once; a cut
\* one stands for a line of which the end is missing.
Within(lines, log) ==
  \E at \in [1..Len(lines) -> 1..Len(log)] :
    /\ \A i, j \in 1..Len(lines) : i < j => at[i] < at[j]
    /\ \A i \in 1..Len(lines) : lines[i] \in {log[at[i]], CutLine}

(***************************************************************************)
(* ec_editline_gets() "adds it to the history" (editline.h:262), of which  *)
(* each save rewrites the file.  (1) Whatever fails and wherever the       *)
(* process dies, also while the file is written, and whatever is loaded    *)
(* and saved again: a history file holds lines that were read while it was *)
(* the history file, in their order, none twice for one reading, with no   *)
(* other but ends cut off.  (2) A failure lasts no longer than until the   *)
(* next save of a history that misses nothing, in which every line read    *)
(* since it was empty, or since a whole file was loaded, was entered: the  *)
(* file is then the newest of the lines read for it, those of earlier      *)
(* processes included, and not empty once there was one.  Size 0 aside,    *)
(* after which a history that was ended is used.                           *)
(***************************************************************************)
HistoryKept ==
  \A f \in Files :
    /\ Within(disk[f], entered[f])
    /\ ~partial[f] => IsSuffix(disk[f], Squeezed(entered[f])) /\ (entered[f] # <<>> => disk[f] # <<>>)
=============================================================================
