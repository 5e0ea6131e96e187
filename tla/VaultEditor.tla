---- MODULE VaultEditor ----
(* One open vault on the vault page: its tree of folders and entries
   (lib/kdbx.ts), the page that edits it (pages/VaultPage.tsx), the imports
   (lib/csvImport.ts, CsvImportModal.tsx), entry history, attachments and the
   version history dialog.

   An entry's fields are one number: 0 for an entry nothing was typed into, and
   each text typed or imported is a new one. A file is a model value, and the
   budget counts distinct files, as the vault stores a file once per hash. A
   KeePass file holds the entries of Brought, and a preserved conflict the same
   entries without attachments. The vault the page opened, which is also the
   snapshot a rollback returns to, has the folder First and no entry.

   Bounds: one rollback at a time, though a dialog opened again could ask for
   another; no lock while one is on its way; and its reload closes the dialog
   open by then. *)
EXTENDS Page, Integers, Sequences, FiniteSets
CONSTANTS
    Entries, Folders,
    Files,          \* the files the user has to attach
    First,          \* the folder the vault starts with
    Brought,        \* the foreign file: entry -> [folder, files]
    HistoryMax,     \* the versions an entry keeps
    Budget,         \* the files a vault may hold
    MaxText,        \* bound: the texts typed or imported
    NewIn           \* bound: the folders a new entry's draft is opened in
VARIABLES
    up,             \* folder -> the folder it is in
    at,             \* entry -> the folder it is in
    now, old,       \* entry -> its version, and the versions kept before it
    recycling,      \* meta.recycleBinEnabled
    text,           \* the last text typed or imported
    page,           \* the entry on screen, the draft in the editor
    adding,         \* the file being read and hashed for the entry on screen
    asking,         \* the restore question, or the version history dialog
    rolling,        \* a rollback is on its way
    dirty           \* edits the server has not taken
tree == <<up, at, now, old>>
editorVars == <<tree, recycling, text, page, adding, asking, rolling, dirty>>

Root == "root"
Bin == "bin"
Blank == [text |-> 0, files |-> {}]

(* The names are apart, and what a foreign file brings goes to folders.     *)
ASSUME VaultEditorAssumption ==
    /\ Folders \cap {Root, Bin, None} = {} /\ None \notin {Root, Bin}
    /\ None \notin Entries /\ First \in Folders
    /\ DOMAIN Brought \subseteq Entries
    /\ \A e \in DOMAIN Brought : Brought[e].folder \in Folders
    /\ HistoryMax \in Nat

EditorInit ==
    /\ up = [f \in Folders |-> IF f = First THEN Root ELSE None]
    /\ at = [e \in Entries |-> None]
    /\ now = [e \in Entries |-> Blank]
    /\ old = [e \in Entries |-> <<>>]
    /\ recycling \in BOOLEAN
    /\ text = 0
    /\ page = [entry |-> None, draft |-> None]
    /\ adding = None /\ asking = None /\ rolling = FALSE /\ dirty = FALSE

----
\* The tree.

\* The bin is in the root, and p leads to what it is.
Leads(p, g) == p = g \/ (p = Bin /\ g = Root)

\* f is g or somewhere below it: of the folders in any set with f, one is in a
\* folder outside the set, or leads to g.
Inside(f, g) ==
    \/ Leads(f, g)
    \/ f \in Folders /\ \A S \in SUBSET Folders : f \in S =>
            \E h \in S : up[h] \in Folders \ S \/ h = g \/ Leads(up[h], g)

Found(f) == Inside(f, Root)
Live(f) == Found(f) /\ ~Inside(f, Bin)
LiveFolders == {f \in Folders \cup {Root} : Live(f)}
LiveEntries == {e \in Entries : Live(at[e])}
Recycled == {e \in Entries : Inside(at[e], Bin)}
Unused(xs, where) == {x \in xs : where[x] = None}

Kept(h, v) ==
    LET longer == Append(h, v)
    IN  IF HistoryMax = 0 THEN h
        ELSE SubSeq(longer, IF Len(longer) > HistoryMax THEN Len(longer) - HistoryMax + 1 ELSE 1,
                    Len(longer))

Held == UNION {now[e].files \cup UNION {old[e][i].files : i \in DOMAIN old[e]} :
               e \in {x \in Entries : at[x] # None}}

\* Gives e a new version; the one it had goes to its history.
Rewrite(e, v) == /\ old' = [old EXCEPT ![e] = Kept(@, now[e])]
                 /\ now' = [now EXCEPT ![e] = v]

Creates(e, f, v) == /\ at' = [at EXCEPT ![e] = IF Found(f) THEN f ELSE Root]
                    /\ now' = [now EXCEPT ![e] = v]
                    /\ old' = [old EXCEPT ![e] = <<>>]

Gone(es) == /\ at' = [e \in Entries |-> IF e \in es THEN None ELSE at[e]]
            /\ now' = [e \in Entries |-> IF e \in es THEN Blank ELSE now[e]]
            /\ old' = [e \in Entries |-> IF e \in es THEN <<>> ELSE old[e]]

----
\* The page.

DraftDirty ==
    /\ page.draft # None
    /\ \/ page.draft.text # IF page.draft.new THEN 0 ELSE now[page.entry].text
       \/ page.draft.to # page.draft.from

\* Leaving the entry an attachment is being added to, or editing it, aborts that.
Shows(e, d) == /\ page' = [entry |-> e, draft |-> d]
               /\ adding' = IF e = page.entry /\ d = None THEN adding ELSE None

NoDialog == asking = None       \* no dialog is open
Editing == page.draft # None
Changes == dirty' = TRUE
Still == UNCHANGED <<recycling, text, asking, rolling>>

\* What is done to a folder is done to the one chosen in the list, the root when
\* all items are. Choosing another drops a draft, after a question when it is
\* dirty, and the entry on screen unless the folder has it.
Chosen(f) == Editing => f \in {page.draft.from, Root}
InFolder(f) == Shows(IF f = Root \/ page.entry = None \/ at[page.entry] = f
                     THEN page.entry ELSE None, page.draft)

Select(e) ==
    /\ NoDialog
    /\ e # page.entry
    /\ e # None => Found(at[e])
    /\ Shows(e, None)
    /\ UNCHANGED <<tree, dirty>> /\ Still

EditEntry ==
    /\ NoDialog /\ ~Editing
    /\ page.entry \in LiveEntries
    /\ Shows(page.entry, [new |-> FALSE, text |-> now[page.entry].text,
                         from |-> at[page.entry], to |-> at[page.entry]])
    /\ UNCHANGED <<tree, dirty>> /\ Still

NewEntry(f) ==
    /\ NoDialog /\ f \in NewIn
    /\ Shows(None, [new |-> TRUE, text |-> 0, from |-> f, to |-> f])
    /\ UNCHANGED <<tree, dirty>> /\ Still

\* Mutation of Offered: every folder of the file.
OfferedVariant == {f \in Folders \cup {Root} : Found(f)}

\* The folders the editor's list offers.
Offered == LiveFolders

Types ==
    /\ NoDialog /\ Editing
    /\ \/ /\ text < MaxText
          /\ text' = text + 1
          /\ page' = [page EXCEPT !.draft.text = text + 1]
       \/ /\ \E f \in Offered \ {page.draft.to} : page' = [page EXCEPT !.draft.to = f]
          /\ UNCHANGED text
    /\ UNCHANGED <<tree, recycling, adding, asking, rolling, dirty>>

Cancel ==
    /\ NoDialog /\ Editing
    /\ Shows(page.entry, None)
    /\ UNCHANGED <<tree, dirty>> /\ Still

ApplyNew ==
    /\ NoDialog /\ Editing /\ page.draft.new
    /\ \E e \in Unused(Entries \ DOMAIN Brought, at) :
        /\ Creates(e, page.draft.to, [Blank EXCEPT !.text = page.draft.text])
        /\ Shows(e, None)
    /\ Changes
    /\ UNCHANGED up /\ Still

\* An entry that is what the draft says is left alone.
ApplyEdits ==
    /\ NoDialog /\ Editing /\ ~page.draft.new
    /\ LET e == page.entry  d == page.draft
       IN  IF at[e] = None \/ (now[e].text = d.text /\ at[e] = d.to)
           THEN UNCHANGED <<tree, dirty>>
           ELSE /\ Rewrite(e, [now[e] EXCEPT !.text = d.text])
                /\ at' = [at EXCEPT ![e] = IF Found(d.to) THEN d.to ELSE @]
                /\ UNCHANGED up /\ Changes
    /\ Shows(page.entry, None)
    /\ Still

DeleteEntry ==
    /\ NoDialog /\ ~Editing
    /\ page.entry \in LiveEntries
    /\ IF recycling THEN at' = [at EXCEPT ![page.entry] = Bin] /\ UNCHANGED <<now, old>>
                    ELSE Gone({page.entry})
    /\ Shows(None, None)
    /\ Changes
    /\ UNCHANGED up /\ Still

RestoreEntry ==
    /\ NoDialog
    /\ page.entry \in Recycled
    /\ at' = [at EXCEPT ![page.entry] = Root]
    /\ Shows(page.entry, None)
    /\ Changes
    /\ UNCHANGED <<up, now, old>> /\ Still

CreateGroup(f) ==
    /\ NoDialog /\ Chosen(f)
    /\ \E g \in Unused(Folders, up) : up' = [up EXCEPT ![g] = f]
    /\ InFolder(f)
    /\ Changes
    /\ UNCHANGED <<at, now, old>> /\ Still

\* Mutation of MayHold: the folder itself is refused, one below it is not.
MayHoldVariant(f) == LiveFolders \ {f, up[f]}

\* The folders f may be moved to.
MayHold(f) == {t \in LiveFolders \ {up[f]} : ~Inside(t, f)}

MoveGroup(f) ==
    /\ NoDialog /\ Chosen(f) /\ f # Root
    /\ \E t \in MayHold(f) : up' = [up EXCEPT ![f] = t]
    /\ InFolder(f)
    /\ Changes
    /\ UNCHANGED <<at, now, old>> /\ Still

\* The folder goes with all it holds, and with it an entry on screen and its
\* draft; a new entry's draft stays in the editor.
DeleteGroup(f) ==
    /\ NoDialog /\ Chosen(f) /\ f # Root
    /\ IF recycling
       THEN up' = [up EXCEPT ![f] = Bin] /\ UNCHANGED <<at, now, old>>
       ELSE /\ up' = [g \in Folders |-> IF Inside(g, f) THEN None ELSE up[g]]
            /\ Gone({e \in Entries : Inside(at[e], f)})
    /\ Shows(None, IF Editing /\ page.draft.new THEN page.draft ELSE None)
    /\ Changes
    /\ Still

----
\* Attachments and entry history.

AddBegins(x) ==
    /\ NoDialog /\ ~Editing
    /\ page.entry \in LiveEntries
    /\ adding = None
    /\ adding' = x
    /\ UNCHANGED <<tree, page, dirty>> /\ Still

\* Once the file is hashed: refused for an entry that left the vault, a name it
\* has already, or a vault that would hold more than its budget.
AddEnds ==
    /\ adding # None
    /\ LET e == page.entry  x == adding
       IN  IF e \in LiveEntries /\ x \notin now[e].files /\ Cardinality(Held \cup {x}) <= Budget
           THEN Rewrite(e, [now[e] EXCEPT !.files = @ \cup {x}]) /\ UNCHANGED <<up, at>> /\ Changes
           ELSE UNCHANGED <<tree, dirty>>
    /\ adding' = None
    /\ UNCHANGED page /\ Still

Without(h, x) == [i \in DOMAIN h |-> [h[i] EXCEPT !.files = @ \ {x}]]

RemoveFile ==
    /\ NoDialog /\ ~Editing /\ adding = None
    /\ page.entry \in LiveEntries
    /\ \E x \in now[page.entry].files :
        /\ now' = [now EXCEPT ![page.entry].files = @ \ {x}]
        /\ LET h == Kept(old[page.entry], now[page.entry])
           IN  old' \in {[old EXCEPT ![page.entry] = k] : k \in {h, Without(h, x)}}
    /\ Changes
    /\ UNCHANGED <<up, at, page, adding>> /\ Still

ClearFiles ==
    /\ NoDialog /\ ~Editing /\ adding = None
    /\ page.entry \in LiveEntries
    /\ \E i \in DOMAIN old[page.entry] : old[page.entry][i].files # {}
    /\ old' = [old EXCEPT ![page.entry] = [i \in DOMAIN @ |-> [@[i] EXCEPT !.files = {}]]]
    /\ Changes
    /\ UNCHANGED <<up, at, now, page, adding>> /\ Still

\* The user picks a version of the entry on screen; the dialog shows it and asks.
AskRestore(i) ==
    /\ NoDialog /\ ~Editing
    /\ page.entry \in LiveEntries
    /\ i \in DOMAIN old[page.entry]
    /\ asking' = [kind |-> "restore", index |-> i, shown |-> old[page.entry][i]]
    /\ UNCHANGED <<tree, recycling, text, page, adding, rolling, dirty>>

DeclinesRestore ==
    /\ asking # None /\ asking.kind = "restore"
    /\ asking' = None
    /\ UNCHANGED <<tree, recycling, text, page, adding, rolling, dirty>>

Restored(e, i) == old[e][i]

RestoreVersion ==
    /\ asking # None /\ asking.kind = "restore"
    /\ LET e == page.entry
       IN  IF e \in LiveEntries /\ asking.index \in DOMAIN old[e]
           THEN Rewrite(e, Restored(e, asking.index)) /\ UNCHANGED <<up, at>> /\ Changes
           ELSE UNCHANGED <<tree, dirty>>
    /\ asking' = None
    /\ UNCHANGED <<recycling, text, page, adding, rolling>>

----
\* Imports, and the version history dialog.

\* A KeePass file is added below a folder of the list, or below a new or a
\* same-named folder. Folders the vault has are walked into, recycled ones are
\* left out with all they hold; entries the vault has anywhere are left alone.
ImportKeePass ==
    /\ NoDialog
    /\ \E target \in LiveFolders :
        LET made == {r.folder : r \in {Brought[e] : e \in DOMAIN Brought}} \cap Unused(Folders, up)
            taken == {e \in DOMAIN Brought : /\ at[e] = None
                                            /\ Brought[e].folder \in made \cup LiveFolders}
        IN  /\ up' = [f \in Folders |-> IF f \in made THEN target ELSE up[f]]
            /\ at' = [e \in Entries |-> IF e \in taken THEN Brought[e].folder ELSE at[e]]
            /\ now' = [e \in Entries |-> IF e \in taken THEN [text |-> 0, files |-> Brought[e].files]
                                         ELSE now[e]]
    /\ Changes
    /\ UNCHANGED <<old, page, adding>> /\ Still

\* A CSV row is a new entry in a folder of its path or the one chosen, unless a
\* live entry says the same.
ImportCsv(t) ==
    /\ NoDialog
    /\ t \in 1..text + 1 /\ t <= MaxText
    /\ \A e \in LiveEntries : now[e].text # t
    /\ \E e \in Unused(Entries \ DOMAIN Brought, at), f \in LiveFolders \cup Unused(Folders, up) :
        /\ up' = IF f \in LiveFolders THEN up ELSE [up EXCEPT ![f] = Root]
        /\ at' = [at EXCEPT ![e] = f]
        /\ now' = [now EXCEPT ![e] = [Blank EXCEPT !.text = t]]
    /\ text' = IF t > text THEN t ELSE text
    /\ Changes
    /\ UNCHANGED <<old, recycling, page, adding, asking, rolling>>

OpensHistory ==
    /\ NoDialog /\ ~dirty /\ ~DraftDirty
    /\ asking' = [kind |-> "history", step |-> "open"]
    /\ UNCHANGED <<tree, recycling, text, page, adding, rolling, dirty>>

\* The dialog of the version history is at that step.
History(step) == asking # None /\ asking.kind = "history" /\ asking.step = step
Goes(step) == asking' = [asking EXCEPT !.step = step]

\* It can be closed at any time: what it sent is still answered.
ClosesHistory ==
    /\ asking # None /\ asking.kind = "history"
    /\ asking' = None
    /\ UNCHANGED <<tree, recycling, text, page, adding, rolling, dirty>>

\* A copy of an entry of a preserved conflict: a new entry, in the folder it was
\* in there when the vault has it, or in the root.
RecoverCopy(c) ==
    /\ History("open")
    /\ \E e \in Unused(Entries \ DOMAIN Brought, at) :
        /\ at' = [at EXCEPT ![e] = IF Live(Brought[c].folder) THEN Brought[c].folder ELSE Root]
        /\ now' = [now EXCEPT ![e] = Blank]
        /\ Shows(e, None)
    /\ Changes
    /\ UNCHANGED <<up, old>> /\ Still

MayRollBack == ~dirty /\ ~DraftDirty

\* What there is to lose is looked at here, before the snapshot is opened and the
\* user is asked.
AsksRollBack ==
    /\ History("open") /\ ~rolling
    /\ MayRollBack
    /\ Goes("asks")
    /\ UNCHANGED <<tree, recycling, text, page, adding, rolling, dirty>>

\* The snapshot does not open under the vault's key, or the user says no.
DeclinesRollBack ==
    /\ History("asks")
    /\ Goes("open")
    /\ UNCHANGED <<tree, recycling, text, page, adding, rolling, dirty>>

RollBack ==
    /\ History("asks")
    /\ Goes("sent") /\ rolling' = TRUE
    /\ UNCHANGED <<tree, recycling, text, page, adding, dirty>>

RollBackFails ==
    /\ rolling /\ rolling' = FALSE
    /\ IF History("sent") THEN Goes("open") ELSE UNCHANGED asking
    /\ UNCHANGED <<tree, recycling, text, page, adding, dirty>>

\* The answer: the page reloads the server's copy, whatever the tab holds.
PageReloads ==
    /\ rolling /\ rolling' = FALSE
    /\ up' = [f \in Folders |-> IF f = First THEN Root ELSE None]
    /\ Gone(Entries)
    /\ page' = [entry |-> None, draft |-> IF Editing /\ page.draft.new THEN page.draft ELSE None]
    /\ adding' = None /\ asking' = None /\ dirty' = FALSE
    /\ UNCHANGED <<recycling, text>>

----
Saves ==
    /\ dirty /\ dirty' = FALSE
    /\ UNCHANGED <<tree, recycling, text, page, adding, asking, rolling>>

\* The tab locks, keeping its edits and the draft of an entry, and is unlocked:
\* questions are cancelled and the attachment under way is dropped.
LocksAndUnlocks ==
    /\ ~rolling
    /\ page' = [entry |-> IF DraftDirty THEN page.entry ELSE None,
                draft |-> IF DraftDirty /\ ~page.draft.new THEN page.draft ELSE None]
    /\ adding' = None /\ asking' = None
    /\ UNCHANGED <<tree, recycling, text, rolling, dirty>>

EditorNext ==
    \/ \E e \in Entries \cup {None} : Select(e)
    \/ EditEntry \/ Types \/ Cancel \/ ApplyNew \/ ApplyEdits \/ DeleteEntry \/ RestoreEntry
    \/ \E f \in LiveFolders : NewEntry(f) \/ CreateGroup(f) \/ MoveGroup(f) \/ DeleteGroup(f)
    \/ \E x \in Files : AddBegins(x)
    \/ AddEnds \/ RemoveFile \/ ClearFiles
    \/ \E i \in 1..HistoryMax : AskRestore(i)
    \/ DeclinesRestore \/ RestoreVersion
    \/ ImportKeePass \/ \E t \in 1..MaxText : ImportCsv(t)
    \/ OpensHistory \/ ClosesHistory \/ AsksRollBack \/ DeclinesRollBack \/ RollBack \/ RollBackFails \/ PageReloads
    \/ \E c \in DOMAIN Brought : RecoverCopy(c)
    \/ Saves \/ LocksAndUnlocks

EditorSpec == EditorInit /\ [][EditorNext]_editorVars

----
\* Every entry and folder of the vault can be reached from its root: no folder
\* is left in itself by a move, a deletion or an import, however they follow
\* each other (kdbx.ts moveGroup, deleteGroup, importFrom; VaultPage's choices).
NothingVanishes ==
    /\ \A S \in (SUBSET Folders) \ {{}} : \E f \in S : up[f] \notin S
    /\ \A f \in Folders : up[f] \in {None, Root, Bin} \/ up[up[f]] # None
    /\ \A e \in Entries : at[e] \in {None, Root, Bin} \/ up[at[e]] # None

\* What the user applies to an entry is in the live vault as it was typed: while
\* an entry is edited no folder operation, import, rollback or lock takes it or
\* the folder chosen for it to the recycle bin, or away, and leaves the draft
\* (handleSaveEntry, handleDeleteGroup, updateEntry). A new entry's draft follows
\* its folder into the bin, and is left out.
AppliedIsKept ==
    [][ApplyEdits => /\ page'.entry \in LiveEntries'
                     /\ now'[page'.entry].text = page.draft.text]_editorVars

\* A rollback's reload drops no edit the server has not taken: neither one of the
\* vault nor a draft (restoreSnapshot, onRestored, onReload).
RollbackKeepsEdits ==
    [][PageReloads => ~dirty /\ (DraftDirty => page'.draft = page.draft)]_editorVars

\* The version an entry is given is the one the dialog showed when it asked
\* (EntryHistoryModal.restore, restoreEntryVersion).
RestoresShown ==
    [][RestoreVersion /\ tree' # tree => now'[page.entry] = asking.shown]_editorVars
====
