------------------------------ MODULE HubFiles ------------------------------
(***************************************************************************)
(* The list of files of a Hub repository: listed page by page while the    *)
(* repository may change, checked, and written once to a manifest that     *)
(* every process takes its row numbers from (source/hf_files.py).          *)
(***************************************************************************)
EXTENDS TabularParts

CONSTANTS
    NoList,
    Hosts,         \* processes that prepare the source
    Revisions,     \* the sorted files of the repository in its successive states
    PageSize,      \* _HUB_PAGE_LIMIT, 1000 in the code
    MaxListDeaths  \* bound: processes that die

ASSUME HubFilesAssumption ==
    /\ PageSize \in Nat \ {0} /\ MaxListDeaths \in Nat
    /\ NoList \notin Hosts
    /\ Revisions \in Seq(Seq(Nat)) /\ Revisions # <<>>
    /\ \A n \in DOMAIN Revisions :
        \A k \in 1 .. Len(Revisions[n]) - 1 : Revisions[n][k] < Revisions[n][k + 1]

VARIABLES
    revision,  \* the state of the repository
    listed,    \* NoList or the manifest on disk
    draft,     \* NoList or the temporary file next to it
    lister,    \* the process with the lock, or NoList
    listing,   \* process -> its call of prepare
    names,     \* process -> NoList or the files of its dataset
    deaths     \* processes that died

hvars == <<revision, listed, draft, lister, listing, names, deaths>>

Resting == [pc |-> "idle"]

HInit ==
    /\ revision = 1
    /\ listed = NoList /\ draft = NoList /\ lister = NoList
    /\ listing = [h \in Hosts |-> Resting]
    /\ names = [h \in Hosts |-> NoList]
    /\ deaths = 0

\* The repository gets a commit.
Commit ==
    /\ revision < Len(Revisions)
    /\ revision' = revision + 1
    /\ UNCHANGED <<listed, draft, lister, listing, names, deaths>>

ListStep(h, call) ==
    /\ listing' = [listing EXCEPT ![h] = call]
    /\ UNCHANGED <<revision, deaths>>

BeginList(h) ==
    /\ listing[h] = Resting /\ names[h] = NoList
    /\ lister = NoList /\ lister' = h
    /\ ListStep(h, [pc |-> "read"])
    /\ UNCHANGED <<listed, draft, names>>

Have(h, files) ==
    /\ names' = [names EXCEPT ![h] = files]
    /\ lister' = NoList
    /\ ListStep(h, Resting)

\* Mutant: a process lists for itself.
ListAnyway(h) ==
    /\ listing[h].pc = "read"
    /\ ListStep(h, [pc |-> "page", files |-> <<>>])
    /\ UNCHANGED <<listed, draft, lister, names>>

ReadList(h) ==
    /\ listing[h].pc = "read"
    /\ IF listed # NoList
       THEN Have(h, listed)
       ELSE ListStep(h, [pc |-> "page", files |-> <<>>]) /\ UNCHANGED <<lister, names>>
    /\ UNCHANGED <<listed, draft>>

\* A page has what comes after the last file of the page before, as of now; a page
\* that is not full, or has no next one, is the last.
After(files, read) ==
    IF read = <<>> THEN files
    ELSE LET passed == {k \in DOMAIN files : files[k] <= Last(read)}
         IN SubSeq(files, Max(passed \cup {0}) + 1, Len(files))

NextPage(h) ==
    /\ listing[h].pc = "page"
    /\ LET rest == After(Revisions[revision], listing[h].files)
           page == SubSeq(rest, 1, Min({Len(rest), PageSize}))
       IN ListStep(h, [pc |-> IF Len(rest) > PageSize THEN "page" ELSE "check",
                       files |-> listing[h].files \o page])
    /\ UNCHANGED <<listed, draft, lister, names>>

\* _manifest_files: not empty and no name twice; what fails is not written.
CheckList(h) ==
    /\ listing[h].pc = "check"
    /\ IF listing[h].files # <<>> /\ IsInjective(listing[h].files)
       THEN ListStep(h, [listing[h] EXCEPT !.pc = "write"]) /\ UNCHANGED lister
       ELSE ListStep(h, Resting) /\ lister' = NoList
    /\ UNCHANGED <<listed, draft, names>>

WriteDraft(h) ==
    /\ listing[h].pc = "write"
    /\ draft' = listing[h].files
    /\ ListStep(h, [listing[h] EXCEPT !.pc = "replace"])
    /\ UNCHANGED <<listed, lister, names>>

ReplaceList(h) ==
    /\ listing[h].pc = "replace"
    /\ listed' = draft /\ draft' = NoList
    /\ Have(h, listing[h].files)

DieListing(h) ==
    /\ deaths < MaxListDeaths /\ listing[h] # Resting
    /\ deaths' = deaths + 1
    /\ listing' = [listing EXCEPT ![h] = Resting]
    /\ lister' = NoList
    /\ UNCHANGED <<revision, listed, draft, names>>

\* A process that ended starts again with the list on disk.
Restart(h) ==
    /\ names[h] # NoList
    /\ names' = [names EXCEPT ![h] = NoList]
    /\ UNCHANGED <<revision, listed, draft, lister, listing, deaths>>

HNext ==
    \/ Commit
    \/ \E h \in Hosts :
          \/ BeginList(h) \/ ReadList(h) \/ NextPage(h) \/ CheckList(h)
          \/ WriteDraft(h) \/ ReplaceList(h) \/ DieListing(h) \/ Restart(h)

-----------------------------------------------------------------------------
\* A row number means the same file in every process and in every run, however the
\* repository moves and whoever dies while it lists, and the list is sorted without
\* a file twice.
ListsAgree ==
    \A h \in Hosts : names[h] # NoList =>
        /\ names[h] = listed
        /\ \A k \in 1 .. Len(listed) - 1 : listed[k] < listed[k + 1]

-----------------------------------------------------------------------------
\* The two kinds of sources side by side: they share nothing.
SourcesInit == TInit /\ HInit
SourcesNext == (TNext /\ UNCHANGED hvars) \/ (HNext /\ UNCHANGED tvars)
SourcesSpec == SourcesInit /\ [][SourcesNext]_<<tvars, hvars>>

\* The sources that rows are numbered by.
SourcesHold == RowsHold /\ ListsAgree
=============================================================================
