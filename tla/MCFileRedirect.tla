----------------------------- MODULE MCFileRedirect ----------------------------
(* FileRedirect for TLC: a movie in two resolutions, a package and a bare file *)
(* of the movie's name; scans run while files are being opened.                *)
EXTENDS FileRedirect

Big   == <<"Movies", "720p", "MainMenuIn.bik">>
Small == <<"Movies", "MainMenuIn.bik">>
Bare  == <<"MainMenuIn.bik">>
Vo    == <<"Audio", "Desktop", "VO.fsb">>

MCNames == {"Content", "Movies", "720p", "Audio", "Desktop", "MainMenuIn.bik", "VO.fsb"}

E(t, s) == [target |-> t, source |-> s]

\* Every file in every directory of Content it can be opened in, those where all
\* that is asked for is a name several files have among them; one file also from
\* above Content.
MCPaths  == {Big, Small, Vo}
MCDepths == [f \in MCPaths |-> (IF f = Big THEN -1 ELSE 0)..(Len(f) - 1)]
MCLists  == {<<E(Bare, "one"), E(Small, "one"), E(Big, "two"), E(Vo, "two")>>,
             <<E(Big, "three"), E(Vo, "one"), E(Small, "three"), E(Vo, "two"), E(Bare, "two")>>,
             <<E(Bare, "one"), E(Vo, "one")>>}
MCOpeners == {"opener1", "opener2"}

VARIABLE clear   \* per thread: did it look up an unmistakable file outside of a scan?

\* A file that is replaced is asked for by more than the tail of another that is;
\* the tail of a file that is not is no other's, or that other is out of reach.
Unmistakable(r) ==
  LET others == {e \in ToSet(list) : e.target # r.file}
  IN  IF others # ToSet(list)
      THEN \A e \in others : ~IsSuffix(Wanted(r), e.target)
      ELSE \A e \in others : ~(Match(e.target, Wanted(r)) /\ Reached(e, r))

ClearInit == RedirectInit /\ clear = [o \in Openers |-> FALSE]
ClearNext ==
  /\ RedirectNext
  /\ clear' = [o \in Openers |->
                 IF step[o] = "idle" /\ step'[o] = "found"
                 THEN added = Len(list) /\ Unmistakable(request'[o])
                 ELSE clear[o] /\ step'[o] # "idle"]
ClearSpec == ClearInit /\ [][ClearNext]_<<redirectVars, clear>>

\* An open of an unmistakable file that no scan overlaps, from a directory in
\* Content, gets what the wave's replacements say, the last mod to claim the file
\* first, whatever happens to the opens of other threads; the game's own file if
\* the engine cannot open the replacement, and from above Content, always
\* (find_redirect, rebase_for_resource_dir, open_file_detour's fallback).
ServesUnlessScanned ==
  \A o \in Openers : step[o] = "done" /\ clear[o] /\ ~stale[o] =>
    got[o] = IF refused[o] \/ request[o].depth < 0 THEN GameFile ELSE due[o]
================================================================================
