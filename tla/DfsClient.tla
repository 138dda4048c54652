------------------------------ MODULE DfsClient ------------------------------
(***************************************************************************)
(* infrastructure/smb: DfsResolvingSmbClient over a delegate client and a   *)
(* DfsReferralResolver.  An operation goes to the share it names; when the  *)
(* answer looks like a DFS referral it is repeated at the targets the       *)
(* resolver finds, for the share or for a link in the path, links behind    *)
(* links included, and the targets are cached for their time to live.  The  *)
(* pool threads share the caches; each lookup, insertion and removal is     *)
(* atomic, an operation is not.                                             *)
(*                                                                         *)
(* A path is the sequence of its names, a connection is its share.  The     *)
(* world is what servers and administrators make of the namespace.          *)
(***************************************************************************)
EXTENDS Naturals, Sequences, SequencesExt, FiniteSets

CONSTANTS
  Threads,      \* the threads of the operation queue's pool
  Names,        \* of the directories and files, "x" among them
  Shares,       \* shares, each at a server of its own
  Root,         \* the share of the connection the user has opened
  Requests,     \* per thread: [kind, path, to]; to only for "rename" and "copy"
  Histories,    \* sequences of worlds: how the namespace may change
  MaxNested,    \* kMaxNestedDfsDepth
  None

\* A world: status of each share, root targets of each share, links, and the resolver
\* that is used, or "none" while there is none that answers.
VARIABLES
  history, now,      \* the worlds, and the one we are in
  resolvedConnections,   \* m_resolvedConnections: share -> targets, <<>>: none
  resolvedMappings,      \* m_resolvedPathMappings: entries, by share and prefix
  call               \* per thread: the operation it runs or has run

vars == <<history, now, resolvedConnections, resolvedMappings, call>>

World == history[now]

Path == Seq(Names)
Target == [share : Shares, prefix : Path]
Link == [share : Shares, path : Path, targets : Seq(Target)]
AnyWorld == [resolver : {"native", "smbclient", "none"},
             status : [Shares -> {"up", "down", "gone", "closed", "denying"}],
             roots : [Shares -> Seq(Target)], links : SUBSET Link]

\* What a namespace is: links are below a root, one at a path; the other targets of
\* a root are shares.  Of a link smbclient tells the share only: where it is used,
\* links lead to shares.
IsNamespace(world) ==
  /\ world \in AnyWorld /\ IsFiniteSet(world.links)
  /\ \A link \in world.links : link.path # <<>>
  /\ \A one, other \in world.links :
       one.share = other.share /\ one.path = other.path => one = other
  /\ \A share \in Shares : \A i \in DOMAIN world.roots[share] :
       world.roots[share][i].prefix = <<>>
  /\ world.resolver = "smbclient" =>
       \A link \in world.links : \A i \in DOMAIN link.targets :
         link.targets[i].prefix = <<>>

Request == [kind : {"check", "list", "rename", "copy"}, path : Path, to : Path]

ASSUME NamesAssumption == "x" \in Names
ASSUME SharesAssumption == IsFiniteSet(Shares) /\ Root \in Shares
ASSUME NestedAssumption == MaxNested \in Nat
ASSUME HistoriesAssumption ==
  \A worlds \in Histories :
    worlds \in Seq(AnyWorld) /\ worlds # <<>>
    /\ \A i \in DOMAIN worlds : IsNamespace(worlds[i])
ASSUME RequestsAssumption == Requests \in [Threads -> SUBSET Request]
ASSUME NoneAssumption ==
  None \notin [orig : Path, share : Shares, prefix : Path] /\ None # "ok"

-----------------------------------------------------------------------------
(* Paths *)

IsPathPrefix(prefix, path) == IsPrefix(prefix, path)

SuffixAfterPrefix(path, prefix) ==
  IF IsPrefix(prefix, path) THEN SubSeq(path, Len(prefix) + 1, Len(path)) ELSE <<>>

\* Mutant: the target is taken for the root of its share.
TargetPathAtRoot(mapping, path) == SuffixAfterPrefix(path, mapping.orig)

TargetPath(mapping, path) ==
  mapping.prefix \o SuffixAfterPrefix(path, mapping.orig)

OriginalPath(mapping, path) ==
  mapping.orig \o SuffixAfterPrefix(path, mapping.prefix)

ParentPath(path) == IF path = <<>> THEN <<>> ELSE Front(path)

-----------------------------------------------------------------------------
(* The delegate and the servers *)

\* "bad": no such share (bad network name), "uncovered": path not covered,
\* "deleted": the share was closed while in use (network name deleted),
\* "unavailable": no answer, "denied", "missing": any error of the file itself.
ShareReferral(error) == error = "bad"
PathReferral(error) == error = "uncovered"
DfsReferral(error) == ShareReferral(error) \/ PathReferral(error)
ShareUnavailable(error) == error \in {"bad", "deleted"}
MayHavePathReferral(error) ==
  DfsReferral(error) \/ ShareUnavailable(error) \/ error = "denied"
Failover(error) ==
  error \in {"unavailable", "uncovered"} \/ ShareUnavailable(error)

Location(share, path) == [share |-> share, path |-> path]

LinksAbove(world, share, path) ==
  {link \in world.links : link.share = share /\ IsPrefix(link.path, path)}

\* What an operation at a location may answer.
Answers(location) ==
  LET status == World.status[location.share]
  IN IF status = "down" THEN {"unavailable"}
     ELSE IF status = "gone" THEN {"bad"}
     ELSE IF status = "closed" THEN {"deleted"}
     ELSE IF LinksAbove(World, location.share, location.path) # {} THEN {"uncovered"}
     ELSE IF status = "denying" THEN {"denied"}
     ELSE {"ok", "missing"}

\* ... and one with two ends: the first of them that fails.
AnswersBoth(from, to) ==
  IF Answers(from) # {"ok", "missing"} THEN Answers(from) ELSE Answers(to)

-----------------------------------------------------------------------------
(* The resolvers: mappings [orig, share, prefix], the preferred one first. *)

\* The elements of a list at certain places of it.
Selected(list, places) ==
  LET upto[n \in 0..Len(list)] ==
        IF n = 0 THEN <<>>
        ELSE IF n \in places THEN Append(upto[n - 1], list[n]) ELSE upto[n - 1]
  IN upto[Len(list)]

OtherShares(share, targets) ==
  Selected(targets, {i \in DOMAIN targets : targets[i].share # share})

Deepest(links) ==
  CHOOSE link \in links : \A other \in links : Len(other.path) <= Len(link.path)

\* The referral of one request: of the deepest link that covers it, of the root.
Referral(share, path) ==
  LET links == LinksAbove(World, share, path)
  IN IF links # {}
     THEN [orig |-> Deepest(links).path, targets |-> Deepest(links).targets]
     ELSE IF path = <<>> THEN [orig |-> <<>>, targets |-> World.roots[share]]
     ELSE [orig |-> path, targets |-> <<>>]

Mappings(referral, share) ==
  LET targets == OtherShares(share, referral.targets)
  IN [i \in 1..Len(targets) |-> [orig |-> referral.orig, share |-> targets[i].share,
                                 prefix |-> targets[i].prefix]]

\* NativeDfsReferralResolver::resolvePathTargets asks for ever shorter prefixes.
NativePath(share, path) ==
  LET at(count) == Mappings(Referral(share, SubSeq(path, 1, count)), share)
      found == {count \in 0..Len(path) : at(count) # <<>>}
  IN IF found = {} THEN <<>>
     ELSE at(CHOOSE count \in found : \A other \in found : other <= count)

\* SmbclientDfsReferralResolver::resolvePath: ever longer ones, at most one target,
\* of which smbclient says the share only.
SmbclientPath(share, path) ==
  LET at(count) == Mappings(Referral(share, SubSeq(path, 1, count)), share)
      found == {count \in (IF path = <<>> THEN {0} ELSE 1..Len(path)) :
                  at(count) # <<>>}
      first == CHOOSE count \in found : \A other \in found : count <= other
  IN IF found = {} THEN <<>>
     ELSE <<[orig |-> SubSeq(path, 1, first), share |-> at(first)[1].share,
             prefix |-> <<>>]>>

\* The resolver gives an error: the server does not answer, or refuses the request, or
\* the smbclient program is missing.
ResolverFails(share) == World.status[share] = "down" \/ World.resolver = "none"

\* What the resolver may answer; after an error there are no targets.
ResolvePathTargets(share, path) ==
  {IF ResolverFails(share) THEN <<>>
   ELSE IF World.resolver = "native" THEN NativePath(share, path)
   ELSE SmbclientPath(share, path)}

NativeTargets(share) == OtherShares(share, World.roots[share])

\* smbclient is asked for the root of the share.
SmbclientTarget(share) ==
  IF NativeTargets(share) = <<>> THEN <<>> ELSE <<Head(NativeTargets(share))>>

ResolveTargets(share) ==
  {IF ResolverFails(share) THEN <<>>
   ELSE IF World.resolver = "native" THEN NativeTargets(share)
   ELSE SmbclientTarget(share)}

-----------------------------------------------------------------------------
(* The caches *)

\* The entry with the longest prefix.
CachedMappings(share, path) ==
  LET fits == {e \in resolvedMappings : e.key = share
                                        /\ IsPathPrefix(e.mappings[1].orig, path)}
  IN IF fits = {} THEN <<>>
     ELSE (CHOOSE e \in fits : \A other \in fits :
             Len(other.mappings[1].orig) <= Len(e.mappings[1].orig)).mappings

\* Both caches replace the entry of the same key.
WithMappings(cache, share, mappings) ==
  IF mappings = <<>> THEN cache
  ELSE {e \in cache : ~(e.key = share /\ e.mappings[1].orig = mappings[1].orig)}
       \cup {[key |-> share, mappings |-> mappings]}

WithoutMapping(cache, share, orig) ==
  {e \in cache : ~(e.key = share /\ e.mappings[1].orig = orig)}

WithTargets(cache, share, targets) ==
  IF targets = <<>> THEN cache ELSE [cache EXCEPT ![share] = targets]

-----------------------------------------------------------------------------
NoCall == [at |-> "idle", req |-> None, frames |-> <<>>, todo |-> <<>>,
           error |-> None, result |-> None, touched |-> {}, named |-> <<>>,
           calls |-> 0]

Init == /\ history \in Histories /\ now = 1
        /\ resolvedConnections = [s \in Shares |-> <<>>]
        /\ resolvedMappings = {}
        /\ call = [t \in Threads |-> NoCall]

Goes(t, changed) == call' = [call EXCEPT ![t] = changed]

\* The operation is over.  touched: what it was asked for, and where it was done;
\* named: the name that a listing gives an entry "x" of the directory.
Finished(c, result, touched, named) ==
  [NoCall EXCEPT !.at = "done", !.req = c.req, !.result = result,
                 !.touched = IF result = "ok" THEN touched ELSE {},
                 !.named = named, !.calls = c.calls]

Failed(c, error) == Finished(c, error, {}, <<>>)

Called(c) == [c EXCEPT !.calls = @ + 1]

FirstStep(kind) == CASE kind = "check" -> "share"
                     [] kind = "list" -> "lookup"
                     [] kind = "rename" -> "rename"
                     [] kind = "copy" -> "copy"

Start(t) ==
  /\ call[t].at \in {"idle", "done"}
  /\ \E req \in Requests[t] :
       Goes(t, [NoCall EXCEPT !.at = FirstStep(req.kind), !.req = req])
  /\ UNCHANGED <<history, now, resolvedConnections, resolvedMappings>>

-----------------------------------------------------------------------------
(* runWithDfsFallback *)

\* What the operation is at a candidate share: done where, and what it answers.
Touches(req, share) ==
  {<<req.path, Location(share, req.path)>>}
  \cup (IF req.kind = "rename" THEN {<<req.to, Location(share, req.to)>>} ELSE {})

AnswersAt(req, share) ==
  IF req.kind = "rename"
  THEN AnswersBoth(Location(share, req.path), Location(share, req.to))
  ELSE Answers(Location(share, req.path))

\* What follows a result of runWithDfsFallback.
AfterShare(c, share, answer) ==
  IF answer = "ok"
  THEN Finished(c, "ok", Touches(c.req, share), Append(c.req.path, "x"))
  ELSE IF \/ c.req.kind = "list" /\ MayHavePathReferral(answer)
          \/ c.req.kind = "rename" /\ PathReferral(answer)
  THEN [c EXCEPT !.at = "resolvePath", !.error = answer]
  ELSE Failed(c, answer)

ShareLookup(t) ==
  /\ call[t].at = "share"
  /\ LET cached == resolvedConnections[Root]
     IN Goes(t, [call[t] EXCEPT !.at = IF cached = <<>> THEN "direct" ELSE "cachedShare",
                                !.todo = cached])
  /\ UNCHANGED <<history, now, resolvedConnections, resolvedMappings>>

CachedShare(t) ==
  LET c == Called(call[t])
      share == Head(c.todo).share
  IN /\ c.at = "cachedShare"
     /\ \E answer \in AnswersAt(c.req, share) :
          IF ShareReferral(answer)
          THEN /\ resolvedConnections' = [resolvedConnections EXCEPT ![Root] = <<>>]
               /\ Goes(t, [c EXCEPT !.at = "direct", !.todo = <<>>])
          ELSE /\ UNCHANGED resolvedConnections
               /\ Goes(t, IF Failover(answer) /\ Len(c.todo) > 1
                          THEN [c EXCEPT !.todo = Tail(@)]
                          ELSE AfterShare([c EXCEPT !.todo = <<>>], share, answer))
     /\ UNCHANGED <<history, now, resolvedMappings>>

Direct(t) ==
  LET c == Called(call[t])
  IN /\ c.at = "direct"
     /\ \E answer \in AnswersAt(c.req, Root) :
          Goes(t, IF ShareReferral(answer)
                  THEN [c EXCEPT !.at = "resolveShare", !.error = answer]
                  ELSE AfterShare(c, Root, answer))
     /\ UNCHANGED <<history, now, resolvedConnections, resolvedMappings>>

\* resolveAndCache
ResolveShare(t) ==
  LET c == call[t]
  IN /\ c.at = "resolveShare"
     /\ \E targets \in ResolveTargets(Root) :
          /\ resolvedConnections' = WithTargets(resolvedConnections, Root, targets)
          /\ Goes(t, IF targets = <<>> THEN AfterShare(c, Root, c.error)
                     ELSE [c EXCEPT !.at = "resolvedShare", !.todo = targets])
     /\ UNCHANGED <<history, now, resolvedMappings>>

ResolvedShare(t) ==
  LET c == Called(call[t])
      share == Head(c.todo).share
  IN /\ c.at = "resolvedShare"
     /\ \E answer \in AnswersAt(c.req, share) :
          Goes(t, IF Failover(answer) /\ Len(c.todo) > 1
                  THEN [c EXCEPT !.todo = Tail(@)]
                  ELSE AfterShare([c EXCEPT !.todo = <<>>], share, answer))
     /\ UNCHANGED <<history, now, resolvedConnections, resolvedMappings>>

-----------------------------------------------------------------------------
(* runWithPathDfsFallback.  The loops over mappings are a stack of frames: the    *)
(* cached or resolved mappings first, above them those behind the mapping in hand. *)

Frame(kind, outer, path, mappings) ==
  [kind |-> kind, outer |-> outer, path |-> path, todo |-> mappings,
   error |-> None, last |-> None]

Lookup(t) ==
  LET c == call[t]
      cached == CachedMappings(Root, c.req.path)
  IN /\ c.at = "lookup"
     /\ Goes(t, IF cached = <<>> THEN [c EXCEPT !.at = "share"]
                ELSE [c EXCEPT !.at = "frames",
                               !.frames = <<Frame("cached", None, c.req.path, cached)>>])
     /\ UNCHANGED <<history, now, resolvedConnections, resolvedMappings>>

\* resolvePathAndCache for the whole operation.
ResolvePath(t) ==
  LET c == call[t]
  IN /\ c.at = "resolvePath"
     /\ \E mappings \in ResolvePathTargets(Root, c.req.path) :
          /\ resolvedMappings' = WithMappings(resolvedMappings, Root, mappings)
          /\ Goes(t, IF mappings = <<>> THEN Failed(c, c.error)
                     ELSE IF c.req.kind = "rename"
                     THEN [c EXCEPT !.at = "renamed", !.todo = mappings]
                     ELSE [c EXCEPT !.at = "frames",
                                    !.frames = <<Frame("resolved", None, c.req.path,
                                                       mappings)>>])
     /\ UNCHANGED <<history, now, resolvedConnections>>

\* Mutant: what was found behind a link is named as if it were there itself.
NamedDirectly(frames, m, path) == OriginalPath(m, path)

\* The name of an entry at mapping m of the last frame, led back to where the frame
\* below it looked.
Named(frames, m, path) ==
  LET outer == Last(frames).outer
      composed == IF outer = None THEN m
                  ELSE [m EXCEPT !.orig = OriginalPath(outer, m.orig)]
  IN OriginalPath(composed, path)

\* The mapping in hand has failed, and what is behind it with `nested', if anything.
AfterMapping(c, frames, error, nested) ==
  LET f == Last(frames)
  IN IF nested # None /\ ~Failover(nested) THEN Failed(c, nested)
     ELSE IF f.kind = "cached" /\ DfsReferral(error)
     THEN [c EXCEPT !.at = "share", !.frames = <<>>]
     ELSE IF ~Failover(error) THEN Failed(c, error)
     ELSE [c EXCEPT !.at = "frames",
                    !.frames = Append(Front(frames),
                                      [f EXCEPT !.todo = Tail(@), !.error = None,
                                                !.last = error])]

\* ... and a cached one that led nowhere is forgotten.
AfterCache(frames, error, nested) ==
  resolvedMappings' =
    IF /\ Last(frames).kind = "cached" /\ DfsReferral(error)
       /\ nested = None \/ Failover(nested)
    THEN WithoutMapping(resolvedMappings, Root, Head(Last(frames).todo).orig)
    ELSE resolvedMappings

\* Mappings behind m that lead to the share of m again, or do not cover the path,
\* are passed over.
Behind(m, path, mappings) ==
  Selected(mappings, {i \in DOMAIN mappings : /\ mappings[i].share # m.share
                                             /\ IsPathPrefix(mappings[i].orig, path)})

\* Mutant: there is no limit to the depth.
MayNestAnyhow(frames, error) == MayHavePathReferral(error)

MayNest(frames, error) == MayHavePathReferral(error) /\ Len(frames) <= MaxNested

TryMapping(t) ==
  LET c == Called(call[t])
      f == Last(c.frames)
      m == Head(f.todo)
  IN /\ c.at = "frames" /\ f.todo # <<>>
     /\ \E place \in {Location(m.share, TargetPath(m, f.path))} :
        \E answer \in Answers(place) :
          IF answer = "ok"
          THEN /\ Goes(t, [c EXCEPT !.at = "return", !.frames = Front(c.frames),
                                    !.touched = {<<c.req.path, place>>},
                                    !.named = Named(c.frames, m, Append(place.path, "x"))])
               /\ UNCHANGED resolvedMappings
          ELSE IF MayNest(c.frames, answer)
          THEN /\ Goes(t, [c EXCEPT !.at = "nested",
                                    !.frames[Len(c.frames)].error = answer])
               /\ UNCHANGED resolvedMappings
          ELSE /\ Goes(t, AfterMapping(c, c.frames, answer, None))
               /\ AfterCache(c.frames, answer, None)
     /\ UNCHANGED <<history, now, resolvedConnections>>

\* A success returns through the levels, each of which rebases it.
Return(t) ==
  LET c == call[t]
  IN /\ c.at = "return"
     /\ Goes(t, IF Len(c.frames) < 2 THEN Finished(c, "ok", c.touched, c.named)
                ELSE [c EXCEPT !.frames = Front(@),
                               !.named = OriginalPath(Last(c.frames).outer, @)])
     /\ UNCHANGED <<history, now, resolvedConnections, resolvedMappings>>

\* tryNestedPathMappings: the mappings behind the one in hand, cached or resolved.
Nested(t) ==
  LET c == call[t]
      f == Last(c.frames)
      m == Head(f.todo)
  IN /\ c.at = "nested"
     /\ \E path \in {TargetPath(m, f.path)} :
        \E cached \in {CachedMappings(m.share, path)} :
        \E mappings \in IF cached # <<>> THEN {cached}
                        ELSE ResolvePathTargets(m.share, path) :
          IF mappings = <<>>
          THEN /\ Goes(t, AfterMapping(c, c.frames, f.error, None))
               /\ AfterCache(c.frames, f.error, None)
          ELSE /\ Goes(t, [c EXCEPT !.at = "frames",
                                    !.frames = Append(@, Frame("nested", m, path,
                                                               Behind(m, path, mappings)))])
               /\ resolvedMappings' = IF cached # <<>> THEN resolvedMappings
                                      ELSE WithMappings(resolvedMappings, m.share,
                                                        mappings)
     /\ UNCHANGED <<history, now, resolvedConnections>>

\* A loop has ended with its last error, or without having tried anything.
EndLoop(t) ==
  LET c == call[t]
      f == Last(c.frames)
      below == Front(c.frames)
  IN /\ c.at = "frames" /\ f.todo = <<>>
     /\ IF below = <<>>
        THEN Goes(t, Failed(c, f.last)) /\ UNCHANGED resolvedMappings
        ELSE /\ Goes(t, AfterMapping(c, below, Last(below).error, f.last))
             /\ AfterCache(below, Last(below).error, f.last)
     /\ UNCHANGED <<history, now, resolvedConnections>>

-----------------------------------------------------------------------------
(* rename *)

\* Where an end is now, according to the caches.
CachedEnd(path) ==
  LET mappings == CachedMappings(Root, path)
      shares == resolvedConnections[Root]
  IN {IF mappings # <<>>
      THEN Location(mappings[1].share, TargetPath(mappings[1], path))
      ELSE Location(IF shares # <<>> THEN shares[1].share ELSE Root, path)}

Ends(req, from, to) == {<<req.path, from>>, <<req.to, to>>}

RenameLookup(t) ==
  LET c == call[t]
      sources == CachedMappings(Root, c.req.path)
      targets == CachedMappings(Root, c.req.to)
  IN /\ c.at = "rename"
     /\ Goes(t, IF sources = <<>> \/ targets = <<>> \/ sources[1].share # targets[1].share
                THEN [c EXCEPT !.at = "share"]
                ELSE [c EXCEPT !.at = "renaming", !.todo = <<sources[1], targets[1]>>])
     /\ UNCHANGED <<history, now, resolvedConnections, resolvedMappings>>

\* At what the look-up has found; when that has moved, both entries are forgotten.
RenameCached(t) ==
  LET c == Called(call[t])
      source == c.todo[1]
      target == c.todo[2]
  IN /\ c.at = "renaming"
     /\ \E from \in {Location(source.share, TargetPath(source, c.req.path))},
           to \in {Location(target.share, TargetPath(target, c.req.to))} :
        \E answer \in AnswersBoth(from, to) :
          IF DfsReferral(answer)
          THEN /\ resolvedMappings' =
                    WithoutMapping(WithoutMapping(resolvedMappings, Root, source.orig),
                                   Root, target.orig)
               /\ Goes(t, [c EXCEPT !.at = "share", !.todo = <<>>])
          ELSE /\ Goes(t, Finished(c, answer, Ends(c.req, from, to), <<>>))
               /\ UNCHANGED resolvedMappings
     /\ UNCHANGED <<history, now, resolvedConnections>>

\* At the first target of the source; a new name that the mapping does not cover
\* is used there as it is.
RenameResolved(t) ==
  LET c == Called(call[t])
      m == Head(c.todo)
  IN /\ c.at = "renamed"
     /\ \E from \in {Location(m.share, TargetPath(m, c.req.path))},
           to \in {Location(m.share, IF IsPathPrefix(m.orig, c.req.to)
                                     THEN TargetPath(m, c.req.to) ELSE c.req.to)} :
        \E answer \in AnswersBoth(from, to) :
          Goes(t, Finished(c, answer, Ends(c.req, from, to), <<>>))
     /\ UNCHANGED <<history, now, resolvedConnections, resolvedMappings>>

-----------------------------------------------------------------------------
(* copy and move *)

CopyLookup(t) ==
  LET c == call[t]
  IN /\ c.at = "copy"
     /\ \E from \in CachedEnd(c.req.path), to \in CachedEnd(c.req.to) :
          Goes(t, [c EXCEPT !.at = "copying", !.touched = Ends(c.req, from, to)])
     /\ UNCHANGED <<history, now, resolvedConnections, resolvedMappings>>

\* Where an end of a copy is; one that does not resolve is left where it was.
EndAfter(touched, mappings, path) ==
  {IF mappings = <<>> THEN (CHOOSE end \in touched : end[1] = path)[2]
   ELSE Location(mappings[1].share, TargetPath(mappings[1], path))}

Copy(t) ==
  LET c == Called(call[t])
  IN /\ c.at = "copying"
     /\ \E from \in EndAfter(c.touched, <<>>, c.req.path),
           to \in EndAfter(c.touched, <<>>, c.req.to) :
        \E answer \in AnswersBoth(from, to) :
          Goes(t, IF PathReferral(answer) THEN [c EXCEPT !.at = "copyPath"]
                  ELSE IF ShareReferral(answer) THEN [c EXCEPT !.at = "copyShare"]
                  ELSE Finished(c, answer, Ends(c.req, from, to), <<>>))
     /\ UNCHANGED <<history, now, resolvedConnections, resolvedMappings>>

\* Both ends are resolved, the target by its parent.
CopyPath(t) ==
  LET c == Called(call[t])
  IN /\ c.at = "copyPath"
     /\ \E sources \in ResolvePathTargets(Root, c.req.path),
           targets \in ResolvePathTargets(Root, ParentPath(c.req.to)) :
          /\ resolvedMappings' = WithMappings(WithMappings(resolvedMappings, Root, sources),
                                              Root, targets)
          /\ \E from \in EndAfter(c.touched, sources, c.req.path),
                to \in EndAfter(c.touched, targets, c.req.to) :
               \E answer \in AnswersBoth(from, to) :
                 Goes(t, Finished(c, answer, Ends(c.req, from, to), <<>>))
     /\ UNCHANGED <<history, now, resolvedConnections>>

CopyShare(t) ==
  LET c == Called(call[t])
  IN /\ c.at = "copyShare"
     /\ \E targets \in ResolveTargets(Root) :
          LET share == IF targets = <<>> THEN Root ELSE targets[1].share
              from == Location(share, c.req.path)
              to == Location(share, c.req.to)
          IN /\ resolvedConnections' = WithTargets(resolvedConnections, Root, targets)
             /\ \E answer \in AnswersBoth(from, to) :
                  Goes(t, Finished(c, answer, Ends(c.req, from, to), <<>>))
     /\ UNCHANGED <<history, now, resolvedMappings>>

-----------------------------------------------------------------------------
(* Around it *)

\* Time passes: an entry is no longer fresh and is not looked at any more.
ExpireTargets ==
  /\ \E share \in Shares :
       /\ resolvedConnections[share] # <<>>
       /\ resolvedConnections' = [resolvedConnections EXCEPT ![share] = <<>>]
  /\ UNCHANGED <<history, now, resolvedMappings, call>>

\* Mutant: path mappings are taken for fresh.
ExpireMappingsNever == resolvedMappings = {} /\ call = <<>> /\ UNCHANGED vars

ExpireMappings ==
  /\ \E entry \in resolvedMappings : resolvedMappings' = resolvedMappings \ {entry}
  /\ UNCHANGED <<history, now, resolvedConnections, call>>

\* The namespace changes.
Changes == /\ now < Len(history) /\ now' = now + 1
           /\ UNCHANGED <<history, resolvedConnections, resolvedMappings, call>>

Step(t) ==
  \/ ShareLookup(t) \/ CachedShare(t) \/ Direct(t) \/ ResolveShare(t)
  \/ ResolvedShare(t) \/ Lookup(t) \/ ResolvePath(t)
  \/ TryMapping(t) \/ Return(t) \/ Nested(t) \/ EndLoop(t) \/ RenameLookup(t)
  \/ RenameCached(t) \/ RenameResolved(t) \/ CopyLookup(t) \/ Copy(t) \/ CopyPath(t) \/ CopyShare(t)

Next == \/ \E t \in Threads : Start(t) \/ Step(t)
        \/ ExpireTargets \/ ExpireMappings \/ Changes

Spec == Init /\ [][Next]_vars

\* Every call of the delegate and the resolver ends (each has a time-out), and an
\* operation makes a bounded number of them: threads come to the end of what they
\* do, the next operation starts, and time passes.
FairSpec == /\ Spec
            /\ \A t \in Threads : /\ []<>(call[t].at \in {"idle", "done"})
                                  /\ WF_vars(Start(t))
            /\ WF_vars(ExpireTargets) /\ WF_vars(ExpireMappings)

-----------------------------------------------------------------------------
(* Properties. *)

Done(t) == call[t].at = "done"

\* The worlds so far: what is cached may be older than the namespace.
Past == {history[i] : i \in 1..now}

\* Where a location leads over a link ...
OverLinks(worlds, location) ==
  UNION {{Location(target.share,
                   target.prefix \o SuffixAfterPrefix(location.path, link.path)) :
            target \in ToSet(link.targets)} :
           link \in UNION {LinksAbove(world, location.share, location.path) :
                            world \in worlds}}

\* ... and to another root target.
ToRoots(worlds, location) ==
  {Location(target.share, location.path) :
     target \in UNION {ToSet(world.roots[location.share]) : world \in worlds}}

\* Where it leads in one step.
LeadsTo(worlds, location) == OverLinks(worlds, location) \cup ToRoots(worlds, location)

\* The places a path of the connection stands for, after so many steps at most.
Stages(worlds, path) ==
  LET after[n \in 0..MaxNested + 1] ==
        IF n = 0 THEN {Location(Root, path)}
        ELSE after[n - 1] \cup UNION {LeadsTo(worlds, place) : place \in after[n - 1]}
  IN after

Reach(worlds, path) == Stages(worlds, path)[MaxNested + 1]

\* Source and new name are not behind the same links.
CrossesLink(worlds, req) ==
  \E world \in worlds :
    LinksAbove(world, Root, req.path) # LinksAbove(world, Root, req.to)

\* An operation that succeeds has been done at a place that the namespace gives the
\* path it was asked for, whatever was cached by whom, over any number of links: it
\* never reads or changes some other file.  (Renaming a link itself, or from one
\* side of it to the other, is the exception: the new name is used unmapped.)
ServesTheNamespace ==
  \A t \in Threads : Done(t) =>
    LET c == call[t]
    IN \/ c.req.kind = "rename" /\ CrossesLink(Past, c.req)
       \/ \A end \in c.touched : end[2] \in Reach(Past, end[1])

\* A link that leads into a folder above which the target share has a referral: a
\* link of its own, or other root targets.
LeadsPastReferral(worlds) ==
  \E one, other \in worlds : \E link \in one.links : \E target \in ToSet(link.targets) :
    /\ target.prefix # <<>>
    /\ \/ other.roots[target.share] # <<>>
       \/ \E above \in other.links : /\ above.share = target.share
                                     /\ IsStrictPrefix(above.path, target.prefix)

\* TASKS.md, T-096: navigation in a DFS namespace does not break the original path.
\* The entries of a listing are named below the directory that was asked for, also
\* when it was found behind several links.  (The exception: a nested referral shorter
\* than the folder the outer link leads to loses that folder, and the names come back
\* with it.)
NamesComeBack ==
  \A t \in Threads :
    Done(t) /\ call[t].req.kind = "list" /\ call[t].result = "ok"
            /\ ~LeadsPastReferral(Past)
      => call[t].named = Append(call[t].req.path, "x")

\* The longest list of targets.
Lengths(worlds) ==
  UNION {{Len(link.targets) : link \in world.links}
         \cup {Len(world.roots[s]) : s \in Shares} : world \in worlds}
MostTargets ==
  LET lengths == Lengths(ToSet(history))
  IN CHOOSE n \in lengths : \A other \in lengths : other <= n

\* Calls for the mappings of so many levels, with k targets each.
Tries(k) ==
  LET tries[n \in 0..MaxNested + 1] == IF n = 0 THEN 0 ELSE k * (1 + tries[n - 1])
  IN tries
MostCalls(k) == Tries(k)[MaxNested + 1]

\* Links that lead in a circle, and caches that are changed meanwhile, do not make
\* an operation go on: it asks each target of each level once, from the cache and
\* after resolving; a copy is repeated once.
EffortIsBounded ==
  \A t \in Threads :
    call[t].calls <= IF call[t].at # "idle" /\ call[t].req.kind = "copy" THEN 2
                     ELSE 2 * MostCalls(MostTargets) + 2 * MostTargets + 1

\* A cached target that is out of service fails the operations that find it in the
\* cache, but not for ever: when the namespace has settled, listings and checks are
\* from some time on answered by the file's own server.
Recovers ==
  <>(now = Len(history)) =>
  <>[](\A t \in Threads : Done(t) /\ call[t].req.kind \in {"list", "check"}
                          => call[t].result \in {"ok", "missing"})
=============================================================================
