------------------------ MODULE RemoteBrowserProofs ------------------------
(***************************************************************************)
(* Proofs about RemoteBrowser: the file entry kept for a link belongs to a *)
(* listing under way, the entries shown end up as those of the folder, and *)
(* back and forward keep a browsing history, in any number of requests, on *)
(* any tree of folders, with any number of threads.                        *)
(*                                                                         *)
(* The first is nearly inductive.  For the second, what is shown or on its *)
(* way is current unless an operation that will refresh it is under way.   *)
(* For the third, at most one listing is under way and it still fits what  *)
(* is shown, and no folder is its own neighbour in the history.            *)
(***************************************************************************)
EXTENDS RemoteBrowser, SequenceTheorems, TLAPS

\* m_connectionId.
Connections == Connection \cup {None}

\* Listings under way or answered.
ListingTasks ==
  [kind : Listings, place : Place, previous : Path,
   mode : {"push", "back", "forward", "replace", "reset"},
   got : {"nothing", "entries", "error"}, current : BOOLEAN]

\* File operations under way.
FileTasks ==
  [kind : Prompted \cup {"drop", "open"}, asked : Place, place : Place,
   target : Place, left : Nat, whole : Nat]

\* What a file operation posts when it ends.
EndEvents == [kind : {"completed", "failed"}, refresh : BOOLEAN]

\* Tasks in the queue.
Tasks == ListingTasks \cup FileTasks

\* Events of the GUI thread.
PostedEvents == ListingTasks \cup EndEvents

\* The types of the state.
Typed ==
  /\ connection \in Connections /\ path \in Path /\ current \in BOOLEAN
  /\ back \in Seq(Path) /\ forward \in Seq(Path) /\ fallbacks \subseteq Path
  /\ dialog \in [kind : Prompted, asked : Place] \cup {None}
  /\ tasks \in Seq(Tasks) /\ posted \in Seq(PostedEvents)
  /\ excuses \subseteq Excuse

\* An operation is under way that will have the folder read again, or whose
\* failure will excuse that it is not.
Pending(ts, ps) ==
  \/ \E t \in Range(ts) : t.kind \notin Listings \cup Downloads
  \/ \E e \in Range(ps) : e.kind = "failed" \/ (e.kind = "completed" /\ e.refresh)

\* The task or event is a listing.
IsListing(t) == t.kind \in Listings

\* What is shown, or will be, is what the folder has.
ViewInv ==
  excuses = {} =>
    \/ Pending(tasks, posted)
    \/ /\ \A t \in Outstanding : t.got = "entries" => t.current
       /\ Outstanding = {} /\ connection # None => current

\* At most one listing in the sequence s.
Single(s) == \A i, j \in DOMAIN s : IsListing(s[i]) /\ IsListing(s[j]) => i = j

\* No listing in the sequence s.
NoListing(s) == \A i \in DOMAIN s : ~IsListing(s[i])

\* Before the first connection is opened, nothing else is under way.
BeforeOpening ==
  connection = None =>
    /\ back = <<>> /\ forward = <<>> /\ dialog = None
    /\ \A t \in Range(tasks) \cup Range(posted) : t.kind = "connect"

\* The listing t was asked for from what b, p and f show.
Fits(t, b, p, f) ==
  t.kind = "list" =>
    /\ t.previous = p
    /\ t.mode = "push" => t.place[2] # p
    /\ t.mode = "back" => b # <<>> /\ t.place[2] = Last(b)
    /\ t.mode = "forward" => f # <<>> /\ t.place[2] = Last(f)
    /\ t.mode = "replace" => t.place[2] = p

\* Neighbours in the history differ.
Adjacent(b, p, f) ==
  /\ \A i \in 1..(Len(b) - 1) : b[i] # b[i + 1]
  /\ \A i \in 1..(Len(f) - 1) : f[i] # f[i + 1]
  /\ b # <<>> => Last(b) # p
  /\ f # <<>> => Last(f) # p

\* Without overlapping answers, one listing is under way at most, it fits what
\* is shown, and the stacks are those of a history.
HistoryInv ==
  "overlap" \notin excuses =>
    /\ Single(tasks) /\ Single(posted) /\ (NoListing(tasks) \/ NoListing(posted))
    /\ \A t \in Outstanding : Fits(t, back, path, forward)
    /\ Adjacent(back, path, forward)

\* A listing is for a connection; only one that opens it resets the history.
Modes ==
  \A t \in Outstanding : /\ t.kind = "connect" <=> t.mode = "reset"
                         /\ t.place[1] # None

\* The inductive invariant.
BrowserInv == /\ Typed
              /\ BeforeOpening
              /\ Modes
              /\ FallbacksAreAwaited
              /\ ViewInv
              /\ HistoryInv

-----------------------------------------------------------------------------
(* Sequences of tasks and events. *)

\* Elements of a sequence.
LEMMA RangeLemma ==
  ASSUME NEW S, NEW s \in Seq(S)
  PROVE  /\ \A i \in DOMAIN s : s[i] \in Range(s) /\ s[i] \in S
         /\ \A x \in Range(s) : x \in S /\ \E i \in DOMAIN s : s[i] = x
         /\ NoListing(s) <=> \A x \in Range(s) : ~IsListing(x)
  BY DEF Range, NoListing

\* r is s and then x.
Longer(r, s, x) == r = Append(s, x)

\* Appending a task or event.
LEMMA AppendLemma ==
  ASSUME NEW S, NEW s \in Seq(S), NEW x \in S, NEW r, Longer(r, s, x)
  PROVE  /\ r \in Seq(S) /\ Range(r) = Range(s) \cup {x}
         /\ Single(s) /\ (IsListing(x) => NoListing(s)) => Single(r)
         /\ NoListing(s) /\ ~IsListing(x) => NoListing(r)
  <1>1. /\ r \in Seq(S) /\ Len(s) \in Nat /\ DOMAIN s = 1..Len(s)
        /\ DOMAIN r = 1..(Len(s) + 1) /\ r[Len(s) + 1] = x
        /\ \A i \in 1..Len(s) : r[i] = s[i]
    BY DEF Longer
  <1>2. DOMAIN r = DOMAIN s \cup {Len(s) + 1} /\ Len(s) + 1 \notin DOMAIN s
    BY <1>1
  <1>3. Range(r) = Range(s) \cup {x}
    BY <1>1, <1>2 DEF Range
  <1>4. Single(s) /\ (IsListing(x) => NoListing(s)) => Single(r)
    BY <1>1, <1>2 DEF Single, NoListing
  <1>5. NoListing(s) /\ ~IsListing(x) => NoListing(r)
    BY <1>1, <1>2 DEF NoListing
  <1> QED
    BY <1>1, <1>3, <1>4, <1>5

\* r is s without its i-th element.
Without(r, s, i) ==
  /\ Len(r) = Len(s) - 1
  /\ \A j \in 1..Len(r) : r[j] = IF j < i THEN s[j] ELSE s[j + 1]

\* Taking one away.
LEMMA WithoutLemma ==
  ASSUME NEW S, NEW s \in Seq(S), NEW i \in 1..Len(s), NEW r \in Seq(S), Without(r, s, i)
  PROVE  /\ Range(s) = Range(r) \cup {s[i]}
         /\ Single(s) => Single(r)
         /\ Single(s) /\ IsListing(s[i]) => NoListing(r)
         /\ NoListing(s) => NoListing(r)
  <1>1. Len(s) \in Nat /\ Len(r) \in Nat /\ DOMAIN s = 1..Len(s) /\ DOMAIN r = 1..Len(r)
    OBVIOUS
  <1> DEFINE at(j) == IF j < i THEN j ELSE j + 1
  <1>2. \A j \in 1..Len(r) : at(j) \in 1..Len(s) /\ r[j] = s[at(j)] /\ at(j) # i
    BY <1>1 DEF Without
  <1>3. \A j, k \in 1..Len(r) : at(j) = at(k) => j = k
    BY <1>1
  <1>4. \A k \in 1..Len(s) : k # i => \E j \in 1..Len(r) : at(j) = k
    <2> SUFFICES ASSUME NEW k \in 1..Len(s), k # i
                 PROVE  \E j \in 1..Len(r) : at(j) = k
      OBVIOUS
    <2>1. CASE k < i
      <3>1. k \in 1..Len(r) /\ at(k) = k
        BY <1>1, <2>1 DEF Without
      <3> QED
        BY <3>1
    <2>2. CASE k > i
      <3>1. k - 1 \in 1..Len(r) /\ at(k - 1) = k
        BY <1>1, <2>2 DEF Without
      <3> QED
        BY <3>1
    <2> QED
      BY <1>1, <2>1, <2>2
  <1> HIDE DEF at
  <1>5. Range(s) = Range(r) \cup {s[i]}
    <2>1. \A j \in DOMAIN r : r[j] \in Range(s)
      BY <1>1, <1>2 DEF Range
    <2>2. \A k \in DOMAIN s : s[k] \in Range(r) \cup {s[i]}
      <3> SUFFICES ASSUME NEW k \in 1..Len(s), k # i PROVE s[k] \in Range(r)
        BY <1>1
      <3>1. PICK j \in 1..Len(r) : at(j) = k
        BY <1>4
      <3>2. s[k] = r[j] /\ j \in DOMAIN r
        BY <1>1, <1>2, <3>1
      <3> QED
        BY <3>2 DEF Range
    <2> QED
      BY <1>1, <2>1, <2>2 DEF Range
  <1>6. Single(s) => Single(r)
    BY <1>1, <1>2, <1>3 DEF Single
  <1>7. Single(s) /\ IsListing(s[i]) => NoListing(r)
    BY <1>1, <1>2 DEF Single, NoListing
  <1>8. NoListing(s) => NoListing(r)
    BY <1>1, <1>2 DEF NoListing
  <1> QED
    BY <1>5, <1>6, <1>7, <1>8

\* r is s, which is not empty, without its first element.
Shorter(r, s) == s # <<>> /\ r = Tail(s)

\* Taking the first one.
LEMMA TailLemma ==
  ASSUME NEW S, NEW s \in Seq(S), NEW r, Shorter(r, s)
  PROVE  /\ r \in Seq(S) /\ Head(s) \in S /\ Head(s) \in Range(s)
         /\ Range(s) = Range(r) \cup {Head(s)}
         /\ Single(s) => Single(r)
         /\ Single(s) /\ IsListing(Head(s)) => NoListing(r)
         /\ NoListing(s) => NoListing(r) /\ ~IsListing(Head(s))
  <1>1. Len(s) \in Nat /\ Len(s) > 0 /\ Head(s) = s[1] /\ 1 \in 1..Len(s) /\ s[1] \in S
    BY DEF Shorter
  <1>2. r \in Seq(S) /\ Len(r) = Len(s) - 1 /\ \A j \in 1..Len(r) : r[j] = s[j + 1]
    BY <1>1 DEF Shorter
  <1>0. PICK i \in 1..Len(s) : i = 1
    BY <1>1
  <1>3. Without(r, s, i)
    BY <1>0, <1>2 DEF Without
  <1>4. NoListing(s) => ~IsListing(s[1])
    BY <1>1 DEF NoListing
  <1>5. /\ Range(s) = Range(r) \cup {s[i]}
        /\ Single(s) => Single(r)
        /\ Single(s) /\ IsListing(s[i]) => NoListing(r)
        /\ NoListing(s) => NoListing(r)
    <2>1. r \in Seq(S)
      BY <1>2
    <2> QED
      BY <1>3, <2>1, WithoutLemma
  <1>6. Head(s) \in Range(s)
    BY <1>0, <1>1, <1>5
  <1> QED
    BY <1>0, <1>1, <1>2, <1>4, <1>5, <1>6

\* Taking the i-th one.
LEMMA RemoveLemma ==
  ASSUME NEW S, NEW s \in Seq(S), NEW i \in DOMAIN s, NEW r, r = RemoveAt(s, i)
  PROVE  /\ r \in Seq(S) /\ Range(s) = Range(r) \cup {s[i]} /\ s[i] \in S
         /\ Single(s) => Single(r)
         /\ Single(s) /\ IsListing(s[i]) => NoListing(r)
         /\ NoListing(s) => NoListing(r)
  <1>1. Len(s) \in Nat /\ i \in 1..Len(s) /\ \A j \in 1..Len(s) : s[j] \in S
    OBVIOUS
  <1>2. PICK a : a = [j \in 1..(i - 1) |-> s[j]]
    OBVIOUS
  <1>3. PICK b : b = [j \in 1..(Len(s) - i) |-> s[i + j]]
    OBVIOUS
  <1>4. a = SubSeq(s, 1, i - 1)
    BY <1>1, <1>2
  <1>5. b = SubSeq(s, i + 1, Len(s))
    BY <1>1, <1>3
  <1>6. a \in Seq(S) /\ Len(a) = i - 1
    <2>1. i - 1 \in Nat /\ \A j \in 1..(i - 1) : s[j] \in S
      BY <1>1
    <2>2. PICK n \in Nat : n = i - 1
      BY <2>1
    <2>3. a = [j \in 1..n |-> s[j]] /\ \A j \in 1..n : s[j] \in S
      BY <1>2, <2>1, <2>2
    <2>4. a \in Seq(S) /\ Len(a) = n
      BY <2>3
    <2> QED
      BY <2>2, <2>4
  <1>7. b \in Seq(S) /\ Len(b) = Len(s) - i
    <2>1. Len(s) - i \in Nat /\ \A j \in 1..(Len(s) - i) : s[i + j] \in S
      BY <1>1
    <2>2. PICK n \in Nat : n = Len(s) - i
      BY <2>1
    <2>3. b = [j \in 1..n |-> s[i + j]] /\ \A j \in 1..n : s[i + j] \in S
      BY <1>3, <2>1, <2>2
    <2>4. b \in Seq(S) /\ Len(b) = n
      BY <2>3
    <2> QED
      BY <2>2, <2>4
  <1>8. r = a \o b
    BY <1>4, <1>5 DEF RemoveAt
  <1>9. r \in Seq(S) /\ Len(r) = Len(s) - 1
    BY <1>1, <1>6, <1>7, <1>8
  <1>10. ASSUME NEW j \in 1..Len(r) PROVE r[j] = IF j < i THEN s[j] ELSE s[j + 1]
    <2>1. CASE j < i
      <3>1. j \in 1..Len(a) /\ r[j] = a[j]
        BY <1>1, <1>6, <1>7, <1>8, <2>1
      <3> QED
        BY <1>1, <1>2, <1>6, <2>1, <3>1
    <2>2. CASE ~(j < i)
      <3>1. j - (i - 1) \in 1..Len(b)
        BY <1>1, <1>7, <1>9, <2>2
      <3>2. r[j] = b[j - (i - 1)]
        <4>1. Len(a) + 1 <= j /\ j <= Len(a) + Len(b) 
              /\ Len(a) \in Nat /\ Len(b) \in Nat /\ j \in Nat
          BY <1>1, <1>6, <1>7, <1>9, <2>2, SMTT(30)
        <4>2. (a \o b)[j] = b[j - Len(a)]
          <5>1. j \in 1..(Len(a) + Len(b)) /\ ~(j <= Len(a))
            BY <4>1
          <5>2. \A k \in 1..(Len(a) + Len(b)) :
                  (a \o b)[k] = IF k <= Len(a) THEN a[k] ELSE b[k - Len(a)]
            BY <1>6, <1>7, ConcatProperties
          <5> QED
            BY <5>1, <5>2
        <4> QED
          BY <1>6, <1>8, <4>2
      <3>3. i + (j - (i - 1)) = j + 1
        BY <1>1, <1>9
      <3> QED
        BY <1>3, <1>7, <2>2, <3>1, <3>2, <3>3
    <2> QED
      BY <2>1, <2>2
  <1>11. s[i] \in S
    BY <1>1
  <1>12. /\ Range(s) = Range(r) \cup {s[i]}
         /\ Single(s) => Single(r)
         /\ Single(s) /\ IsListing(s[i]) => NoListing(r)
         /\ NoListing(s) => NoListing(r)
    <2>1. Without(r, s, i)
      BY <1>9, <1>10 DEF Without
    <2> QED
      BY <1>1, <1>9, <2>1, WithoutLemma
  <1> QED
    BY <1>9, <1>11, <1>12

-----------------------------------------------------------------------------
(* The steps, by what they do to the tasks and the events. *)

\* The kind tells listings from everything else.
LEMMA KindLemma ==
  /\ \A t \in ListingTasks : IsListing(t)
  /\ \A t \in FileTasks \cup EndEvents : ~IsListing(t)
  /\ \A t \in Tasks \cup PostedEvents : IsListing(t) => t \in ListingTasks
  /\ \A t \in Tasks : ~IsListing(t) => t \in FileTasks
  /\ \A t \in PostedEvents : ~IsListing(t) => t \in EndEvents
  BY DEF ListingTasks, FileTasks, EndEvents, Tasks, PostedEvents, IsListing, Listings, Prompted

\* A listing is asked for.
Asking(t) ==
  /\ t \in ListingTasks /\ t.got = "nothing"
  /\ t.kind = "connect" <=> t.mode = "reset"
  /\ t.place[1] # None
  /\ connection = None => t.kind = "connect"
  /\ tasks' = Append(tasks, t)
  /\ excuses' = excuses \cup IF Outstanding # {} THEN {"overlap"} ELSE {}
  /\ UNCHANGED <<connection, path, current, back, forward>>

\* The same by the user; a link also gets an entry in fallbacks.
AskStep(t) ==
  /\ Asking(t) /\ Fits(t, back, path, forward)
  /\ \/ fallbacks' = fallbacks
     \/ t.kind = "list" /\ fallbacks' = fallbacks \cup {t.place[2]}
  /\ UNCHANGED <<posted, dialog>>

\* A file operation is begun.
BeginStep(t) ==
  /\ t \in FileTasks /\ connection # None
  /\ tasks' = Append(tasks, t)
  /\ UNCHANGED <<connection, path, current, back, forward, fallbacks, posted, excuses>>
  /\ dialog' \in {dialog, None}

\* Neither tasks nor events nor what is shown change.
QuietStep ==
  /\ UNCHANGED <<connection, path, current, back, forward, fallbacks, tasks, posted, excuses>>
  /\ dialog' \in [kind : Prompted, asked : Place] \cup {None}
  /\ connection = None => dialog' = dialog

\* requestDirectory asks for a listing.
LEMMA RequestDirectoryLemma ==
  ASSUME Typed, NEW p \in Path, NEW mode \in {"push", "back", "forward", "replace"},
         RequestDirectory(p, mode), connection # None,
         UNCHANGED <<connection, path, current, back, forward>>
  PROVE  \E t : /\ Asking(t) /\ t.kind = "list" /\ t.place[2] = p
                /\ t.mode = mode /\ t.previous = path
  <1>1. PICK t : t = Listing("list", <<connection, p>>, path, mode)
    OBVIOUS
  <1>2. /\ t.kind = "list" /\ t.place = <<connection, p>> /\ t.previous = path
        /\ t.mode = mode /\ t.got = "nothing"
    BY <1>1 DEF Listing
  <1>3. t \in ListingTasks
    BY <1>1 DEF Listing, ListingTasks, Typed, Place, Listings, Connections
  <1>4. tasks' = Append(tasks, t)
        /\ excuses' = excuses \cup IF Outstanding # {} THEN {"overlap"} ELSE {}
    BY <1>1 DEF RequestDirectory
  <1>5. Asking(t)
    BY <1>2, <1>3, <1>4 DEF Asking
  <1> QED
    BY <1>2, <1>5

\* The top of a stack.
LEMMA LastLemma ==
  ASSUME NEW S, NEW s \in Seq(S), s # <<>>
  PROVE  Last(s) \in S
  BY DEF Last

\* The user asks for a listing, begins an operation or does neither.
LEMMA UserLemma ==
  ASSUME Typed, BeforeOpening, User
  PROVE  (\E t : AskStep(t)) \/ (\E t : BeginStep(t)) \/ QuietStep
  <1> USE DEF AskStep, Fits
  <1>1. CASE \E c \in Connection : OpenConnection(c)
    <2>1. PICK c \in Connection : OpenConnection(c)
      BY <1>1
    <2>2. PICK t : t = Listing("connect", <<c, StartPath[c]>>, StartPath[c], "reset")
      OBVIOUS
    <2>3. /\ t.kind = "connect" /\ t.place = <<c, StartPath[c]>> /\ t.mode = "reset"
          /\ t.got = "nothing" /\ c # None
      BY <2>2, NoneAssumption DEF Listing
    <2>4. t \in ListingTasks
      BY <2>2, TreeAssumption DEF Listing, ListingTasks, Place, Listings
    <2>5. Asking(t)
      BY <2>1, <2>2, <2>3, <2>4 DEF Asking, OpenConnection
    <2>6. AskStep(t)
      BY <2>1, <2>3, <2>5 DEF OpenConnection
    <2> QED
      BY <2>6
  <1>2. ASSUME NEW p \in Path, OpenDirectory(p) PROVE \E t : AskStep(t)
    <2>1. PICK t : /\ Asking(t) /\ t.kind = "list" /\ t.place[2] = p
                   /\ t.mode = "push" /\ t.previous = path
      BY <1>2, RequestDirectoryLemma DEF OpenDirectory, Browses
    <2>2. AskStep(t)
      BY <1>2, <2>1 DEF OpenDirectory, Browses
    <2> QED
      BY <2>2
  <1>3. ASSUME NEW p \in Path, OpenSymlink(p) PROVE \E t : AskStep(t)
    <2>1. PICK t : /\ Asking(t) /\ t.kind = "list" /\ t.place[2] = p
                   /\ t.mode = "push" /\ t.previous = path
      BY <1>3, RequestDirectoryLemma DEF OpenSymlink, Browses
    <2>2. AskStep(t)
      BY <1>3, <2>1 DEF OpenSymlink, Browses
    <2> QED
      BY <2>2
  <1>4. CASE GoBack
    <2>1. Last(back) \in Path
      BY <1>4, LastLemma DEF GoBack, Typed
    <2>2. PICK t : /\ Asking(t) /\ t.kind = "list" /\ t.place[2] = Last(back)
                   /\ t.mode = "back" /\ t.previous = path
      BY <1>4, <2>1, RequestDirectoryLemma DEF GoBack, Browses
    <2>3. AskStep(t)
      BY <1>4, <2>2 DEF GoBack, Browses
    <2> QED
      BY <2>3
  <1>5. CASE GoForward
    <2>1. Last(forward) \in Path
      BY <1>5, LastLemma DEF GoForward, Typed
    <2>2. PICK t : /\ Asking(t) /\ t.kind = "list" /\ t.place[2] = Last(forward)
                   /\ t.mode = "forward" /\ t.previous = path
      BY <1>5, <2>1, RequestDirectoryLemma DEF GoForward, Browses
    <2>3. AskStep(t)
      BY <1>5, <2>2 DEF GoForward, Browses
    <2> QED
      BY <2>3
  <1>6. CASE GoUp
    <2>1. Parent[path] \in Path
      BY TreeAssumption DEF Typed
    <2>2. PICK t : /\ Asking(t) /\ t.kind = "list" /\ t.place[2] = Parent[path]
                   /\ t.mode = "push" /\ t.previous = path
      BY <1>6, <2>1, RequestDirectoryLemma DEF GoUp, Browses
    <2>3. AskStep(t)
      BY <1>6, <2>2 DEF GoUp, Browses
    <2> QED
      BY <2>3
  <1>7. CASE Refresh
    <2>1. path \in Path
      BY DEF Typed
    <2>2. PICK t : /\ Asking(t) /\ t.kind = "list" /\ t.place[2] = path
                   /\ t.mode = "replace" /\ t.previous = path
      BY <1>7, <2>1, RequestDirectoryLemma DEF Refresh, Browses
    <2>3. AskStep(t)
      BY <1>7, <2>2 DEF Refresh, Browses
    <2> QED
      BY <2>3
  <1>8. CASE EditSearch \/ Dismiss \/ \E k \in Prompted : Prompt(k)
    <2>1. <<connection, path>> \in Place
      BY DEF Typed, Place, Connections
    <2>2. EditSearch => QuietStep
      BY DEF EditSearch, QuietStep, Typed
    <2>3. Dismiss => QuietStep
      BY DEF Dismiss, QuietStep, Typed, BeforeOpening
    <2>4. ASSUME NEW k \in Prompted, Prompt(k) PROVE QuietStep
      BY <2>1, <2>4 DEF Prompt, QuietStep
    <2> QED
      BY <1>8, <2>2, <2>3, <2>4
  <1>9. CASE DropFiles \/ OpenFile
    <2>1. <<connection, path>> \in Place
      BY DEF Typed, Place, Connections
    <2>2. PICK kind \in {"drop", "open"}, n \in Nat : StartsHere(kind, n)
      BY <1>9, BoundsAssumption DEF DropFiles, OpenFile
    <2>3. PICK t : t = FileOperation(kind, <<connection, path>>, <<connection, path>>,
                                     <<connection, path>>, n)
      OBVIOUS
    <2>4. t \in FileTasks
      BY <2>1, <2>3 DEF FileTasks, FileOperation
    <2>5. BeginStep(t)
      BY <1>9, <2>2, <2>3, <2>4 DEF BeginStep, DropFiles, OpenFile, Browses, StartsHere
    <2> QED
      BY <2>5
  <1>10. CASE Accept
    <2>1. dialog \in [kind : Prompted, asked : Place] /\ connection # None
      BY <1>10 DEF Accept, Typed, BeforeOpening
    <2>2. PlaceOf(dialog) \in Place /\ dialog.asked \in Place /\ dialog.kind \in Prompted
      BY <2>1 DEF PlaceOf, Typed, Place, Connections
    <2>3. PICK target \in IF dialog.kind = "move" THEN Connection \X Path
                          ELSE {PlaceOf(dialog)} :
            tasks' = Append(tasks, FileOperation(dialog.kind, dialog.asked,
                              PlaceOf(dialog), target,
                              IF dialog.kind = "move" THEN Entries ELSE 1))
      BY <1>10 DEF Accept
    <2>4. target \in Place
      BY <2>2, <2>3 DEF Place
    <2>5. PICK n \in Nat : n = IF dialog.kind = "move" THEN Entries ELSE 1
      BY BoundsAssumption
    <2>6. PICK t : t = FileOperation(dialog.kind, dialog.asked, PlaceOf(dialog), target, n)
      OBVIOUS
    <2>7. t \in FileTasks
      BY <2>2, <2>4, <2>6 DEF FileTasks, FileOperation
    <2>8. tasks' = Append(tasks, t)
      BY <2>3, <2>5, <2>6
    <2>9. BeginStep(t)
      BY <1>10, <2>1, <2>7, <2>8 DEF BeginStep, Accept
    <2> QED
      BY <2>9
  <1> QED
    BY <1>1, <1>2, <1>3, <1>4, <1>5, <1>6, <1>7, <1>8, <1>9, <1>10 DEF User

\* x is y up to what a listing has got so far and what an operation has done.
Alike(x, y) ==
  /\ x.kind = y.kind
  /\ IsListing(y) => x.place = y.place /\ x.previous = y.previous /\ x.mode = y.mode

\* A task goes on: its own state changes, and perhaps what listings are worth.
ChangeStep ==
  /\ tasks' \in Seq(Tasks) /\ DOMAIN tasks' = DOMAIN tasks
  /\ posted' \in Seq(PostedEvents) /\ DOMAIN posted' = DOMAIN posted
  /\ \A j \in DOMAIN tasks : Alike(tasks'[j], tasks[j])
  /\ \A j \in DOMAIN posted : /\ Alike(posted'[j], posted[j])
                              /\ ~IsListing(posted[j]) => posted'[j] = posted[j]
  /\ \/ Pending(tasks', posted')
     \/ /\ UNCHANGED <<posted, current>>
        /\ \A j \in DOMAIN tasks :
             IsListing(tasks[j]) => \/ tasks'[j] = tasks[j]
                                    \/ tasks'[j].got = "entries" => tasks'[j].current
  /\ current' \in BOOLEAN
  /\ UNCHANGED <<connection, path, back, forward, fallbacks, dialog, excuses>>

\* A sequence updated in place.
LEMMA UpdateLemma ==
  ASSUME NEW S, NEW s \in Seq(S), NEW r, DOMAIN r = DOMAIN s,
         r = [j \in DOMAIN r |-> r[j]], \A j \in DOMAIN s : r[j] \in S
  PROVE  r \in Seq(S)
  <1>1. PICK n \in Nat : n = Len(s)
    OBVIOUS
  <1>2. DOMAIN r = 1..n /\ \A j \in 1..n : r[j] \in S
    BY <1>1
  <1>3. [j \in 1..n |-> r[j]] \in Seq(S)
    BY <1>2
  <1> QED
    BY <1>2, <1>3

\* A listing that no longer tells the truth is otherwise the same.
LEMMA OutdatedLemma ==
  ASSUME NEW t \in Tasks \cup PostedEvents, NEW changed, NEW u, u = Outdated(t, changed)
  PROVE  /\ Alike(u, t)
         /\ t \in Tasks => u \in Tasks
         /\ t \in PostedEvents => u \in PostedEvents
         /\ ~IsListing(t) => u = t
         /\ changed = {} => u = t
  <1>1. CASE IsListing(t) /\ t.place \in changed
    <2>1. t \in ListingTasks /\ u = [t EXCEPT !.current = FALSE]
      BY <1>1, KindLemma DEF Outdated, IsListing
    <2>2. u \in ListingTasks
      BY <2>1 DEF ListingTasks
    <2>3. /\ u.kind = t.kind /\ u.place = t.place /\ u.previous = t.previous
          /\ u.mode = t.mode
      BY <2>1 DEF ListingTasks
    <2> QED
      BY <1>1, <2>2, <2>3 DEF Alike, Tasks, PostedEvents
  <1>2. CASE ~(IsListing(t) /\ t.place \in changed)
    BY <1>2 DEF Outdated, Alike, IsListing
  <1> QED
    BY <1>1, <1>2

\* Reading a folder is such a step.
LEMMA ReadLemma ==
  ASSUME Typed, NEW i \in DOMAIN tasks, Read(i)
  PROVE  ChangeStep
  <1>1. tasks \in Seq(Tasks) /\ posted \in Seq(PostedEvents) /\ tasks[i] \in Tasks
    BY DEF Typed
  <1>2. PICK t : t = tasks[i]
    OBVIOUS
  <1>3. t \in ListingTasks /\ IsListing(t)
    BY <1>1, <1>2, KindLemma DEF Read, IsListing
  <1>4. PICK u : /\ u \in ListingTasks /\ u.kind = t.kind /\ u.place = t.place
                 /\ u.previous = t.previous /\ u.mode = t.mode
                 /\ u.got = "entries" => u.current
                 /\ tasks' = [tasks EXCEPT ![i] = u]
    <2>1. CASE tasks' = [tasks EXCEPT ![i].got = "entries", ![i].current = TRUE]
      <3>1. PICK u : u = [t EXCEPT !.got = "entries", !.current = TRUE]
        OBVIOUS
      <3>2. /\ u \in ListingTasks /\ u.kind = t.kind /\ u.place = t.place
            /\ u.previous = t.previous /\ u.mode = t.mode /\ u.current
        BY <1>3, <3>1 DEF ListingTasks
      <3>3. tasks' = [tasks EXCEPT ![i] = u]
        BY <1>2, <2>1, <3>1
      <3> QED
        BY <3>2, <3>3
    <2>2. CASE tasks' = [tasks EXCEPT ![i].got = "error"]
      <3>1. PICK u : u = [t EXCEPT !.got = "error"]
        OBVIOUS
      <3>2. /\ u \in ListingTasks /\ u.kind = t.kind /\ u.place = t.place
            /\ u.previous = t.previous /\ u.mode = t.mode /\ u.got = "error"
        BY <1>3, <3>1 DEF ListingTasks
      <3>3. tasks' = [tasks EXCEPT ![i] = u]
        BY <1>2, <2>2, <3>1
      <3> QED
        BY <3>2, <3>3
    <2> QED
      BY <2>1, <2>2 DEF Read
  <1>5. /\ DOMAIN tasks' = DOMAIN tasks /\ tasks'[i] = u
        /\ \A j \in DOMAIN tasks : j # i => tasks'[j] = tasks[j]
        /\ tasks' = [j \in DOMAIN tasks' |-> tasks'[j]]
    BY <1>1, <1>4
  <1>6. tasks' \in Seq(Tasks)
    <2>1. \A j \in DOMAIN tasks : tasks'[j] \in Tasks
      BY <1>1, <1>4, <1>5 DEF Tasks
    <2> QED
      BY <1>1, <1>5, <2>1, UpdateLemma
  <1>7. \A j \in DOMAIN tasks : Alike(tasks'[j], tasks[j])
    BY <1>2, <1>4, <1>5 DEF Alike
  <1>8. UNCHANGED <<connection, path, current, back, forward, fallbacks, dialog, posted,
                    excuses>>
    BY DEF Read
  <1>9. \A j \in DOMAIN tasks : \/ tasks'[j] = tasks[j]
                                \/ tasks'[j].got = "entries" => tasks'[j].current
    BY <1>4, <1>5
  <1> QED
    BY <1>1, <1>5, <1>6, <1>7, <1>8, <1>9 DEF ChangeStep, Alike, Typed

\* So is handling an entry.
LEMMA OperateLemma ==
  ASSUME Typed, NEW i \in DOMAIN tasks, Operate(i)
  PROVE  ChangeStep
  <1>1. tasks \in Seq(Tasks) /\ posted \in Seq(PostedEvents) /\ tasks[i] \in Tasks
    BY DEF Typed
  <1>2. PICK t : t = tasks[i]
    OBVIOUS
  <1>3. PICK changed : changed = IF t.kind \in Downloads THEN {} ELSE {WorksAt(t), t.target}
    OBVIOUS
  <1>4. /\ ~IsListing(t) /\ t.left > 0
        /\ tasks' = [j \in DOMAIN tasks |-> IF j = i THEN [t EXCEPT !.left = t.left - 1]
                                            ELSE Outdated(tasks[j], changed)]
        /\ posted' = [j \in DOMAIN posted |-> Outdated(posted[j], changed)]
        /\ current' = (current /\ <<connection, path>> \notin changed)
        /\ UNCHANGED <<connection, path, back, forward, fallbacks, dialog, excuses>>
    BY <1>2, <1>3 DEF Operate, IsListing
  <1>5. t \in FileTasks
    BY <1>1, <1>2, <1>4, KindLemma
  <1>6. PICK u : u = [t EXCEPT !.left = t.left - 1]
    OBVIOUS
  <1>7. u \in FileTasks /\ u.kind = t.kind
    BY <1>4, <1>5, <1>6 DEF FileTasks
  <1>8. /\ DOMAIN tasks' = DOMAIN tasks /\ tasks'[i] = u
        /\ \A j \in DOMAIN tasks : j # i => tasks'[j] = Outdated(tasks[j], changed)
        /\ tasks' = [j \in DOMAIN tasks' |-> tasks'[j]]
    BY <1>4, <1>6
  <1>9. /\ DOMAIN posted' = DOMAIN posted
        /\ \A j \in DOMAIN posted : posted'[j] = Outdated(posted[j], changed)
        /\ posted' = [j \in DOMAIN posted' |-> posted'[j]]
    BY <1>4
  <1>10. \A j \in DOMAIN tasks : /\ tasks'[j] \in Tasks /\ Alike(tasks'[j], tasks[j])
                                 /\ j # i /\ changed = {} => tasks'[j] = tasks[j]
    <2> SUFFICES ASSUME NEW j \in DOMAIN tasks
                 PROVE  /\ tasks'[j] \in Tasks /\ Alike(tasks'[j], tasks[j])
                        /\ j # i /\ changed = {} => tasks'[j] = tasks[j]
      OBVIOUS
    <2>1. CASE j = i
      BY <1>2, <1>4, <1>7, <1>8, <2>1 DEF Tasks, Alike
    <2>2. CASE j # i
      <3>1. tasks[j] \in Tasks /\ tasks'[j] = Outdated(tasks[j], changed)
        BY <1>1, <1>8, <2>2
      <3> QED
        BY <3>1, OutdatedLemma
    <2> QED
      BY <2>1, <2>2
  <1>11. \A j \in DOMAIN posted : /\ posted'[j] \in PostedEvents
                                  /\ Alike(posted'[j], posted[j])
                                  /\ ~IsListing(posted[j]) => posted'[j] = posted[j]
                                  /\ changed = {} => posted'[j] = posted[j]
    <2> SUFFICES ASSUME NEW j \in DOMAIN posted
                 PROVE  /\ posted'[j] \in PostedEvents /\ Alike(posted'[j], posted[j])
                        /\ ~IsListing(posted[j]) => posted'[j] = posted[j]
                        /\ changed = {} => posted'[j] = posted[j]
      OBVIOUS
    <2>1. posted[j] \in PostedEvents /\ posted'[j] = Outdated(posted[j], changed)
      BY <1>1, <1>9
    <2> QED
      BY <2>1, OutdatedLemma
  <1>12. tasks' \in Seq(Tasks) /\ posted' \in Seq(PostedEvents)
    BY <1>1, <1>8, <1>9, <1>10, <1>11, UpdateLemma
  <1>13. current' \in BOOLEAN
    BY <1>4
  <1>14. CASE t.kind \in Downloads
    <2>1. changed = {}
      BY <1>3, <1>14
    <2>2. posted' = posted
      <3>1. posted = [j \in DOMAIN posted |-> posted[j]]
        BY <1>1
      <3> QED
        BY <1>9, <1>11, <2>1, <3>1
    <2>3. current' = current
      BY <1>4, <2>1 DEF Typed
    <2>4. \A j \in DOMAIN tasks : IsListing(tasks[j]) => tasks'[j] = tasks[j]
      BY <1>2, <1>4, <1>10, <2>1
    <2> QED
      BY <1>4, <1>8, <1>9, <1>10, <1>11, <1>12, <1>13, <2>2, <2>3, <2>4 DEF ChangeStep
  <1>15. CASE t.kind \notin Downloads
    <2>1. u \in Range(tasks') /\ u.kind \notin Listings \cup Downloads
      BY <1>4, <1>7, <1>8, <1>15 DEF Range, IsListing
    <2>2. Pending(tasks', posted')
      BY <2>1 DEF Pending
    <2> QED
      BY <1>4, <1>8, <1>9, <1>10, <1>11, <1>12, <1>13, <2>2 DEF ChangeStep
  <1> QED
    BY <1>14, <1>15

-----------------------------------------------------------------------------
(* Each kind of step preserves the invariant. *)

\* A listing is asked for.
LEMMA AskInv ==
  ASSUME BrowserInv, NEW t, AskStep(t)
  PROVE  BrowserInv'
  <1>1. tasks \in Seq(Tasks) /\ posted \in Seq(PostedEvents) /\ t \in ListingTasks
        /\ t \in Tasks /\ IsListing(t) /\ Typed
    BY KindLemma DEF BrowserInv, Typed, AskStep, Asking, Tasks
  <1>2. /\ t.got = "nothing" /\ (t.kind = "connect" <=> t.mode = "reset")
        /\ t.place[1] # None /\ (connection = None => t.kind = "connect")
        /\ tasks' = Append(tasks, t)
        /\ excuses' = excuses \cup (IF Outstanding # {} THEN {"overlap"} ELSE {})
        /\ Fits(t, back, path, forward)
        /\ fallbacks' = fallbacks \/ (t.kind = "list" /\ fallbacks' = fallbacks \cup {t.place[2]})
        /\ UNCHANGED <<connection, path, current, back, forward, posted, dialog>>
    BY DEF AskStep, Asking
  <1>3. /\ tasks' \in Seq(Tasks) /\ Range(tasks') = Range(tasks) \cup {t}
        /\ Single(tasks) /\ NoListing(tasks) => Single(tasks')
    <2>1. Longer(tasks', tasks, t)
      BY <1>2 DEF Longer
    <2> QED
      BY <1>1, <2>1, AppendLemma
  <1>4. Outstanding' = Outstanding \cup {t}
    BY <1>1, <1>2, <1>3 DEF Outstanding, IsListing
  <1>5. excuses \subseteq excuses' /\ ("overlap" \notin excuses' => Outstanding = {})
    BY <1>2
  <1>6. Typed'
    <2>1. t.place[2] \in Path
      BY <1>1 DEF ListingTasks, Place
    <2>2. excuses' \subseteq Excuse
      BY <1>1, <1>2 DEF Typed, Excuse
    <2>3. fallbacks' \subseteq Path
      BY <1>1, <1>2, <2>1 DEF Typed
    <2> QED
      BY <1>1, <1>2, <1>3, <2>2, <2>3 DEF Typed
  <1>7. BeforeOpening'
    BY <1>2, <1>3 DEF BrowserInv, BeforeOpening
  <1>8. Modes'
    BY <1>2, <1>4 DEF BrowserInv, Modes
  <1>9. FallbacksAreAwaited'
    BY <1>2, <1>4, <1>5 DEF BrowserInv, FallbacksAreAwaited
  <1>10. ViewInv'
    <2> SUFFICES ASSUME excuses' = {}
                 PROVE  \/ Pending(tasks', posted')
                        \/ /\ \A u \in Outstanding' : u.got = "entries" => u.current
                           /\ Outstanding' = {} /\ connection' # None => current'
      BY DEF ViewInv
    <2>1. excuses = {} /\ Outstanding = {}
      BY <1>5
    <2> QED
      BY <1>2, <1>4, <2>1
  <1>11. HistoryInv'
    <2> SUFFICES ASSUME "overlap" \notin excuses'
                 PROVE  /\ Single(tasks') /\ Single(posted')
                        /\ NoListing(tasks') \/ NoListing(posted')
                        /\ \A u \in Outstanding' : Fits(u, back', path', forward')
                        /\ Adjacent(back', path', forward')
      BY DEF HistoryInv
    <2>1. "overlap" \notin excuses /\ Outstanding = {}
      BY <1>5
    <2>2. NoListing(tasks) /\ NoListing(posted)
      BY <1>1, <2>1, RangeLemma DEF Outstanding, IsListing
    <2>3. Single(tasks) /\ Single(posted) /\ Adjacent(back, path, forward)
      BY <2>1 DEF BrowserInv, HistoryInv
    <2> QED
      BY <1>2, <1>3, <1>4, <2>1, <2>2, <2>3
  <1> QED
    BY <1>6, <1>7, <1>8, <1>9, <1>10, <1>11 DEF BrowserInv

\* A file operation is begun.
LEMMA BeginInv ==
  ASSUME BrowserInv, NEW t, BeginStep(t)
  PROVE  BrowserInv'
  <1>1. tasks \in Seq(Tasks) /\ posted \in Seq(PostedEvents) /\ t \in Tasks
        /\ ~IsListing(t) /\ Typed
    BY KindLemma DEF BrowserInv, Typed, BeginStep, Tasks
  <1>2. /\ connection # None /\ tasks' = Append(tasks, t) /\ dialog' \in {dialog, None}
        /\ UNCHANGED <<connection, path, current, back, forward, fallbacks, posted, excuses>>
    BY DEF BeginStep
  <1>3. /\ tasks' \in Seq(Tasks) /\ Range(tasks') = Range(tasks) \cup {t}
        /\ Single(tasks) => Single(tasks')
        /\ NoListing(tasks) => NoListing(tasks')
    <2>1. Longer(tasks', tasks, t)
      BY <1>2 DEF Longer
    <2> QED
      BY <1>1, <2>1, AppendLemma
  <1>4. Outstanding' = Outstanding
    BY <1>1, <1>2, <1>3 DEF Outstanding, IsListing
  <1>5. Typed'
    BY <1>1, <1>2, <1>3 DEF Typed
  <1>6. BeforeOpening' /\ Modes' /\ FallbacksAreAwaited'
    BY <1>2, <1>4 DEF BrowserInv, BeforeOpening, Modes, FallbacksAreAwaited
  <1>7. ViewInv'
    <2>1. Pending(tasks, posted) => Pending(tasks', posted')
      BY <1>2, <1>3 DEF Pending
    <2> QED
      BY <1>2, <1>4, <2>1 DEF BrowserInv, ViewInv
  <1>8. HistoryInv'
    BY <1>2, <1>3, <1>4 DEF BrowserInv, HistoryInv
  <1> QED
    BY <1>5, <1>6, <1>7, <1>8 DEF BrowserInv

\* Nothing but a dialog or a label changes.
LEMMA QuietInv ==
  ASSUME BrowserInv, QuietStep
  PROVE  BrowserInv'
  <1>1. /\ UNCHANGED <<connection, path, current, back, forward, fallbacks, tasks, posted,
                       excuses>>
        /\ dialog' \in [kind : Prompted, asked : Place] \cup {None}
        /\ connection = None => dialog' = dialog
    BY DEF QuietStep
  <1>2. Outstanding' = Outstanding
    BY <1>1 DEF Outstanding
  <1>3. Typed'
    BY <1>1 DEF BrowserInv, Typed
  <1>4. BeforeOpening' /\ Modes' /\ FallbacksAreAwaited'
    BY <1>1, <1>2 DEF BrowserInv, BeforeOpening, Modes, FallbacksAreAwaited
  <1>5. ViewInv'
    BY <1>1, <1>2 DEF BrowserInv, ViewInv
  <1>6. HistoryInv'
    BY <1>1, <1>2 DEF BrowserInv, HistoryInv
  <1> QED
    BY <1>3, <1>4, <1>5, <1>6 DEF BrowserInv

\* Sequences whose elements are alike have their listings at the same places.
LEMMA AlikeLemma ==
  ASSUME NEW s, NEW r, DOMAIN r = DOMAIN s, \A j \in DOMAIN s : Alike(r[j], s[j])
  PROVE  /\ Single(s) => Single(r)
         /\ NoListing(s) => NoListing(r)
         /\ \A x \in Range(r) : \E y \in Range(s) : Alike(x, y)
         /\ \A y \in Range(s) : \E x \in Range(r) : Alike(x, y)
  <1>1. \A j \in DOMAIN s : IsListing(r[j]) <=> IsListing(s[j])
    BY DEF Alike, IsListing
  <1>2. (Single(s) => Single(r)) /\ (NoListing(s) => NoListing(r))
    BY <1>1 DEF Single, NoListing
  <1>3. \A x \in Range(r) : \E y \in Range(s) : Alike(x, y)
    BY DEF Range
  <1>4. \A y \in Range(s) : \E x \in Range(r) : Alike(x, y)
    BY DEF Range
  <1> QED
    BY <1>2, <1>3, <1>4

\* A task goes on.
LEMMA ChangeInv ==
  ASSUME BrowserInv, ChangeStep
  PROVE  BrowserInv'
  <1>1. /\ tasks' \in Seq(Tasks) /\ DOMAIN tasks' = DOMAIN tasks
        /\ posted' \in Seq(PostedEvents) /\ DOMAIN posted' = DOMAIN posted
        /\ \A j \in DOMAIN tasks : Alike(tasks'[j], tasks[j])
        /\ \A j \in DOMAIN posted : Alike(posted'[j], posted[j])
        /\ UNCHANGED <<connection, path, back, forward, fallbacks, dialog, excuses>>
        /\ current' \in BOOLEAN /\ Typed
    BY DEF ChangeStep, BrowserInv
  <1>2. /\ Single(tasks) => Single(tasks')
        /\ NoListing(tasks) => NoListing(tasks')
        /\ \A x \in Range(tasks') : \E y \in Range(tasks) : Alike(x, y)
        /\ \A y \in Range(tasks) : \E x \in Range(tasks') : Alike(x, y)
    BY <1>1, AlikeLemma
  <1>3. /\ Single(posted) => Single(posted')
        /\ NoListing(posted) => NoListing(posted')
        /\ \A x \in Range(posted') : \E y \in Range(posted) : Alike(x, y)
        /\ \A y \in Range(posted) : \E x \in Range(posted') : Alike(x, y)
    BY <1>1, AlikeLemma
  <1>4. /\ \A x \in Outstanding' : \E y \in Outstanding : Alike(x, y)
        /\ \A y \in Outstanding : \E x \in Outstanding' : Alike(x, y)
    BY <1>2, <1>3 DEF Outstanding, Alike
  <1>5. Typed'
    BY <1>1 DEF Typed
  <1>6. BeforeOpening'
    BY <1>1, <1>2, <1>3 DEF BrowserInv, BeforeOpening, Alike
  <1>7. Modes'
    BY <1>4 DEF BrowserInv, Modes, Alike, Outstanding, IsListing
  <1>8. FallbacksAreAwaited'
    BY <1>1, <1>4 DEF BrowserInv, FallbacksAreAwaited, Alike, Outstanding, IsListing
  <1>9. ViewInv'
    <2> SUFFICES ASSUME excuses = {}, ~Pending(tasks', posted')
                 PROVE  /\ \A u \in Outstanding' : u.got = "entries" => u.current
                        /\ Outstanding' = {} /\ connection' # None => current'
      BY <1>1 DEF ViewInv
    <2>1. /\ UNCHANGED <<posted, current>>
          /\ \A j \in DOMAIN tasks :
               IsListing(tasks[j]) => \/ tasks'[j] = tasks[j]
                                      \/ tasks'[j].got = "entries" => tasks'[j].current
      BY DEF ChangeStep
    <2>2. ~Pending(tasks, posted)
      <3>1. \A y \in Range(tasks) : \E x \in Range(tasks') : x.kind = y.kind
        BY <1>2 DEF Alike
      <3> QED
        BY <2>1, <3>1 DEF Pending
    <2>3. /\ \A u \in Outstanding : u.got = "entries" => u.current
          /\ Outstanding = {} /\ connection # None => current
      BY <2>2 DEF BrowserInv, ViewInv
    <2>4. ASSUME NEW u \in Outstanding', u.got = "entries" PROVE u.current
      <3>1. CASE u \in Range(posted')
        <4>1. u \in Outstanding
          BY <2>1, <2>4, <3>1 DEF Outstanding
        <4> QED
          BY <2>3, <2>4, <4>1
      <3>2. CASE u \in Range(tasks')
        <4>1. PICK j \in DOMAIN tasks : u = tasks'[j]
          BY <1>1, <3>2 DEF Range
        <4>2. IsListing(tasks[j])
          BY <1>1, <2>4, <4>1 DEF Outstanding, Alike, IsListing
        <4>3. CASE tasks'[j] = tasks[j]
          <5>1. u \in Outstanding
            BY <4>1, <4>2, <4>3 DEF Outstanding, Range, IsListing
          <5> QED
            BY <2>3, <2>4, <5>1
        <4> QED
          BY <2>1, <2>4, <4>1, <4>2, <4>3
      <3> QED
        BY <2>4, <3>1, <3>2 DEF Outstanding
    <2>5. Outstanding' = {} => Outstanding = {}
      BY <1>4
    <2> QED
      BY <1>1, <2>1, <2>3, <2>4, <2>5
  <1>10. HistoryInv'
    <2>1. (\A u \in Outstanding : Fits(u, back, path, forward))
            => \A x \in Outstanding' : Fits(x, back, path, forward)
      BY <1>4 DEF Alike, Fits, Outstanding, IsListing
    <2> QED
      BY <1>1, <1>2, <1>3, <2>1 DEF BrowserInv, HistoryInv
  <1> QED
    BY <1>5, <1>6, <1>7, <1>8, <1>9, <1>10 DEF BrowserInv

\* A listing posts its answer.
LEMMA ReportInv ==
  ASSUME BrowserInv, NEW i \in DOMAIN tasks, Report(i)
  PROVE  BrowserInv'
  <1>1. tasks \in Seq(Tasks) /\ posted \in Seq(PostedEvents) /\ Typed
    BY DEF BrowserInv, Typed
  <1>2. PICK t : t = tasks[i]
    OBVIOUS
  <1>3. /\ tasks' = RemoveAt(tasks, i) /\ posted' = Append(posted, t) /\ IsListing(t)
        /\ UNCHANGED <<connection, path, current, back, forward, fallbacks, dialog, excuses>>
    BY <1>2 DEF Report, IsListing
  <1>4. /\ tasks' \in Seq(Tasks) /\ Range(tasks) = Range(tasks') \cup {t} /\ t \in Tasks
        /\ Single(tasks) => NoListing(tasks') /\ Single(tasks')
    BY <1>1, <1>2, <1>3, RemoveLemma
  <1>5. t \in PostedEvents
    BY <1>3, <1>4, KindLemma DEF PostedEvents
  <1>6. /\ posted' \in Seq(PostedEvents) /\ Range(posted') = Range(posted) \cup {t}
        /\ Single(posted) /\ NoListing(posted) => Single(posted')
    <2>1. Longer(posted', posted, t)
      BY <1>3 DEF Longer
    <2> QED
      BY <1>1, <1>5, <2>1, AppendLemma
  <1>7. Range(tasks') \cup Range(posted') = Range(tasks) \cup Range(posted)
    BY <1>4, <1>6
  <1>8. Outstanding' = Outstanding
    BY <1>7 DEF Outstanding
  <1>9. Typed'
    BY <1>1, <1>3, <1>4, <1>6 DEF Typed
  <1>10. BeforeOpening' /\ Modes' /\ FallbacksAreAwaited'
    BY <1>3, <1>7, <1>8 DEF BrowserInv, BeforeOpening, Modes, FallbacksAreAwaited
  <1>11. ViewInv'
    <2>1. Pending(tasks, posted) => Pending(tasks', posted')
      BY <1>3, <1>4, <1>6 DEF Pending, IsListing
    <2> QED
      BY <1>3, <1>8, <2>1 DEF BrowserInv, ViewInv
  <1>12. HistoryInv'
    <2>1. ~NoListing(tasks)
      BY <1>2, <1>3 DEF NoListing
    <2> QED
      BY <1>3, <1>4, <1>6, <1>8, <2>1 DEF BrowserInv, HistoryInv
  <1> QED
    BY <1>9, <1>10, <1>11, <1>12 DEF BrowserInv

\* A file operation posts its end.
LEMMA OperationEndsInv ==
  ASSUME BrowserInv, NEW i \in DOMAIN tasks, OperationEnds(i)
  PROVE  BrowserInv'
  <1>1. tasks \in Seq(Tasks) /\ posted \in Seq(PostedEvents) /\ Typed
    BY DEF BrowserInv, Typed
  <1>2. PICK t : t = tasks[i]
    OBVIOUS
  <1>3. PICK e : e = [kind |-> IF t.left = 0 THEN "completed" ELSE "failed",
                      refresh |-> t.kind \notin Downloads]
    OBVIOUS
  <1>4. /\ tasks' = RemoveAt(tasks, i) /\ posted' = Append(posted, e) /\ ~IsListing(t)
        /\ UNCHANGED <<connection, path, current, back, forward, fallbacks, dialog, excuses>>
    BY <1>2, <1>3 DEF OperationEnds, IsListing
  <1>5. e \in EndEvents /\ e \in PostedEvents /\ ~IsListing(e)
    BY <1>3, KindLemma DEF EndEvents, PostedEvents
  <1>6. /\ tasks' \in Seq(Tasks) /\ Range(tasks) = Range(tasks') \cup {t}
        /\ Single(tasks) => Single(tasks')
        /\ NoListing(tasks) => NoListing(tasks')
    BY <1>1, <1>2, <1>4, RemoveLemma
  <1>7. /\ posted' \in Seq(PostedEvents) /\ Range(posted') = Range(posted) \cup {e}
        /\ Single(posted) => Single(posted')
        /\ NoListing(posted) => NoListing(posted')
    <2>1. Longer(posted', posted, e)
      BY <1>4 DEF Longer
    <2> QED
      BY <1>1, <1>5, <2>1, AppendLemma
  <1>8. Outstanding' = Outstanding
    BY <1>4, <1>5, <1>6, <1>7 DEF Outstanding, IsListing
  <1>9. Typed'
    BY <1>1, <1>4, <1>6, <1>7 DEF Typed
  <1>10. BeforeOpening' /\ Modes' /\ FallbacksAreAwaited'
    <2>1. connection # None
      BY <1>4, <1>6 DEF BrowserInv, BeforeOpening, IsListing, Listings
    <2> QED
      BY <1>4, <1>8, <2>1 DEF BrowserInv, BeforeOpening, Modes, FallbacksAreAwaited
  <1>11. ViewInv'
    <2>1. t.kind \notin Downloads => e.kind = "failed" \/ (e.kind = "completed" /\ e.refresh)
      BY <1>3
    <2>2. Pending(tasks, posted) => Pending(tasks', posted')
      BY <1>6, <1>7, <2>1 DEF Pending
    <2> QED
      BY <1>4, <1>8, <2>2 DEF BrowserInv, ViewInv
  <1>12. HistoryInv'
    BY <1>4, <1>6, <1>7, <1>8 DEF BrowserInv, HistoryInv
  <1> QED
    BY <1>9, <1>10, <1>11, <1>12 DEF BrowserInv

\* A task is cancelled before it starts.
LEMMA AbandonInv ==
  ASSUME BrowserInv, NEW i \in DOMAIN tasks, Abandon(i)
  PROVE  BrowserInv'
  <1>1. tasks \in Seq(Tasks) /\ Typed
    BY DEF BrowserInv, Typed
  <1>2. /\ tasks' = RemoveAt(tasks, i) /\ excuses' = excuses \cup {"abandoned"}
        /\ UNCHANGED <<connection, path, current, back, forward, fallbacks, dialog, posted>>
    BY DEF Abandon
  <1>3. /\ tasks' \in Seq(Tasks) /\ Range(tasks) = Range(tasks') \cup {tasks[i]}
        /\ Single(tasks) => Single(tasks')
        /\ NoListing(tasks) => NoListing(tasks')
    BY <1>1, <1>2, RemoveLemma
  <1>4. Outstanding' \subseteq Outstanding
    BY <1>2, <1>3 DEF Outstanding
  <1>5. Typed'
    BY <1>1, <1>2, <1>3 DEF Typed, Excuse
  <1>6. BeforeOpening' /\ Modes'
    BY <1>2, <1>3, <1>4 DEF BrowserInv, BeforeOpening, Modes
  <1>7. FallbacksAreAwaited' /\ ViewInv'
    BY <1>2 DEF FallbacksAreAwaited, ViewInv
  <1>8. HistoryInv'
    BY <1>2, <1>3, <1>4 DEF BrowserInv, HistoryInv
  <1> QED
    BY <1>5, <1>6, <1>7, <1>8 DEF BrowserInv

\* What every event has in common.
LEMMA EventLemma ==
  ASSUME BrowserInv, posted # <<>>, posted' = Tail(posted), NEW e, e = Event
  PROVE  /\ posted' \in Seq(PostedEvents) /\ Range(posted) = Range(posted') \cup {e}
         /\ e \in PostedEvents /\ e \in Range(posted)
         /\ Single(posted) => Single(posted')
         /\ NoListing(posted) => NoListing(posted') /\ ~IsListing(e)
         /\ Single(posted) /\ IsListing(e) => NoListing(posted')
         /\ IsListing(e) => e \in Outstanding /\ e \in ListingTasks
         /\ ~IsListing(e) => e \in EndEvents /\ connection # None
  <1>1. Shorter(posted', posted) /\ posted \in Seq(PostedEvents)
    BY DEF Shorter, BrowserInv, Typed
  <1>2. e = Head(posted)
    BY DEF Event
  <1>3. /\ posted' \in Seq(PostedEvents) /\ Range(posted) = Range(posted') \cup {e}
        /\ e \in PostedEvents /\ e \in Range(posted)
        /\ Single(posted) => Single(posted')
        /\ NoListing(posted) => NoListing(posted') /\ ~IsListing(e)
        /\ Single(posted) /\ IsListing(e) => NoListing(posted')
    BY <1>1, <1>2, TailLemma
  <1>4. IsListing(e) => e \in Outstanding /\ e \in ListingTasks
    BY <1>3, KindLemma DEF Outstanding, IsListing
  <1>5. ~IsListing(e) => e \in EndEvents /\ connection # None
    BY <1>3, KindLemma DEF BrowserInv, BeforeOpening, IsListing, Listings
  <1> QED
    BY <1>3, <1>4, <1>5

\* A connection could not be opened, or an operation failed.
LEMMA FailedInv ==
  ASSUME BrowserInv, OpenFailed \/ OperationFailed
  PROVE  BrowserInv'
  <1>1. PICK e : e = Event
    OBVIOUS
  <1>2. /\ posted # <<>> /\ posted' = Tail(posted) /\ e.kind \in {"connect", "failed"}
        /\ excuses' = excuses \cup {"failed"}
        /\ UNCHANGED <<connection, path, current, back, forward, fallbacks, dialog, tasks>>
    BY <1>1 DEF OpenFailed, OperationFailed
  <1>3. /\ posted' \in Seq(PostedEvents) /\ Range(posted) = Range(posted') \cup {e}
        /\ Single(posted) => Single(posted')
        /\ NoListing(posted) => NoListing(posted')
    BY <1>1, <1>2, EventLemma
  <1>4. Outstanding' \subseteq Outstanding
        /\ \A t \in Outstanding : t.kind = "list" => t \in Outstanding'
    BY <1>2, <1>3 DEF Outstanding
  <1>5. Typed'
    BY <1>2, <1>3 DEF BrowserInv, Typed, Excuse
  <1>6. BeforeOpening' /\ Modes'
    BY <1>2, <1>3, <1>4 DEF BrowserInv, BeforeOpening, Modes
  <1>7. FallbacksAreAwaited' /\ ViewInv'
    BY <1>2, <1>4 DEF BrowserInv, FallbacksAreAwaited, ViewInv
  <1>8. HistoryInv'
    BY <1>2, <1>3, <1>4 DEF BrowserInv, HistoryInv
  <1> QED
    BY <1>5, <1>6, <1>7, <1>8 DEF BrowserInv

\* A folder could not be listed.
LEMMA DeliverFailureInv ==
  ASSUME BrowserInv, DeliverFailure
  PROVE  BrowserInv'
  <1>1. PICK e : e = Event
    OBVIOUS
  <1>2. /\ posted # <<>> /\ posted' = Tail(posted) /\ e.kind = "list"
        /\ fallbacks' = fallbacks \ {e.place[2]}
        /\ excuses' = excuses \cup {"failed"}
        /\ UNCHANGED <<connection, path, current, back, forward, dialog>>
        /\ UNCHANGED tasks \/ OpenLink(e.place)
    BY <1>1 DEF DeliverFailure
  <1>3. /\ posted' \in Seq(PostedEvents) /\ Range(posted) = Range(posted') \cup {e}
        /\ Single(posted) => Single(posted')
        /\ NoListing(posted) => NoListing(posted')
        /\ e \in Range(posted) /\ (IsListing(e) => e \in ListingTasks)
    BY <1>1, <1>2, EventLemma
  <1>4. e \in ListingTasks /\ Typed /\ tasks \in Seq(Tasks) /\ connection # None
    BY <1>2, <1>3 DEF IsListing, Listings, BrowserInv, Typed, BeforeOpening
  <1>5. /\ tasks' \in Seq(Tasks) /\ (Single(tasks) => Single(tasks'))
        /\ NoListing(tasks) => NoListing(tasks')
        /\ \E T \in SUBSET FileTasks : Range(tasks') = Range(tasks) \cup T
    <2>1. CASE UNCHANGED tasks
      <3>1. {} \in SUBSET FileTasks /\ Range(tasks') = Range(tasks) \cup {}
        BY <2>1 DEF Range
      <3> QED
        BY <1>4, <2>1, <3>1
    <2>2. CASE OpenLink(e.place)
      <3>1. PICK here : here = <<connection, Parent[e.place[2]]>>
        OBVIOUS
      <3>2. PICK t : t = FileOperation("open", <<e.place[1], Parent[e.place[2]]>>, here, here, 1)
        OBVIOUS
      <3>3. e.place \in Place /\ e.place[1] \in Connections /\ e.place[2] \in Path
        BY <1>4 DEF ListingTasks, Place, Connections
      <3>4. here \in Place /\ <<e.place[1], Parent[e.place[2]]>> \in Place
        BY <1>4, <3>1, <3>3, TreeAssumption DEF Typed, Place, Connections
      <3>5. t \in FileTasks
        BY <3>2, <3>4 DEF FileTasks, FileOperation
      <3>6. Longer(tasks', tasks, t)
        BY <2>2, <3>1, <3>2 DEF OpenLink, Longer
      <3>7. t \in Tasks /\ ~IsListing(t)
        BY <3>5, KindLemma DEF Tasks
      <3>8. /\ tasks' \in Seq(Tasks) /\ (Single(tasks) => Single(tasks'))
            /\ NoListing(tasks) => NoListing(tasks')
            /\ Range(tasks') = Range(tasks) \cup {t}
        BY <1>4, <3>6, <3>7, AppendLemma
      <3> QED
        BY <3>5, <3>8
    <2> QED
      BY <1>2, <2>1, <2>2
  <1>6. PICK T \in SUBSET FileTasks : Range(tasks') = Range(tasks) \cup T
    BY <1>5
  <1>7. \A t \in T : ~IsListing(t)
    BY <1>6, KindLemma
  <1>8. Outstanding' \subseteq Outstanding
        /\ \A t \in Outstanding : t # e => t \in Outstanding'
    BY <1>3, <1>6, <1>7 DEF Outstanding, IsListing
  <1>9. Typed'
    BY <1>2, <1>3, <1>4, <1>5 DEF Typed, Excuse
  <1>10. BeforeOpening' /\ Modes'
    BY <1>2, <1>4, <1>8 DEF BrowserInv, BeforeOpening, Modes
  <1>11. FallbacksAreAwaited' /\ ViewInv'
    BY <1>2, <1>8 DEF BrowserInv, FallbacksAreAwaited, ViewInv
  <1>12. HistoryInv'
    BY <1>2, <1>3, <1>5, <1>8 DEF BrowserInv, HistoryInv
  <1> QED
    BY <1>9, <1>10, <1>11, <1>12 DEF BrowserInv

\* An operation is complete, and the folder read again.
LEMMA OperationCompletedInv ==
  ASSUME BrowserInv, OperationCompleted
  PROVE  BrowserInv'
  <1>1. PICK e : e = Event
    OBVIOUS
  <1>2. /\ posted # <<>> /\ posted' = Tail(posted) /\ e.kind = "completed"
        /\ UNCHANGED <<connection, path, current, back, forward, fallbacks, dialog>>
    BY <1>1 DEF OperationCompleted
  <1>3. /\ posted' \in Seq(PostedEvents) /\ Range(posted) = Range(posted') \cup {e}
        /\ Single(posted) => Single(posted')
        /\ NoListing(posted) => NoListing(posted')
        /\ ~IsListing(e) => connection # None
    BY <1>1, <1>2, EventLemma
  <1>4. ~IsListing(e) /\ connection # None
    BY <1>2, <1>3 DEF IsListing, Listings
  <1>5. Typed /\ tasks \in Seq(Tasks) /\ posted \in Seq(PostedEvents) /\ path \in Path
    BY DEF BrowserInv, Typed
  <1>6. CASE ~e.refresh
    <2>1. UNCHANGED <<tasks, excuses>>
      BY <1>1, <1>6 DEF OperationCompleted
    <2>2. Outstanding' = Outstanding
      BY <1>3, <1>4, <2>1 DEF Outstanding, IsListing
    <2>3. Typed'
      BY <1>2, <1>3, <1>5, <2>1 DEF Typed
    <2>4. BeforeOpening' /\ Modes' /\ FallbacksAreAwaited'
      BY <1>2, <1>4, <2>1, <2>2 DEF BrowserInv, BeforeOpening, Modes, FallbacksAreAwaited
    <2>5. ViewInv'
      <3>1. Pending(tasks, posted) => Pending(tasks', posted')
        BY <1>2, <1>3, <1>6, <2>1 DEF Pending
      <3> QED
        BY <1>2, <2>1, <2>2, <3>1 DEF BrowserInv, ViewInv
    <2>6. HistoryInv'
      BY <1>2, <1>3, <2>1, <2>2 DEF BrowserInv, HistoryInv
    <2> QED
      BY <2>3, <2>4, <2>5, <2>6 DEF BrowserInv
  <1>7. CASE e.refresh
    <2>1. RequestDirectory(path, "replace")
      BY <1>1, <1>7 DEF OperationCompleted
    <2>2. PICK t : /\ Asking(t) /\ t.kind = "list" /\ t.place[2] = path
                   /\ t.mode = "replace" /\ t.previous = path
      BY <1>2, <1>4, <1>5, <2>1, RequestDirectoryLemma
    <2>3. /\ t \in ListingTasks /\ t.got = "nothing" /\ t.place[1] # None
          /\ Longer(tasks', tasks, t)
          /\ excuses' = excuses \cup (IF Outstanding # {} THEN {"overlap"} ELSE {})
      BY <2>2 DEF Asking, Longer
    <2>4. t \in Tasks /\ IsListing(t)
      BY <2>3, KindLemma DEF Tasks
    <2>5. /\ tasks' \in Seq(Tasks) /\ Range(tasks') = Range(tasks) \cup {t}
          /\ Single(tasks) /\ NoListing(tasks) => Single(tasks')
      BY <1>5, <2>3, <2>4, AppendLemma
    <2>6. Outstanding' = Outstanding \cup {t}
      BY <1>3, <1>4, <2>4, <2>5 DEF Outstanding, IsListing
    <2>7. excuses \subseteq excuses' /\ ("overlap" \notin excuses' => Outstanding = {})
      BY <2>3
    <2>8. Typed'
      <3>1. excuses' \subseteq Excuse
        BY <1>5, <2>3 DEF Typed, Excuse
      <3> QED
        BY <1>2, <1>3, <1>5, <2>5, <3>1 DEF Typed
    <2>9. BeforeOpening' /\ Modes' /\ FallbacksAreAwaited'
      BY <1>2, <1>4, <2>2, <2>3, <2>6, <2>7
         DEF BrowserInv, BeforeOpening, Modes, FallbacksAreAwaited
    <2>10. ViewInv'
      <3>1. excuses' = {} => Outstanding = {}
        BY <2>7
      <3> QED
        BY <2>3, <2>6, <3>1 DEF ViewInv
    <2>11. HistoryInv'
      <3> SUFFICES ASSUME "overlap" \notin excuses'
                   PROVE  /\ Single(tasks') /\ Single(posted')
                          /\ NoListing(tasks') \/ NoListing(posted')
                          /\ \A u \in Outstanding' : Fits(u, back', path', forward')
                          /\ Adjacent(back', path', forward')
        BY DEF HistoryInv
      <3>1. "overlap" \notin excuses /\ Outstanding = {}
        BY <2>7
      <3>2. NoListing(tasks) /\ NoListing(posted)
        BY <1>5, <3>1, RangeLemma DEF Outstanding, IsListing
      <3>3. Single(tasks) /\ Single(posted) /\ Adjacent(back, path, forward)
        BY <3>1 DEF BrowserInv, HistoryInv
      <3>4. Fits(t, back, path, forward)
        BY <2>2 DEF Fits
      <3> QED
        BY <1>2, <1>3, <2>5, <2>6, <3>1, <3>2, <3>3, <3>4
    <2> QED
      BY <2>8, <2>9, <2>10, <2>11 DEF BrowserInv
  <1> QED
    BY <1>6, <1>7

-----------------------------------------------------------------------------
(* Back, forward and visits. *)

\* What applying an answer does to the stack b, the folder p and the stack f,
\* as long as the answer fits them.
Move(b, p, f, b2, p2, f2) ==
  \/ p2 # p /\ b2 = Append(b, p) /\ f2 = <<>>
  \/ b # <<>> /\ p2 = Last(b) /\ b2 = Front(b) /\ f2 = Append(f, p)
  \/ f # <<>> /\ p2 = Last(f) /\ b2 = Append(b, p) /\ f2 = Front(f)
  \/ p2 = p /\ b2 = b /\ f2 = f

\* A stack is what is below its top, and then its top.
LEMMA TopLemma ==
  ASSUME NEW S, NEW s \in Seq(S), s # <<>>
  PROVE  /\ Front(s) \in Seq(S) /\ Last(s) \in S /\ s = Append(Front(s), Last(s))
         /\ Len(Front(s)) = Len(s) - 1
         /\ \A i \in 1..(Len(s) - 1) : Front(s)[i] = s[i]
  <1>1. Len(s) \in Nat \ {0}
    OBVIOUS
  <1>2. /\ Front(s) \in Seq(S) /\ Len(Front(s)) = Len(s) - 1
        /\ \A i \in 1..(Len(s) - 1) : Front(s)[i] = s[i]
    <2>1. PICK n \in Nat : n = Len(s) - 1
      BY <1>1
    <2>2. \A i \in 1..n : s[i] \in S
      BY <1>1, <2>1
    <2>3. /\ SubSeq(s, 1, n) \in Seq(S)
          /\ Len(SubSeq(s, 1, n)) = IF 1 <= n THEN n - 1 + 1 ELSE 0
          /\ \A i \in 1..(n - 1 + 1) : SubSeq(s, 1, n)[i] = s[1 + i - 1]
      BY <2>2, SubSeqProperties
    <2>4. Len(SubSeq(s, 1, n)) = n /\ \A i \in 1..n : SubSeq(s, 1, n)[i] = s[i]
      BY <2>3
    <2> QED
      BY <2>1, <2>3, <2>4 DEF Front
  <1>3. Last(s) \in S /\ Last(s) = s[Len(s)]
    BY <1>1 DEF Last
  <1>4. /\ Len(Append(Front(s), Last(s))) = Len(s)
        /\ \A i \in 1..Len(s) : Append(Front(s), Last(s))[i] = s[i]
    BY <1>1, <1>2, <1>3
  <1>5. Append(Front(s), Last(s)) \in Seq(S)
    BY <1>2, <1>3
  <1>6. s = Append(Front(s), Last(s))
    BY <1>4, <1>5, SeqEqual
  <1> QED
    BY <1>2, <1>3, <1>6

\* No two neighbours of s are equal, and its last element is not p.
Distinct(s, p) ==
  /\ \A i \in 1..(Len(s) - 1) : s[i] # s[i + 1]
  /\ s # <<>> => s[Len(s)] # p

\* Pushing p and taking the top keep neighbours distinct.
LEMMA DistinctLemma ==
  ASSUME NEW S, NEW s \in Seq(S), NEW p \in S, NEW q \in S, Distinct(s, p)
  PROVE  /\ p # q => Distinct(Append(s, p), q)
         /\ s # <<>> => Distinct(Front(s), Last(s))
  <1>1. Len(s) \in Nat
    OBVIOUS
  <1>2. ASSUME p # q PROVE Distinct(Append(s, p), q)
    <2>1. PICK r : r = Append(s, p)
      OBVIOUS
    <2>2. r \in Seq(S) /\ Len(r) = Len(s) + 1 /\ r[Len(s) + 1] = p
          /\ \A i \in 1..Len(s) : r[i] = s[i]
      BY <2>1
    <2>3. ASSUME NEW i \in 1..(Len(r) - 1) PROVE r[i] # r[i + 1]
      <3>1. CASE i = Len(s)
        <4>1. s # <<>> /\ i \in 1..Len(s)
          BY <1>1, <2>2, <3>1
        <4> QED
          BY <2>2, <3>1, <4>1 DEF Distinct
      <3>2. CASE i # Len(s)
        <4>1. i \in 1..(Len(s) - 1) /\ i \in 1..Len(s) /\ i + 1 \in 1..Len(s)
          BY <1>1, <2>2, <3>2
        <4> QED
          BY <2>2, <4>1 DEF Distinct
      <3> QED
        BY <3>1, <3>2
    <2>4. Distinct(r, q)
      BY <1>2, <2>2, <2>3 DEF Distinct
    <2> QED
      BY <2>1, <2>4
  <1>3. ASSUME s # <<>> PROVE Distinct(Front(s), Last(s))
    <2>1. PICK r : r = Front(s)
      OBVIOUS
    <2>2. /\ r \in Seq(S) /\ Len(r) = Len(s) - 1 /\ Len(s) > 0
          /\ \A i \in 1..(Len(s) - 1) : r[i] = s[i]
      BY <1>1, <1>3, <2>1, TopLemma
    <2>3. \A i \in 1..(Len(r) - 1) : r[i] # r[i + 1]
      <3> SUFFICES ASSUME NEW i \in 1..(Len(r) - 1) PROVE r[i] # r[i + 1]
        OBVIOUS
      <3>1. i \in 1..(Len(s) - 1) /\ i + 1 \in 1..(Len(s) - 1)
        BY <1>1, <2>2
      <3> QED
        BY <2>2, <3>1 DEF Distinct
    <2>4. r # <<>> => r[Len(r)] # Last(s)
      <3> SUFFICES ASSUME r # <<>> PROVE r[Len(r)] # Last(s)
        OBVIOUS
      <3>1. Len(r) \in 1..(Len(s) - 1) /\ Len(r) + 1 = Len(s)
        BY <1>1, <2>2
      <3> QED
        BY <2>2, <3>1 DEF Distinct, Last
    <2>5. Distinct(r, Last(s))
      BY <2>3, <2>4 DEF Distinct
    <2> QED
      BY <2>1, <2>5
  <1> QED
    BY <1>2, <1>3

\* Adjacent, one stack at a time.
LEMMA AdjacentLemma ==
  ASSUME NEW b \in Seq(Path), NEW p \in Path, NEW f \in Seq(Path)
  PROVE  Adjacent(b, p, f) <=> Distinct(b, p) /\ Distinct(f, p)
  BY DEF Adjacent, Distinct, Last

\* A move keeps neighbours distinct.
LEMMA MoveLemma ==
  ASSUME NEW b \in Seq(Path), NEW p \in Path, NEW f \in Seq(Path),
         NEW b2, NEW p2 \in Path, NEW f2, Move(b, p, f, b2, p2, f2), Adjacent(b, p, f)
  PROVE  b2 \in Seq(Path) /\ f2 \in Seq(Path) /\ Adjacent(b2, p2, f2)
  <1>1. Distinct(b, p) /\ Distinct(f, p)
    BY AdjacentLemma
  <1>2. Distinct(<<>>, p2)
    BY DEF Distinct
  <1>3. p2 # p => Distinct(Append(b, p), p2) /\ Distinct(Append(f, p), p2)
    BY <1>1, DistinctLemma
  <1>4. b # <<>> => /\ Front(b) \in Seq(Path) /\ Distinct(Front(b), Last(b))
                    /\ Last(b) # p
    BY <1>1, DistinctLemma, TopLemma DEF Distinct, Last
  <1>5. f # <<>> => /\ Front(f) \in Seq(Path) /\ Distinct(Front(f), Last(f))
                    /\ Last(f) # p
    BY <1>1, DistinctLemma, TopLemma DEF Distinct, Last
  <1>6. /\ b2 \in Seq(Path) /\ f2 \in Seq(Path)
        /\ Distinct(b2, p2) /\ Distinct(f2, p2)
    <2>1. Append(b, p) \in Seq(Path) /\ Append(f, p) \in Seq(Path) /\ <<>> \in Seq(Path)
      OBVIOUS
    <2> QED
      BY <1>1, <1>2, <1>3, <1>4, <1>5, <2>1 DEF Move
  <1> QED
    BY <1>6, AdjacentLemma

\* The stacks stay sequences of folders whatever the answer, and an answer that
\* fits is a move.
LEMMA StacksLemma ==
  ASSUME BrowserInv, NEW e \in ListingTasks, e.kind = "list", e \in Outstanding
  PROVE  /\ Stacks(e)[1] \in Seq(Path) /\ Stacks(e)[2] \in Seq(Path)
         /\ "overlap" \notin excuses =>
              Move(back, path, forward, Stacks(e)[1], e.place[2], Stacks(e)[2])
  <1>1. back \in Seq(Path) /\ forward \in Seq(Path) /\ path \in Path
    BY DEF BrowserInv, Typed
  <1>2. /\ e.previous \in Path /\ e.place[2] \in Path
        /\ e.mode \in {"push", "back", "forward", "replace"}
    BY DEF ListingTasks, Place, BrowserInv, Modes
  <1>3. /\ PushLeft(back, e) \in Seq(Path) /\ PushLeft(forward, e) \in Seq(Path)
        /\ DropLast(back, e.place[2]) \in Seq(Path)
        /\ DropLast(forward, e.place[2]) \in Seq(Path)
    BY <1>1, <1>2, TopLemma DEF PushLeft, DropLast
  <1>4. /\ e.mode = "push" => Stacks(e) = <<PushLeft(back, e), <<>>>>
        /\ e.mode = "back" =>
             Stacks(e) = <<DropLast(back, e.place[2]), PushLeft(forward, e)>>
        /\ e.mode = "forward" =>
             Stacks(e) = <<PushLeft(back, e), DropLast(forward, e.place[2])>>
        /\ e.mode = "replace" => Stacks(e) = <<back, forward>>
    BY DEF Stacks
  <1>5. Stacks(e)[1] \in Seq(Path) /\ Stacks(e)[2] \in Seq(Path)
    <2>0. <<>> \in Seq(Path)
      OBVIOUS
    <2>1. PICK empty \in Seq(Path) : empty = <<>>
      BY <2>0, Zenon
    <2>2. CASE e.mode = "push"
      <3>1. Stacks(e) = <<PushLeft(back, e), empty>>
        BY <1>4, <2>1, <2>2
      <3> QED
        BY <1>3, <3>1
    <2>3. CASE e.mode = "back"
      BY <1>3, <1>4, <2>3
    <2>4. CASE e.mode = "forward"
      BY <1>3, <1>4, <2>4
    <2>5. CASE e.mode = "replace"
      BY <1>1, <1>4, <2>5
    <2> QED
      BY <1>2, <2>2, <2>3, <2>4, <2>5
  <1>6. ASSUME "overlap" \notin excuses
        PROVE  Move(back, path, forward, Stacks(e)[1], e.place[2], Stacks(e)[2])
    <2>1. Fits(e, back, path, forward) /\ Adjacent(back, path, forward)
      BY <1>6 DEF BrowserInv, HistoryInv
    <2>2. CASE e.mode = "push"
      BY <1>4, <2>1, <2>2 DEF Move, Fits, PushLeft
    <2>3. CASE e.mode = "back"
      BY <1>4, <2>1, <2>3 DEF Move, Fits, PushLeft, DropLast, Adjacent
    <2>4. CASE e.mode = "forward"
      BY <1>4, <2>1, <2>4 DEF Move, Fits, PushLeft, DropLast, Adjacent
    <2>5. CASE e.mode = "replace"
      BY <1>4, <2>1, <2>5 DEF Move, Fits
    <2> QED
      BY <1>2, <2>2, <2>3, <2>4, <2>5
  <1> QED
    BY <1>5, <1>6

\* The widget takes the answer e, with stacks that fit a history unless answers
\* have overlapped.
ShowStep(e) ==
  /\ posted # <<>> /\ e = Event /\ IsListing(e) /\ e.got = "entries"
  /\ connection' = e.place[1] /\ path' = e.place[2] /\ current' = e.current
  /\ back' \in Seq(Path) /\ forward' \in Seq(Path)
  /\ "overlap" \notin excuses => Adjacent(back', path', forward')
  /\ \/ fallbacks' = {}
     \/ e.kind = "list" /\ fallbacks' = fallbacks \ {e.place[2]}
  /\ posted' = Tail(posted)
  /\ UNCHANGED <<dialog, tasks, excuses>>

\* setDirectory is such a step.
LEMMA SetDirectoryLemma ==
  ASSUME SetDirectory
  PROVE  \E e : ShowStep(e)
  <1>1. PICK e : e = Event
    OBVIOUS
  <1>2. /\ posted # <<>> /\ IsListing(e) /\ e.got = "entries"
        /\ connection' = e.place[1] /\ path' = e.place[2] /\ current' = e.current
        /\ back' = <<>> /\ forward' = <<>> /\ fallbacks' = {} /\ posted' = Tail(posted)
        /\ UNCHANGED <<dialog, tasks, excuses>>
    BY <1>1 DEF SetDirectory, IsListing, Listings
  <1>3. Adjacent(back', path', forward') /\ back' \in Seq(Path) /\ forward' \in Seq(Path)
    BY <1>2 DEF Adjacent
  <1> QED
    BY <1>1, <1>2, <1>3 DEF ShowStep

\* So is applyDirectory, and what it does to the stacks is a move.
LEMMA ApplyDirectoryLemma ==
  ASSUME BrowserInv, ApplyDirectory
  PROVE  \E e : /\ ShowStep(e) /\ e.place[1] # None
                /\ "overlap" \notin excuses =>
                     Move(back, path, forward, back', path', forward')
  <1>1. PICK e : e = Event
    OBVIOUS
  <1>2. /\ posted # <<>> /\ e.kind = "list" /\ e.got = "entries"
        /\ connection' = e.place[1] /\ path' = e.place[2] /\ current' = e.current
        /\ back' = Stacks(e)[1] /\ forward' = Stacks(e)[2]
        /\ fallbacks' = fallbacks \ {e.place[2]} /\ posted' = Tail(posted)
        /\ UNCHANGED <<dialog, tasks, excuses>>
    BY <1>1 DEF ApplyDirectory
  <1>3. IsListing(e)
    BY <1>2 DEF IsListing, Listings
  <1>4. e \in Outstanding /\ e \in ListingTasks
    BY <1>1, <1>2, <1>3, EventLemma
  <1>5. e.place[1] # None /\ e.place[2] \in Path
    BY <1>4 DEF BrowserInv, Modes, ListingTasks, Place
  <1>6. /\ back' \in Seq(Path) /\ forward' \in Seq(Path)
        /\ "overlap" \notin excuses =>
             Move(back, path, forward, back', path', forward')
    BY <1>2, <1>4, StacksLemma
  <1>7. "overlap" \notin excuses => Adjacent(back', path', forward')
    <2> SUFFICES ASSUME "overlap" \notin excuses PROVE Adjacent(back', path', forward')
      OBVIOUS
    <2>1. Adjacent(back, path, forward) /\ path' \in Path
          /\ back \in Seq(Path) /\ path \in Path /\ forward \in Seq(Path)
      BY <1>2, <1>5 DEF BrowserInv, HistoryInv, Typed
    <2> QED
      BY <1>6, <2>1, MoveLemma
  <1>8. ShowStep(e)
    BY <1>1, <1>2, <1>3, <1>6, <1>7 DEF ShowStep
  <1> QED
    BY <1>5, <1>6, <1>8

\* The widget shows an answer.
LEMMA ShowInv ==
  ASSUME BrowserInv, NEW e, ShowStep(e)
  PROVE  BrowserInv'
  <1>1. /\ posted # <<>> /\ e = Event /\ IsListing(e) /\ e.got = "entries"
        /\ connection' = e.place[1] /\ path' = e.place[2] /\ current' = e.current
        /\ back' \in Seq(Path) /\ forward' \in Seq(Path)
        /\ "overlap" \notin excuses => Adjacent(back', path', forward')
        /\ posted' = Tail(posted)
        /\ UNCHANGED <<dialog, tasks, excuses>>
    BY DEF ShowStep
  <1>2. \/ fallbacks' = {}
        \/ e.kind = "list" /\ fallbacks' = fallbacks \ {e.place[2]}
    BY DEF ShowStep
  <1>3. /\ posted' \in Seq(PostedEvents) /\ Range(posted) = Range(posted') \cup {e}
        /\ Single(posted) => Single(posted') /\ NoListing(posted')
        /\ NoListing(posted) => ~IsListing(e)
        /\ e \in Outstanding /\ e \in ListingTasks
    BY <1>1, EventLemma
  <1>4. Typed /\ tasks \in Seq(Tasks) /\ e.place[1] # None
    BY <1>3 DEF BrowserInv, Typed, Modes
  <1>5. /\ Outstanding' \subseteq Outstanding
        /\ \A t \in Outstanding : t # e => t \in Outstanding'
    BY <1>1, <1>3 DEF Outstanding
  <1>6. Typed'
    <2>1. e.place[1] \in Connections /\ e.place[2] \in Path /\ e.current \in BOOLEAN
      BY <1>3 DEF ListingTasks, Place, Connections
    <2>2. fallbacks' \subseteq Path
      BY <1>2, <1>4 DEF Typed
    <2> QED
      BY <1>1, <1>3, <1>4, <2>1, <2>2 DEF Typed
  <1>7. BeforeOpening' /\ Modes'
    BY <1>1, <1>4, <1>5 DEF BrowserInv, BeforeOpening, Modes
  <1>8. FallbacksAreAwaited'
    BY <1>1, <1>2, <1>5 DEF BrowserInv, FallbacksAreAwaited
  <1>9. ViewInv'
    <2>1. Pending(tasks, posted) => Pending(tasks', posted')
      BY <1>1, <1>3 DEF Pending, IsListing, Listings
    <2>2. CASE ~Pending(tasks, posted) /\ excuses = {}
      <3>1. \A t \in Outstanding : t.got = "entries" => t.current
        BY <2>2 DEF BrowserInv, ViewInv
      <3>2. current'
        BY <1>1, <1>3, <3>1
      <3> QED
        BY <1>5, <3>1, <3>2 DEF ViewInv
    <2> QED
      BY <1>1, <2>1, <2>2 DEF ViewInv
  <1>10. HistoryInv'
    <2> SUFFICES ASSUME "overlap" \notin excuses'
                 PROVE  /\ Single(tasks') /\ Single(posted')
                        /\ NoListing(tasks') \/ NoListing(posted')
                        /\ \A u \in Outstanding' : Fits(u, back', path', forward')
                        /\ Adjacent(back', path', forward')
      BY DEF HistoryInv
    <2>1. /\ Single(tasks) /\ Single(posted) /\ (NoListing(tasks) \/ NoListing(posted))
          /\ Adjacent(back', path', forward')
      BY <1>1 DEF BrowserInv, HistoryInv
    <2>2. NoListing(tasks') /\ NoListing(posted') /\ Single(tasks') /\ Single(posted')
      BY <1>1, <1>3, <2>1
    <2>3. Outstanding' = {}
      <3>1. /\ \A x \in Range(tasks') : ~IsListing(x)
            /\ \A x \in Range(posted') : ~IsListing(x)
        BY <1>1, <1>3, <1>4, <2>2, RangeLemma
      <3> QED
        BY <3>1 DEF Outstanding, IsListing
    <2> QED
      BY <2>1, <2>2, <2>3
  <1> QED
    BY <1>6, <1>7, <1>8, <1>9, <1>10 DEF BrowserInv

-----------------------------------------------------------------------------
(* The invariant holds. *)

\* The invariant holds at the start.
LEMMA BrowserInit ==
  ASSUME Init
  PROVE  BrowserInv
  <1>1. /\ connection = None /\ back = <<>> /\ forward = <<>> /\ fallbacks = {}
        /\ dialog = None /\ tasks = <<>> /\ posted = <<>> /\ excuses = {}
        /\ current = FALSE /\ path \in Path
    BY TreeAssumption DEF Init
  <1>2. Range(tasks) = {} /\ Range(posted) = {}
    BY <1>1 DEF Range
  <1>3. Outstanding = {}
    BY <1>2 DEF Outstanding
  <1>4. Typed
    <2>1. /\ tasks \in Seq(Tasks) /\ posted \in Seq(PostedEvents)
          /\ back \in Seq(Path) /\ forward \in Seq(Path)
      BY <1>1
    <2>2. /\ connection \in Connections /\ current \in BOOLEAN /\ fallbacks \subseteq Path
          /\ dialog \in [kind : Prompted, asked : Place] \cup {None} /\ excuses \subseteq Excuse
      BY <1>1 DEF Connections
    <2> QED
      BY <1>1, <2>1, <2>2 DEF Typed
  <1>5. BeforeOpening /\ Modes /\ FallbacksAreAwaited /\ ViewInv
    BY <1>1, <1>2, <1>3 DEF BeforeOpening, Modes, FallbacksAreAwaited, ViewInv
  <1>6. HistoryInv
    <2>1. DOMAIN tasks = {} /\ DOMAIN posted = {} /\ Len(back) = 0 /\ Len(forward) = 0
      BY <1>1
    <2> QED
      BY <1>1, <1>3, <2>1 DEF HistoryInv, Single, NoListing, Adjacent
  <1> QED
    BY <1>4, <1>5, <1>6 DEF BrowserInv

\* Every step preserves it.
LEMMA BrowserStep ==
  ASSUME BrowserInv, [Next]_vars
  PROVE  BrowserInv'
  <1>0. Typed /\ BeforeOpening
    BY DEF BrowserInv
  <1>1. CASE User
    BY <1>0, <1>1, UserLemma, AskInv, BeginInv, QuietInv
  <1>2. CASE Pool
    <2>1. PICK i \in DOMAIN tasks : Read(i) \/ Report(i) \/ Operate(i) \/ OperationEnds(i)
      BY <1>2 DEF Pool, Running
    <2>2. CASE Read(i) \/ Operate(i)
      BY <1>0, <2>2, ReadLemma, OperateLemma, ChangeInv
    <2> QED
      BY <2>1, <2>2, ReportInv, OperationEndsInv
  <1>3. CASE Events
    BY <1>3, SetDirectoryLemma, ApplyDirectoryLemma, ShowInv, FailedInv, DeliverFailureInv,
       OperationCompletedInv DEF Events
  <1>4. CASE \E i \in DOMAIN tasks : Abandon(i)
    BY <1>4, AbandonInv
  <1>5. CASE UNCHANGED vars
    <2>1. QuietStep
      BY <1>0, <1>5 DEF vars, QuietStep, Typed
    <2> QED
      BY <2>1, QuietInv
  <1> QED
    BY <1>1, <1>2, <1>3, <1>4, <1>5 DEF Next, Finished

\* What the widget shows, what it has asked for and what it waits for agree:
\* the conjunction the three properties below rest on.
THEOREM BrowserInvariant == Spec => []BrowserInv
  <1>1. Init => BrowserInv
    BY BrowserInit
  <1>2. BrowserInv /\ [Next]_vars => BrowserInv'
    BY BrowserStep
  <1> QED
    BY <1>1, <1>2, PTL DEF Spec

\* m_pendingSymlinkFileFallbacks: unless a listing was cancelled before it
\* started, a link's entry is kept only while a listing of the link is under
\* way, so that no later failure of a folder opens a file in its place.
THEOREM FallbacksAwaited == Spec => []FallbacksAreAwaited
  <1>1. BrowserInv => FallbacksAreAwaited
    BY DEF BrowserInv
  <1> QED
    BY <1>1, BrowserInvariant, PTL

\* Once everything asked for has been answered, the entries in m_model are those
\* the folder has, unless answers overlapped, a listing never started or something
\* failed.
THEOREM ViewsAreCurrent == Spec => []ViewIsCurrent
  <1>1. BrowserInv => ViewIsCurrent
    <2> SUFFICES ASSUME BrowserInv, tasks = <<>>, posted = <<>>, connection # None,
                        excuses = {}
                 PROVE  current
      BY DEF ViewIsCurrent
    <2>1. Range(tasks) = {} /\ Range(posted) = {}
      BY DEF Range
    <2>2. Outstanding = {} /\ ~Pending(tasks, posted)
      BY <2>1 DEF Outstanding, Pending
    <2> QED
      BY <2>2 DEF BrowserInv, ViewInv
  <1> QED
    BY <1>1, BrowserInvariant, PTL

-----------------------------------------------------------------------------
(* Back and forward keep a browsing history. *)

\* The folders in the order they were visited, as two stacks and the folder
\* between them keep them.
Trail(b, p, f) == b \o <<p>> \o Reverse(f)

\* The folder at position i of the trail.
At(b, p, f, i) ==
  IF i <= Len(b) THEN b[i]
  ELSE IF i = Len(b) + 1 THEN p ELSE f[Len(f) + Len(b) + 2 - i]

\* The trail, position by position.
LEMMA TrailLemma ==
  ASSUME NEW b \in Seq(Path), NEW p \in Path, NEW f \in Seq(Path)
  PROVE  /\ Trail(b, p, f) \in Seq(Path) /\ Len(Trail(b, p, f)) = Len(b) + 1 + Len(f)
         /\ \A i \in 1..(Len(b) + 1 + Len(f)) : Trail(b, p, f)[i] = At(b, p, f, i)
  <1>1. Len(b) \in Nat /\ Len(f) \in Nat
    OBVIOUS
  <1>2. PICK r : r = Reverse(f)
    OBVIOUS
  <1>3. /\ r \in Seq(Path) /\ Len(r) = Len(f)
        /\ \A i \in 1..Len(f) : r[i] = f[Len(f) - i + 1]
    <2>1. r = [i \in 1..Len(f) |-> f[Len(f) - i + 1]]
      BY <1>2 DEF Reverse
    <2>2. \A i \in 1..Len(f) : f[Len(f) - i + 1] \in Path
      <3>1. \A i \in 1..Len(f) : Len(f) - i + 1 \in 1..Len(f)
        BY <1>1
      <3> QED
        BY <3>1
    <2>3. PICK n \in Nat : n = Len(f)
      BY <1>1
    <2>4. r \in [1..n -> Path]
      BY <2>1, <2>2, <2>3
    <2>5. r \in Seq(Path) /\ Len(r) = n
      BY <2>4
    <2> QED
      BY <2>1, <2>3, <2>5
  <1>4. PICK m : m = b \o <<p>>
    OBVIOUS
  <1>5. /\ m \in Seq(Path) /\ Len(m) = Len(b) + 1 /\ m[Len(b) + 1] = p
        /\ \A i \in 1..Len(b) : m[i] = b[i]
    <2>1. m = Append(b, p)
      BY <1>4
    <2> QED
      BY <1>1, <2>1
  <1>6. PICK t : t = m \o r
    OBVIOUS
  <1>7. /\ t \in Seq(Path) /\ Len(t) = Len(m) + Len(r)
        /\ \A i \in 1..(Len(m) + Len(r)) :
             t[i] = IF i <= Len(m) THEN m[i] ELSE r[i - Len(m)]
    <2>1. m \in Seq(Path) /\ r \in Seq(Path)
      BY <1>3, <1>5
    <2>2. /\ m \o r \in Seq(Path) /\ Len(m \o r) = Len(m) + Len(r)
          /\ \A i \in 1..(Len(m) + Len(r)) :
               (m \o r)[i] = IF i <= Len(m) THEN m[i] ELSE r[i - Len(m)]
      BY <2>1, ConcatProperties
    <2> QED
      BY <1>6, <2>2, Zenon
  <1>8. ASSUME NEW i \in 1..(Len(b) + 1 + Len(f)) PROVE t[i] = At(b, p, f, i)
    <2>1. CASE i <= Len(b)
      BY <1>1, <1>3, <1>5, <1>7, <2>1 DEF At
    <2>2. CASE i = Len(b) + 1
      BY <1>1, <1>3, <1>5, <1>7, <2>2 DEF At
    <2>3. CASE i > Len(b) + 1
      <3>1. /\ i \in 1..(Len(m) + Len(r)) /\ ~(i <= Len(m))
            /\ i - Len(m) \in 1..Len(f)
            /\ Len(f) - (i - Len(m)) + 1 = Len(f) + Len(b) + 2 - i
        BY <1>1, <1>3, <1>5, <2>3
      <3>2. t[i] = r[i - Len(m)]
        BY <1>7, <3>1
      <3>3. r[i - Len(m)] = f[Len(f) + Len(b) + 2 - i]
        BY <1>3, <3>1
      <3>4. At(b, p, f, i) = f[Len(f) + Len(b) + 2 - i]
        BY <1>1, <2>3 DEF At
      <3> QED
        BY <3>2, <3>3, <3>4
    <2> QED
      BY <1>1, <2>1, <2>2, <2>3
  <1>9. Trail(b, p, f) = t
    BY <1>2, <1>4, <1>6 DEF Trail
  <1> QED
    BY <1>3, <1>5, <1>7, <1>8, <1>9

\* Moving the folder shown onto one stack and the top of the other into its
\* place leaves the trail alone.
LEMMA ShiftLemma ==
  ASSUME NEW b \in Seq(Path), NEW q \in Path, NEW p \in Path, NEW f \in Seq(Path)
  PROVE  Trail(Append(b, q), p, f) = Trail(b, q, Append(f, p))
  <1>1. Len(b) \in Nat /\ Len(f) \in Nat
    OBVIOUS
  <1>2. PICK c \in Seq(Path) : c = Append(b, q)
    <2>1. Append(b, q) \in Seq(Path)
      OBVIOUS
    <2> QED
      BY <2>1, Zenon
  <1>3. PICK g \in Seq(Path) : g = Append(f, p)
    <2>1. Append(f, p) \in Seq(Path)
      OBVIOUS
    <2> QED
      BY <2>1, Zenon
  <1>4. /\ Len(c) = Len(b) + 1 /\ c[Len(b) + 1] = q
        /\ \A i \in 1..Len(b) : c[i] = b[i]
    BY <1>2
  <1>5. /\ Len(g) = Len(f) + 1 /\ g[Len(f) + 1] = p
        /\ \A i \in 1..Len(f) : g[i] = f[i]
    BY <1>3
  <1>6. /\ Trail(c, p, f) \in Seq(Path) /\ Len(Trail(c, p, f)) = Len(c) + 1 + Len(f)
        /\ \A i \in 1..(Len(c) + 1 + Len(f)) : Trail(c, p, f)[i] = At(c, p, f, i)
    BY TrailLemma
  <1>7. /\ Trail(b, q, g) \in Seq(Path) /\ Len(Trail(b, q, g)) = Len(b) + 1 + Len(g)
        /\ \A i \in 1..(Len(b) + 1 + Len(g)) : Trail(b, q, g)[i] = At(b, q, g, i)
    BY TrailLemma
  <1>8. ASSUME NEW i \in 1..(Len(b) + 2 + Len(f)) PROVE At(c, p, f, i) = At(b, q, g, i)
    <2>1. CASE i <= Len(b)
      BY <1>1, <1>4, <2>1 DEF At
    <2>2. CASE i = Len(b) + 1
      BY <1>1, <1>4, <2>2 DEF At
    <2>3. CASE i = Len(b) + 2
      <3>1. At(c, p, f, i) = p
        BY <1>1, <1>4, <2>3 DEF At
      <3>2. At(b, q, g, i) = g[Len(g) + Len(b) + 2 - i]
        BY <1>1, <2>3 DEF At
      <3>3. Len(g) + Len(b) + 2 - i = Len(f) + 1
        BY <1>1, <1>5, <2>3
      <3> QED
        BY <1>5, <3>1, <3>2, <3>3
    <2>4. CASE i > Len(b) + 2
      <3>1. PICK k : k = Len(f) + Len(b) + 3 - i
        OBVIOUS
      <3>2. /\ k \in 1..Len(f) /\ Len(f) + Len(c) + 2 - i = k
            /\ Len(g) + Len(b) + 2 - i = k
        BY <1>1, <1>4, <1>5, <2>4, <3>1
      <3>3. At(c, p, f, i) = f[k]
        BY <1>1, <1>4, <2>4, <3>2 DEF At
      <3>4. At(b, q, g, i) = g[k]
        BY <1>1, <2>4, <3>2 DEF At
      <3> QED
        BY <1>5, <3>2, <3>3, <3>4
    <2>5. i <= Len(b) \/ i = Len(b) + 1 \/ i = Len(b) + 2 \/ i > Len(b) + 2
      <3>1. \A n, k \in Nat : k <= n \/ k = n + 1 \/ k = n + 2 \/ k > n + 2
        OBVIOUS
      <3>2. i \in Nat
        BY <1>1
      <3> QED
        BY <1>1, <3>1, <3>2
    <2> QED
      BY <2>1, <2>2, <2>3, <2>4, <2>5, Zenon
  <1>9. Len(c) + 1 + Len(f) = Len(b) + 2 + Len(f) /\ Len(b) + 1 + Len(g) = Len(b) + 2 + Len(f)
    BY <1>1, <1>4, <1>5
  <1>10. Trail(c, p, f) = Trail(b, q, g)
    <2>1. /\ Len(Trail(c, p, f)) = Len(Trail(b, q, g))
          /\ \A i \in 1..Len(Trail(c, p, f)) : Trail(c, p, f)[i] = Trail(b, q, g)[i]
      BY <1>6, <1>7, <1>8, <1>9
    <2> QED
      BY <1>6, <1>7, <2>1, SeqEqual
  <1> QED
    BY <1>2, <1>3, <1>10

\* Nothing but an answer moves the widget.
LEMMA OnlyAnswersMove ==
  ASSUME BrowserInv, [Next]_vars
  PROVE  SetDirectory \/ ApplyDirectory \/ UNCHANGED <<connection, path, back, forward>>
  <1>0. Typed /\ BeforeOpening
    BY DEF BrowserInv
  <1>1. CASE User
    <2>1. \A t : AskStep(t) => UNCHANGED <<connection, path, back, forward>>
      BY DEF AskStep, Asking
    <2>2. \A t : BeginStep(t) => UNCHANGED <<connection, path, back, forward>>
      BY DEF BeginStep
    <2> QED
      BY <1>0, <1>1, <2>1, <2>2, UserLemma DEF QuietStep
  <1>2. CASE Pool
    <2>1. PICK i \in DOMAIN tasks : Read(i) \/ Report(i) \/ Operate(i) \/ OperationEnds(i)
      BY <1>2 DEF Pool, Running
    <2>2. CASE Operate(i)
      BY <1>0, <2>2, OperateLemma DEF ChangeStep
    <2> QED
      BY <2>1, <2>2 DEF Read, Report, OperationEnds
  <1>3. CASE Events
    BY <1>3 DEF Events, OpenFailed, DeliverFailure, OperationCompleted, OperationFailed
  <1>4. CASE \E i \in DOMAIN tasks : Abandon(i)
    BY <1>4 DEF Abandon
  <1>5. CASE UNCHANGED vars
    BY <1>5 DEF vars
  <1> QED
    BY <1>1, <1>2, <1>3, <1>4, <1>5 DEF Next, Finished

\* The step a move is of the browsing history with the trail t and cursor c.
HistoryStep(t, c, t2, c2) ==
  \/ \E p \in Path : t2 = <<p>> /\ c2 = 1
  \/ \E p \in Path : /\ c > 0 /\ p # t[c] /\ t2 = Append(SubSeq(t, 1, c), p)
                     /\ c2 = c + 1
  \/ c > 1 /\ c2 = c - 1 /\ t2 = t
  \/ c < Len(t) /\ c2 = c + 1 /\ t2 = t
  \/ t2 = t /\ c2 = c

\* The trail when nothing is ahead.
LEMMA EmptyTrail ==
  ASSUME NEW b \in Seq(Path), NEW p \in Path
  PROVE  Trail(b, p, <<>>) = Append(b, p)
  <1>0. <<>> \in Seq(Path) /\ Len(<<>>) = 0 /\ Len(b) \in Nat
    OBVIOUS
  <1>1. PICK e \in Seq(Path) : e = <<>>
    BY <1>0, Zenon
  <1>2. Len(e) = 0
    BY <1>0, <1>1
  <1>3. /\ Trail(b, p, e) \in Seq(Path) /\ Len(Trail(b, p, e)) = Len(b) + 1 + Len(e)
        /\ \A i \in 1..(Len(b) + 1 + Len(e)) : Trail(b, p, e)[i] = At(b, p, e, i)
    BY TrailLemma
  <1>4. /\ Append(b, p) \in Seq(Path) /\ Len(Append(b, p)) = Len(b) + 1
        /\ \A i \in 1..(Len(b) + 1) : Append(b, p)[i] = IF i <= Len(b) THEN b[i] ELSE p
    BY <1>0
  <1>5. \A i \in 1..(Len(b) + 1) : At(b, p, e, i) = IF i <= Len(b) THEN b[i] ELSE p
    BY <1>0 DEF At
  <1>6. /\ Len(Trail(b, p, e)) = Len(Append(b, p))
        /\ \A i \in 1..Len(Trail(b, p, e)) : Trail(b, p, e)[i] = Append(b, p)[i]
    BY <1>0, <1>2, <1>3, <1>4, <1>5
  <1>7. Trail(b, p, e) = Append(b, p)
    BY <1>3, <1>4, <1>6, SeqEqual
  <1> QED
    BY <1>1, <1>7

\* A move through the stacks is a step of the browsing history.
LEMMA MoveIsHistory ==
  ASSUME NEW b \in Seq(Path), NEW p \in Path, NEW f \in Seq(Path),
         NEW b2 \in Seq(Path), NEW p2 \in Path, NEW f2 \in Seq(Path),
         Move(b, p, f, b2, p2, f2)
  PROVE  HistoryStep(Trail(b, p, f), Len(b) + 1, Trail(b2, p2, f2), Len(b2) + 1)
  <1>1. Len(b) \in Nat /\ Len(f) \in Nat
    OBVIOUS
  <1>2. PICK t : t = Trail(b, p, f)
    OBVIOUS
  <1>3. /\ t \in Seq(Path) /\ Len(t) = Len(b) + 1 + Len(f)
        /\ \A i \in 1..(Len(b) + 1 + Len(f)) : t[i] = At(b, p, f, i)
    BY <1>2, TrailLemma
  <1>4. CASE p2 # p /\ b2 = Append(b, p) /\ f2 = <<>>
    <2>1. PICK c \in Nat : c = Len(b) + 1
      BY <1>1
    <2>2. t[c] = p /\ c > 0 /\ c <= Len(t)
      BY <1>1, <1>3, <2>1 DEF At
    <2>3. SubSeq(t, 1, c) = b2
      <3>1. \A i \in 1..c : t[i] \in Path
        BY <1>3, <2>2
      <3>2. /\ SubSeq(t, 1, c) \in Seq(Path)
            /\ Len(SubSeq(t, 1, c)) = IF 1 <= c THEN c - 1 + 1 ELSE 0
            /\ \A i \in 1..(c - 1 + 1) : SubSeq(t, 1, c)[i] = t[1 + i - 1]
        BY <3>1, SubSeqProperties
      <3>3. Len(SubSeq(t, 1, c)) = c /\ \A i \in 1..c : SubSeq(t, 1, c)[i] = t[i]
        BY <2>2, <3>2
      <3>4. \A i \in 1..c : t[i] = IF i <= Len(b) THEN b[i] ELSE p
        BY <1>1, <1>3, <2>1 DEF At
      <3>5. /\ Len(b2) = c
            /\ \A i \in 1..c : b2[i] = IF i <= Len(b) THEN b[i] ELSE p
        BY <1>1, <1>4, <2>1
      <3>6. \A i \in 1..Len(b2) : SubSeq(t, 1, c)[i] = b2[i]
        BY <3>3, <3>4, <3>5
      <3> QED
        BY <3>2, <3>3, <3>5, <3>6, SeqEqual
    <2>4. Trail(b2, p2, f2) = Append(b2, p2)
      BY <1>4, EmptyTrail
    <2>5. Len(b2) = c
      BY <1>4, <2>1
    <2> QED
      BY <1>2, <1>4, <2>1, <2>2, <2>3, <2>4, <2>5 DEF HistoryStep
  <1>5. CASE b # <<>> /\ p2 = Last(b) /\ b2 = Front(b) /\ f2 = Append(f, p)
    <2>1. b = Append(b2, p2) /\ Len(b) = Len(b2) + 1
      BY <1>1, <1>5, TopLemma
    <2>2. Trail(b, p, f) = Trail(b2, p2, f2)
      <3>1. Trail(Append(b2, p2), p, f) = Trail(b2, p2, Append(f, p))
        BY ShiftLemma
      <3> QED
        BY <1>5, <2>1, <3>1, Zenon
    <2>3. Len(b2) \in Nat /\ Len(b) + 1 > 1 /\ Len(b2) + 1 = (Len(b) + 1) - 1
      BY <2>1
    <2> QED
      BY <2>2, <2>3 DEF HistoryStep
  <1>6. CASE f # <<>> /\ p2 = Last(f) /\ b2 = Append(b, p) /\ f2 = Front(f)
    <2>1. f = Append(f2, p2) /\ Len(f) > 0
      BY <1>1, <1>6, TopLemma
    <2>2. Trail(b2, p2, f2) = Trail(b, p, f)
      <3>1. Trail(Append(b, p), p2, f2) = Trail(b, p, Append(f2, p2))
        BY ShiftLemma
      <3> QED
        BY <1>6, <2>1, <3>1, Zenon
    <2>3. Len(b2) = Len(b) + 1 /\ Len(b) + 1 < Len(t)
      BY <1>1, <1>3, <1>6, <2>1
    <2> QED
      BY <1>2, <2>2, <2>3 DEF HistoryStep
  <1>7. CASE p2 = p /\ b2 = b /\ f2 = f
    BY <1>7 DEF HistoryStep
  <1> QED
    BY <1>4, <1>5, <1>6, <1>7 DEF Move

\* The trail and cursor of BrowsingHistory, as RemoteBrowser keeps them.
ShownTrail == IF connection = None THEN <<>> ELSE back \o <<path>> \o Reverse(forward)

\* Its cursor.
ShownCursor == IF connection = None THEN 0 ELSE Len(back) + 1

\* Without overlapping answers every step is one of the browsing history.
LEMMA MovesKeepHistory ==
  ASSUME BrowserInv, [Next]_vars, "overlap" \notin excuses'
  PROVE  HistoryStep(ShownTrail, ShownCursor, ShownTrail', ShownCursor')
  <1>1. Typed' /\ Typed
    BY BrowserStep DEF BrowserInv
  <1>2. CASE SetDirectory
    <2>1. PICK e : ShowStep(e)
      BY <1>2, SetDirectoryLemma
    <2>2. /\ posted # <<>> /\ posted' = Tail(posted) /\ e = Event /\ IsListing(e)
          /\ connection' = e.place[1]
      BY <2>1 DEF ShowStep
    <2>3. e \in Outstanding
      BY <2>2, EventLemma
    <2>4. connection' # None /\ back' = <<>> /\ forward' = <<>> /\ path' \in Path
      BY <1>1, <1>2, <2>2, <2>3 DEF BrowserInv, Modes, SetDirectory, Typed
    <2>5. Trail(<<>>, path', <<>>) = <<path'>>
      <3>0. <<>> \in Seq(Path)
        OBVIOUS
      <3>1. PICK b \in Seq(Path) : b = <<>>
        BY <3>0, Zenon
      <3>2. Trail(b, path', <<>>) = Append(b, path')
        BY <2>4, EmptyTrail
      <3>3. Append(<<>>, path') = <<path'>>
        OBVIOUS
      <3> QED
        BY <3>1, <3>2, <3>3, Zenon
    <2>6. ShownTrail' = Trail(<<>>, path', <<>>) /\ ShownCursor' = 1
      BY <2>4 DEF ShownTrail, ShownCursor, Trail
    <2>7. ShownTrail' = <<path'>>
      BY <2>5, <2>6
    <2> QED
      BY <2>4, <2>6, <2>7 DEF HistoryStep
  <1>3. CASE ApplyDirectory
    <2>1. PICK e : /\ ShowStep(e) /\ e.place[1] # None
                   /\ "overlap" \notin excuses =>
                        Move(back, path, forward, back', path', forward')
      BY <1>3, ApplyDirectoryLemma
    <2>2. connection' # None /\ excuses' = excuses
      BY <2>1 DEF ShowStep
    <2>3. connection # None
      <3>1. posted # <<>> /\ posted' = Tail(posted)
        BY <1>3 DEF ApplyDirectory
      <3>2. Event \in Range(posted) /\ Event.kind = "list"
        BY <1>3, <3>1, EventLemma DEF ApplyDirectory
      <3> QED
        BY <3>2 DEF BrowserInv, BeforeOpening
    <2>4. HistoryStep(Trail(back, path, forward), Len(back) + 1,
                      Trail(back', path', forward'), Len(back') + 1)
      <3>1. Move(back, path, forward, back', path', forward')
        BY <2>1, <2>2
      <3>2. /\ back \in Seq(Path) /\ path \in Path /\ forward \in Seq(Path)
            /\ back' \in Seq(Path) /\ path' \in Path /\ forward' \in Seq(Path)
        BY <1>1 DEF Typed
      <3> QED
        BY <3>1, <3>2, MoveIsHistory
    <2>5. /\ ShownTrail = Trail(back, path, forward) /\ ShownCursor = Len(back) + 1
          /\ ShownTrail' = Trail(back', path', forward') /\ ShownCursor' = Len(back') + 1
      BY <2>2, <2>3 DEF ShownTrail, ShownCursor, Trail
    <2> QED
      BY <2>4, <2>5, Zenon
  <1>4. CASE UNCHANGED <<connection, path, back, forward>>
    <2>1. ShownTrail' = ShownTrail /\ ShownCursor' = ShownCursor
      BY <1>4 DEF ShownTrail, ShownCursor
    <2> QED
      BY <2>1 DEF HistoryStep
  <1> QED
    BY <1>2, <1>3, <1>4, OnlyAnswersMove

\* Back, forward, up and visits: as long as a folder is only asked for when no
\* other answer is on its way, m_backStack, m_currentRemotePath and
\* m_forwardStack change as a trail of visited folders with a cursor does.
THEOREM HistoryKept == Spec => HistoryIsKept
  <1>1. ASSUME BrowserInv, [Next]_vars, excuses' \cap {"overlap"} = {}
        PROVE  History!Next \/ UNCHANGED History!historyVars
    <2>1. HistoryStep(ShownTrail, ShownCursor, ShownTrail', ShownCursor')
      BY <1>1, MovesKeepHistory
    <2> QED
      BY <2>1 DEF HistoryStep, ShownTrail, ShownCursor, History!Next, History!Begin,
         History!Visit, History!Back, History!Forward, History!historyVars
  <1>2. BrowserInv /\ [Next]_vars
          => [excuses' \cap {"overlap"} = {}
                => History!Next \/ UNCHANGED History!historyVars]_vars
    BY <1>1
  <1> QED
    BY <1>2, BrowserInvariant, PTL DEF Spec, HistoryIsKept

=============================================================================
