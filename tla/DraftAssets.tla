----------------------------- MODULE DraftAssets -----------------------------
(***************************************************************************)
(* The pictures of one draft: the private assets, their places in the text *)
(* (the illustrations), the choice of pictures a delivery uploads and the  *)
(* remote draft it writes.  The page, the tools of the conversation and    *)
(* the picture jobs change places in short transactions.  A delivery       *)
(* (services/auto_delivery.py) is one long transaction around calls of a   *)
(* model and of WeChat: it works on the publication row as it loaded it,   *)
(* writes the columns it changed and holds the row from its first write.   *)
(*                                                                         *)
(* A picture stands for its asset row, its object and the upload of it at  *)
(* WeChat; it has one place in the draft at most.                          *)
(***************************************************************************)
EXTENDS Integers, Sequences, FiniteSets, Functions

CONSTANTS Deliveries,      \* deliveries: jobs of the worker, requests of the page
          Kinds,     \* what they may be
          MaxPics,   \* bound on pictures ever made
          Sources,   \* the pictures that are screenshots of the source
          Places,    \* paragraphs; 0 is the head of the text
          Limit,     \* the last paragraph a picture may follow
          MinInline, \* MIN_INLINE_ILLUSTRATIONS
          MaxInline, \* pictures in the text at most
          None,      \* no picture, nobody
          MaxEdits, MaxStarts, MaxFaults \* bounds on changes, deliveries and failures

Pics == 1..MaxPics

ASSUME AssetsAssumption ==
    /\ MaxPics \in Nat /\ Sources \subseteq Pics /\ {0, 1} \subseteq Places /\ Places \subseteq Nat /\ Limit \in Nat
    /\ MinInline \in Nat /\ MaxInline \in Nat /\ MinInline <= MaxInline
    /\ {MaxEdits, MaxStarts, MaxFaults} \subseteq Nat /\ None \notin Deliveries \cup Nat
    /\ Kinds \subseteq {"deliver", "retry", "prepare", "select", "create", "review"}

VARIABLES
    assets,   \* asset rows
    files,    \* objects in the private store
    made,     \* pictures made so far
    ill,      \* the place of each picture that has one
    row,      \* the committed publication row
    remotes,  \* the drafts at WeChat
    status,   \* status of the draft: "open" until it is approved
    prefs,    \* the lasting preferences of the layout
    fetched,  \* the place a tool has set aside for the screenshot it downloads
    gone,     \* the asset whose deletion is not committed yet
    lock,     \* the delivery that has written the publication row
    job,      \* per delivery: its state
    crossed,  \* the row or a remote draft was changed by another while a delivery was under way
    spent     \* edits, starts and faults so far

pictures == <<assets, files, made, ill, fetched, gone>>
daVars == <<pictures, row, remotes, status, prefs, lock, job, crossed, spent>>

NoRow == [state |-> "none", cover |-> None, inline |-> << >>, media |-> None, urls |-> << >>, remote |-> 0]
Columns == DOMAIN NoRow
Idle == [kind |-> "none", pc |-> "idle", mine |-> NoRow, wrote |-> {}, seen |-> << >>, up |-> << >>,
         status |-> "open", sets |-> FALSE, revised |-> FALSE, expired |-> FALSE, to |-> 0]

DAInit ==
    /\ assets = {} /\ files = {} /\ made = 0 /\ ill = << >> /\ row = NoRow /\ remotes = << >>
    /\ prefs = [cover |-> TRUE, footer |-> None, asset |-> None, cache |-> None, text |-> TRUE]
    /\ status = "open" /\ fetched = None /\ gone = None /\ lock = None /\ crossed = FALSE
    /\ job = [j \in Deliveries |-> Idle] /\ spent = [edits |-> 0, starts |-> 0, faults |-> 0]

Spend(what, bound) == spent[what] < bound /\ spent' = [spent EXCEPT ![what] = @ + 1]
Fault == Spend("faults", MaxFaults)

-----------------------------------------------------------------------------
(* Which pictures a delivery sends. *)

Shown(urls) == {urls[i].pic : i \in DOMAIN urls}
PlacesOf(seen, pics) == {seen[p].at : p \in pics}
Covers(seen) == {p \in DOMAIN seen : seen[p].cover}

\* The candidates in the order of the text.
Before(seen, p, q) == seen[p].at < seen[q].at \/ (seen[p].at = seen[q].at /\ p < q)
InOrder(seen) ==
    CHOOSE s \in [1..Cardinality(DOMAIN seen) -> DOMAIN seen] :
        Range(s) = DOMAIN seen /\ \A i, k \in DOMAIN s : i < k => Before(seen, s[i], s[k])

\* Mutant: a paragraph that has a picture takes another.
TakeAny(seen, picked, p) == IF p \in Range(picked) THEN picked ELSE Append(picked, p)
\* One picture per paragraph: the first that asks for it.
Take(seen, picked, p) == IF seen[p].at \in PlacesOf(seen, Range(picked)) THEN picked ELSE Append(picked, p)

\* One pass over the pictures of s: what it takes of those that are wanted.
Pass(seen, taken, s, wanted) ==
    LET after[n \in 0..Len(s)] ==
            IF n = 0 THEN taken
            ELSE IF s[n] \in wanted THEN Take(seen, after[n - 1], s[n]) ELSE after[n - 1]
    IN after[Len(s)]

\* Screenshots first, those the model named before the others; then what else
\* the model named; then generated pictures until there are enough.  The pass
\* that stops there takes the first of what it would take without a stop.
Least(m, n) == IF m < n THEN m ELSE n
Policy(seen, cover, answer) ==
    LET shots == Pass(seen, Pass(seen, << >>, answer, Sources), InOrder(seen), Sources \ {cover})
        named == Pass(seen, shots, answer, DOMAIN seen)
        all == Pass(seen, named, InOrder(seen), DOMAIN seen \ (Sources \cup {cover}))
        enough == IF Len(named) < MinInline THEN MinInline ELSE Len(named)
    IN [n \in 1..Least(Len(all), Least(enough, MaxInline)) |-> all[n]]

\* What the model may name: candidates, each once, without the cover.
Answers(seen, cover) ==
    {a \in UNION {[1..n -> DOMAIN seen \ {cover}] : n \in 0..MaxInline} : IsInjective(a)}

-----------------------------------------------------------------------------
(* Short transactions on the pictures. *)

\* A changed draft or picture makes the choice void; what is delivered is
\* only marked, its choice and its uploads stay.
Voided(r) ==
    IF r.state = "none" THEN r
    ELSE IF r.remote # 0 THEN [r EXCEPT !.state = "delivery_stale"]
    ELSE [NoRow EXCEPT !.state = "superseded"]
Voids ==
    /\ lock = None \/ row.state = "none"
    /\ row' = Voided(row)
    /\ crossed' = (crossed \/ \E j \in Deliveries : job[j].pc # "idle")

Keeps == UNCHANGED <<row, crossed>>
Lasting == UNCHANGED <<remotes, lock, job>>
Edit == Spend("edits", MaxEdits) /\ Lasting /\ UNCHANGED prefs
ToPlaces == Edit /\ UNCHANGED <<assets, files, made, fetched, gone, status>>

Put(pics, p, cover, at) == [q \in DOMAIN pics \cup {p} |-> IF q = p THEN [cover |-> cover, at |-> at] ELSE pics[q]]
\* create_draft_illustration: a second cover is not made, the first is returned.
Created(pics, p, cover, at) == IF cover /\ Covers(pics) # {} THEN pics ELSE Put(pics, p, cover, at)
Demoted(pics, but, places) == [q \in DOMAIN pics |-> IF q # but /\ pics[q].cover THEN [cover |-> FALSE, at |-> places[q]] ELSE pics[q]]
Made(p) == made < MaxPics /\ p = made + 1 /\ made' = p /\ assets' = assets \cup {p} /\ files' = files \cup {p}

\* The page uploads an asset; the object is there before the row.
UploadAsset ==
    /\ Edit /\ Keeps /\ UNCHANGED <<ill, fetched, gone, status>>
    /\ \E p \in Pics \ Sources : Made(p)
UploadFails ==
    /\ Fault /\ Keeps /\ made < MaxPics /\ made' = made + 1 /\ files' = files \cup {made'}
    /\ UNCHANGED <<assets, ill, fetched, gone, status, prefs, remotes, lock, job>>

\* The page puts an asset into the text.
Attach(p, cover, at) ==
    /\ ToPlaces /\ Keeps
    /\ p \in assets \ DOMAIN ill /\ p # gone
    /\ ill' = Created(ill, p, cover, at)
\* The tool of the conversation does so too; with a cover it fails (NameError).
AttachByTool(p, at) ==
    /\ ToPlaces /\ Voids
    /\ p \in assets \ DOMAIN ill /\ p # gone
    /\ ill' = Put(ill, p, FALSE, at)
\* The page changes the use and the place of a picture.
Patch(p, cover, at) ==
    /\ ToPlaces /\ Keeps
    /\ p \in DOMAIN ill /\ ill' = Put(ill, p, cover, IF cover THEN 0 ELSE at)
\* The page or a tool takes a picture out of the text.
TakeOut(p) ==
    /\ ToPlaces /\ Voids
    /\ p \in DOMAIN ill /\ ill' = [q \in DOMAIN ill \ {p} |-> ill[q]]

\* The tools of the conversation.
SetCover(p) ==
    /\ ToPlaces /\ Voids /\ p \in DOMAIN ill
    /\ ill' = Put(Demoted(ill, p, [q \in DOMAIN ill |-> IF ill[q].at = 0 THEN 1 ELSE ill[q].at]), p, TRUE, 0)
Move(p, at) ==
    /\ ToPlaces /\ Voids /\ p \in DOMAIN ill
    /\ ill' = Put(ill, p, FALSE, at)

\* A picture is generated (a job, the page, the planner), or an image of the
\* conversation is bound to the draft; a second cover leaves its asset unused.
Generate(p, cover, at) ==
    /\ Edit /\ Keeps /\ UNCHANGED <<fetched, gone, status>>
    /\ p \notin Sources /\ Made(p) /\ ill' = Created(ill, p, cover, at)

\* A screenshot of the source: the tool looks for a free place, downloads the
\* picture, and writes in a second transaction.
FreePlace(at) ==
    LET taken == PlacesOf(ill, DOMAIN ill \ Covers(ill))
        from == (Places \ {0}) \ taken
    IN IF from = {} THEN at ELSE IF at \in from THEN at ELSE CHOOSE q \in from : TRUE
Fetch(cover, at) ==
    /\ fetched = None /\ at # 0
    /\ Edit /\ Keeps /\ UNCHANGED <<assets, files, made, ill, gone, status>>
    /\ fetched' = [cover |-> cover, at |-> IF cover THEN 0 ELSE FreePlace(at)]
Fetched(p) ==
    /\ fetched # None /\ p \in Sources /\ Made(p) /\ Voids
    /\ ill' = LET base == IF fetched.cover THEN Demoted(ill, None, [q \in DOMAIN ill |-> 1]) ELSE ill
              IN Put(base, p, fetched.cover, fetched.at)
    /\ fetched' = None
    /\ UNCHANGED <<gone, status, prefs, remotes, lock, job, spent>>
FetchFails == fetched # None /\ fetched' = None /\ Keeps /\ Fault /\ UNCHANGED <<assets, files, made, ill, gone, status, prefs, remotes, lock, job>>

\* An asset is deleted unless a row refers to it: the rows, the object, and
\* only then the commit.
Delete(p) ==
    /\ gone = None /\ p \in assets \ DOMAIN ill
    /\ p # row.cover /\ p \notin Range(row.inline)
    /\ gone' = p /\ files' = files \ {p}
    /\ Edit /\ Keeps /\ UNCHANGED <<assets, made, ill, fetched, status>>
Deleted ==
    /\ gone # None /\ gone' = None /\ assets' = assets \ {gone} /\ Keeps
    /\ UNCHANGED <<files, made, ill, fetched, status, prefs, remotes, lock, job, spent>>
DeleteFails ==
    /\ gone # None /\ gone' = None /\ Fault /\ Keeps
    /\ UNCHANGED <<assets, files, made, ill, fetched, status, prefs, remotes, lock, job>>

\* The user asks for a new choice; the text is rewritten.
Reselect == ToPlaces /\ Voids /\ status # "open" /\ UNCHANGED ill
Rewrite ==
    /\ \A j \in Deliveries : ~job[j].sets
    /\ Edit /\ Voids /\ status' = "open" /\ UNCHANGED pictures

\* The preferences: the picture that ends every text, uploaded when it is set,
\* the cover at its head, and the lines that name the source.
Prefer(p) == Spend("edits", MaxEdits) /\ Lasting /\ Keeps /\ UNCHANGED <<pictures, status>> /\ prefs' = p
SetFooter(p) ==
    /\ p \in assets /\ p \in files /\ p # gone
    /\ Prefer([prefs EXCEPT !.footer = p, !.asset = p, !.cache = p, !.text = FALSE])
ClearFooter == Prefer([prefs EXCEPT !.footer = None, !.text = TRUE])
SetPreferences(cover, text) == Prefer([prefs EXCEPT !.cover = cover, !.text = text])

-----------------------------------------------------------------------------
(* A delivery. *)

Usable(r) == r.state # "none" /\ r.cover # None /\ r.state \notin {"superseded", "delivery_stale"}
\* Where a delivery goes once its choice is needed.
Prepares(mine) == IF Usable(mine) THEN "checking" ELSE "looking"
Sends(mine) == IF mine.state = "none" \/ mine.media = None THEN Prepares(mine) ELSE "sending"

DeliveryStep == UNCHANGED <<pictures, prefs>>
Set(j, r) == job' = [job EXCEPT ![j] = r]
\* A change that another delivery does not know of.
Crosses(j, change) == crossed' = (crossed \/ (change /\ \E k \in Deliveries \ {j} : job[k].pc # "idle"))

\* The columns that change are written; the first write waits for the row and
\* keeps it.
Flushed(j, new) == [job[j] EXCEPT !.mine = new, !.wrote = @ \cup {c \in Columns : new[c] # job[j].mine[c]}]
Writes(j, new) ==
    /\ new # job[j].mine => lock \in {None, j}
    /\ lock' = IF new # job[j].mine THEN j ELSE lock
Stored(j) == [c \in Columns |-> IF c \in job[j].wrote THEN job[j].mine[c] ELSE row[c]]
Ends(j) ==
    /\ row' = Stored(j) /\ lock' = IF lock = j THEN None ELSE lock
    /\ Set(j, Idle) /\ status' = IF job[j].sets THEN job[j].status ELSE status
    /\ Crosses(j, row' # row)
RollsBack(j) ==
    /\ lock' = IF lock = j THEN None ELSE lock
    /\ Set(j, Idle) /\ UNCHANGED status /\ Keeps
\* The routes and the review commit what they have when a delivery fails; the worker does not.
Fails(j) == IF job[j].kind \in {"retry", "prepare", "review"} THEN Ends(j) ELSE RollsBack(j)

Start(j, k) ==
    /\ job[j].pc = "idle" /\ Spend("starts", MaxStarts) /\ DeliveryStep /\ Keeps /\ UNCHANGED <<remotes, status, lock>>
    /\ k \in {"deliver", "retry"} => status # "open"
    /\ k = "review" => status = "open"
    /\ k = "create" => row.remote = 0 /\ row.media # None
    /\ Set(j, [Idle EXCEPT !.kind = k, !.mine = row, !.status = status,
                 !.pc = CASE k \in {"deliver", "retry"} -> Sends(row)
                          [] k \in {"prepare", "select"} -> Prepares(row)
                          [] k = "review" -> IF Usable(row) THEN "reviewing" ELSE "looking"
                          [] OTHER -> "sending"])

\* The candidates are read.  Without one the choice fails.
Look(j) ==
    /\ job[j].pc = "looking" /\ DeliveryStep /\ UNCHANGED <<remotes, spent>>
    /\ \/ ill = << >> /\ Fails(j)
       \/ /\ ill # << >> /\ Set(j, [job[j] EXCEPT !.pc = "choosing", !.seen = ill])
          /\ Keeps /\ UNCHANGED <<status, lock>>

\* Mutant: the pictures of the text are not compared with those uploaded.
ChosenKeepsUrls(r, cover, inline) ==
    IF r.remote # 0 /\ r.state # "delivery_stale" THEN r
    ELSE [r EXCEPT !.state = "assets_selected", !.cover = cover, !.inline = inline,
                   !.media = IF r.cover = cover THEN @ ELSE None]
\* The uploads of what stays are kept.
Chosen(r, cover, inline) ==
    IF r.remote # 0 /\ r.state # "delivery_stale" THEN r
    ELSE [r EXCEPT !.state = "assets_selected", !.cover = cover, !.inline = inline,
                   !.media = IF r.cover = cover THEN @ ELSE None, !.urls = IF r.inline = inline THEN @ ELSE << >>]
Choose(j, cover, answer) ==
    /\ job[j].pc = "choosing" /\ DeliveryStep /\ Keeps /\ UNCHANGED <<remotes, status, spent>>
    /\ LET inline == Policy(job[j].seen, cover, answer)
           r == IF job[j].mine.state = "none" THEN row ELSE job[j].mine
       IN /\ {cover} \cup Range(inline) \subseteq assets /\ cover # gone
          /\ job[j].mine.state = "none" => lock = None
          /\ LET new == Chosen(r, cover, inline)
             IN /\ new # r => lock \in {None, j}
                /\ lock' = IF new # r THEN j ELSE lock
                /\ Set(j, [job[j] EXCEPT !.mine = new, !.wrote = @ \cup {c \in Columns : new[c] # r[c]}, !.seen = << >>,
                             !.pc = IF job[j].kind = "review" /\ ~job[j].sets THEN "reviewing" ELSE "checking"])
\* The model gives no valid answer, a picture is no longer there, or another
\* delivery made the row first.
ChooseFails(j) == job[j].pc = "choosing" /\ Fault /\ DeliveryStep /\ UNCHANGED remotes /\ Fails(j)

\* The review: it passes, has the text revised once, or rejects it.  A draft
\* that was approved meanwhile refuses, and the job fails (Crash).
Passes(j) ==
    /\ job[j].pc = "reviewing" /\ job[j].status = "open" /\ DeliveryStep /\ Keeps /\ UNCHANGED <<remotes, status, lock, spent>>
    /\ LET mine == IF job[j].expired THEN row ELSE job[j].mine
       IN Set(j, [job[j] EXCEPT !.status = "ready", !.sets = TRUE, !.expired = FALSE, !.mine = mine, !.pc = Sends(mine)])
\* Before the text is revised the web is searched.  What is found is committed
\* in the midst of the review, with the choice made before; when it cannot be
\* stored that choice is rolled back too, and what the review knows expires:
\* the draft is loaded again at once, the row when it is needed.
Searches(j) ==
    /\ job[j].pc = "reviewing" /\ ~job[j].revised /\ DeliveryStep /\ UNCHANGED <<remotes, status>>
    /\ \/ Set(j, [job[j] EXCEPT !.pc = "revising"]) /\ Keeps /\ UNCHANGED <<lock, spent>>
       \/ /\ row' = Stored(j) /\ Crosses(j, row' # row) /\ UNCHANGED spent
          /\ lock' = IF lock = j THEN None ELSE lock
          /\ Set(j, [job[j] EXCEPT !.pc = "revising", !.wrote = {}])
       \/ /\ Fault /\ Keeps
          /\ lock' = IF lock = j THEN None ELSE lock
          /\ Set(j, [job[j] EXCEPT !.pc = "revising", !.wrote = {}, !.mine = row, !.status = status, !.expired = TRUE])
\* Only the text changes.
Revises(j) ==
    /\ job[j].pc = "revising" /\ job[j].status = "open" /\ DeliveryStep /\ Keeps /\ UNCHANGED <<remotes, status, lock, spent>>
    /\ Set(j, [job[j] EXCEPT !.pc = "reviewing", !.revised = TRUE])
Rejects(j) == job[j].pc \in {"reviewing", "revising"} /\ DeliveryStep /\ UNCHANGED <<remotes, spent>> /\ Ends(j)

\* The chosen pictures must still be in the text; nothing older is used.
NeedsInline(r) == r.inline # << >> /\ r.urls = << >>
Check(j) ==
    /\ job[j].pc = "checking" /\ DeliveryStep /\ UNCHANGED <<remotes, spent>>
    /\ LET mine == job[j].mine
           chosen == {mine.cover} \cup Range(mine.inline)
           needed == (IF mine.media = None THEN {mine.cover} ELSE {}) \cup (IF NeedsInline(mine) THEN Range(mine.inline) ELSE {})
       IN \/ /\ needed = {}
             /\ Set(j, [job[j] EXCEPT !.pc = IF job[j].kind \in {"prepare", "select"} THEN "ending" ELSE "sending"])
             /\ Keeps /\ UNCHANGED <<status, lock>>
          \/ /\ needed # {} /\ chosen \subseteq DOMAIN ill /\ needed \subseteq files
             /\ Set(j, [job[j] EXCEPT !.pc = "uploading",
                          !.up = [i \in DOMAIN mine.inline |-> [pic |-> mine.inline[i], at |-> ill[mine.inline[i]].at]]])
             /\ Keeps /\ UNCHANGED <<status, lock>>
          \/ /\ needed # {} /\ ~(chosen \subseteq DOMAIN ill /\ needed \subseteq files)
             /\ Fails(j)

\* The status as the transaction loaded it; the request that only prepares
\* reads it again.
Approved(j) == IF job[j].kind = "prepare" THEN status # "open" ELSE job[j].status # "open"
\* The uploads are recorded, for an approved draft.
Upload(j) ==
    /\ job[j].pc = "uploading" /\ DeliveryStep /\ UNCHANGED <<remotes, spent>>
    /\ \/ /\ Approved(j)
          /\ LET new == [job[j].mine EXCEPT !.state = "cover_uploaded", !.media = job[j].mine.cover, !.urls = job[j].up]
             IN /\ Writes(j, new)
                /\ Set(j, [Flushed(j, new) EXCEPT !.pc = IF job[j].kind \in {"prepare", "select"} THEN "ending" ELSE "sending"])
          /\ Keeps /\ UNCHANGED status
       \/ ~Approved(j) /\ Fails(j)
\* What the database has once a failure is recorded and committed.
Recorded(j) == [Stored(j) EXCEPT !.state = "draft_failed"]
Stops(j) ==
    /\ Fault /\ DeliveryStep /\ lock \in {None, j}
    /\ lock' = None /\ Set(j, Idle) /\ status' = IF job[j].sets THEN job[j].status ELSE status
    /\ row' = IF job[j].kind \in {"retry", "prepare", "review", "create"} THEN Recorded(j) ELSE row
    /\ Crosses(j, row' # row)
UploadStops(j) == job[j].pc = "uploading" /\ Stops(j) /\ UNCHANGED remotes

\* What the remote draft shows: a place beyond the text moves to its end, the
\* cover stands at the head unless a picture does, the last picture replaces
\* the lines that name the source.  The request that creates the draft by hand
\* knows no preferences.
Rendered(urls) == [i \in DOMAIN urls |-> [urls[i] EXCEPT !.at = IF @ < Limit THEN @ ELSE Limit]]
AtHead(r) == IF prefs.cover /\ r.cover # None /\ \A i \in DOMAIN r.urls : r.urls[i].at # 0 THEN r.cover ELSE None
Foot == IF prefs.footer = None THEN None ELSE prefs.cache
Content(k, r, head) ==
    [cover |-> r.media, shown |-> Rendered(r.urls), head |-> head, foot |-> IF k = "create" THEN None ELSE Foot,
     text |-> k = "create" \/ Foot = None \/ prefs.text]
\* The cover at the head is left out when its upload fails.
Contents(j, left) == Content(job[j].kind, job[j].mine, IF left \/ job[j].kind = "create" THEN None ELSE AtHead(job[j].mine))

\* The remote draft is overwritten, or made when there is none.
Send(j, left) ==
    /\ job[j].pc = "sending" /\ DeliveryStep /\ UNCHANGED <<row, status, lock>> /\ Crosses(j, TRUE)
    /\ IF left THEN AtHead(job[j].mine) # None /\ Fault ELSE UNCHANGED spent
    /\ IF job[j].mine.remote # 0
       THEN remotes' = [remotes EXCEPT ![job[j].mine.remote] = Contents(j, left)]
       ELSE remotes' = Append(remotes, Contents(j, left))
    /\ Set(j, [job[j] EXCEPT !.pc = "sent", !.to = IF job[j].mine.remote # 0 THEN job[j].mine.remote ELSE Len(remotes')])
\* The remote draft cannot be overwritten: another one is made.
Resend(j) ==
    /\ job[j].pc = "sending" /\ job[j].mine.remote # 0 /\ Fault /\ DeliveryStep /\ UNCHANGED <<row, status>> /\ Crosses(j, TRUE)
    /\ LET new == [job[j].mine EXCEPT !.state = "draft_failed"]
       IN /\ Writes(j, new) /\ Set(j, [Flushed(j, new) EXCEPT !.pc = "sent", !.to = Len(remotes) + 1])
    /\ remotes' = Append(remotes, Contents(j, FALSE))
SendStops(j) == job[j].pc = "sending" /\ Stops(j) /\ UNCHANGED remotes

\* Mutant: the row keeps the name of the draft that could not be overwritten.
MarkKeepsName(j) ==
    /\ job[j].pc = "sent" /\ DeliveryStep /\ Keeps /\ UNCHANGED <<remotes, status, spent>>
    /\ LET new == [job[j].mine EXCEPT !.state = "draft_created", !.remote = IF @ = 0 THEN job[j].to ELSE @]
       IN /\ Writes(j, new)
          /\ Set(j, [Flushed(j, new) EXCEPT !.pc = "ending", !.status = "draftbox", !.sets = @ \/ job[j].status # "draftbox"])
\* mark_wechat_draft_created, mark_wechat_draft_updated
Mark(j) ==
    /\ job[j].pc = "sent" /\ DeliveryStep /\ Keeps /\ UNCHANGED <<remotes, status, spent>>
    /\ LET new == [job[j].mine EXCEPT !.state = "draft_created", !.remote = job[j].to]
       IN /\ Writes(j, new)
          /\ Set(j, [Flushed(j, new) EXCEPT !.pc = "ending", !.status = "draftbox", !.sets = @ \/ job[j].status # "draftbox"])
Commit(j) == job[j].pc = "ending" /\ DeliveryStep /\ UNCHANGED <<remotes, spent>> /\ Ends(j)

\* The process ends, or the job reaches its time limit.
Crash(j) == job[j].pc # "idle" /\ Fault /\ DeliveryStep /\ UNCHANGED remotes /\ RollsBack(j)

-----------------------------------------------------------------------------
DANext ==
    \/ UploadAsset \/ UploadFails \/ Deleted \/ DeleteFails \/ FetchFails \/ Reselect \/ Rewrite \/ ClearFooter
    \/ \E cover, text \in BOOLEAN : SetPreferences(cover, text)
    \/ \E p \in Pics : TakeOut(p) \/ SetCover(p) \/ SetFooter(p) \/ Delete(p) \/ Fetched(p)
    \/ \E p \in Pics, at \in Places : Move(p, at) \/ AttachByTool(p, at)
    \/ \E p \in Pics, cover \in BOOLEAN, at \in Places : Attach(p, cover, at) \/ Patch(p, cover, at) \/ Generate(p, cover, at)
    \/ \E cover \in BOOLEAN, at \in Places : Fetch(cover, at)
    \/ \E j \in Deliveries, k \in Kinds : Start(j, k)
    \/ \E j \in Deliveries :
         \/ Look(j) \/ ChooseFails(j) \/ Passes(j) \/ Searches(j) \/ Revises(j) \/ Rejects(j) \/ Check(j) \/ Upload(j) \/ UploadStops(j)
         \/ SendStops(j) \/ Mark(j) \/ Commit(j) \/ Crash(j)
         \/ Resend(j) \/ \E left \in BOOLEAN : Send(j, left)
         \/ \E cover \in DOMAIN job[j].seen : \E answer \in Answers(job[j].seen, cover) : Choose(j, cover, answer)

DASpec == DAInit /\ [][DANext]_daVars

-----------------------------------------------------------------------------
DATypeOK ==
    /\ files \subseteq 1..made /\ assets \subseteq 1..made /\ DOMAIN ill \subseteq assets
    /\ \A p \in DOMAIN ill : ill[p] \in [cover : BOOLEAN, at : Places]
    /\ row.remote \in 0..Len(remotes) /\ lock \in Deliveries \cup {None}

\* A row that says the draft is in the draft box tells what the remote draft
\* it names shows: the cover and the pictures at their paragraphs, through
\* edits, failed uploads, drafts made anew and deliveries that never commit.
\* What others change between a delivery's load of the row and its commit (a
\* choice made void, another delivery's columns, or its remote draft) is left
\* out: a delivery writes only the columns it changed.
DeliveredAsRecorded == (~crossed /\ row.state = "draft_created") =>
    remotes[row.remote].cover = row.media /\ remotes[row.remote].shown = Rendered(row.urls)

\* What a delivery may reuse of earlier uploads belongs to the choice of the
\* row, unless the row was changed by another while a delivery was under way.
UploadsAreOfTheChoice ==
    ~crossed => /\ row.urls # << >> => [i \in DOMAIN row.urls |-> row.urls[i].pic] = row.inline
                /\ row.media # None => row.media = row.cover

\* Whatever the model answers, the choice puts one picture in a paragraph,
\* leaves a screenshot out only where another one stands, and is short of
\* pictures only when every paragraph with a picture has one of the choice.
SoundChoice ==
    \A cover \in DOMAIN ill : \A answer \in Answers(ill, cover) :
       LET choice == Policy(ill, cover, answer)
           chosen == Range(choice)
           Free(p) == ill[p].at \notin PlacesOf(ill, chosen)
       IN /\ chosen \subseteq DOMAIN ill \ {cover} /\ Len(choice) <= MaxInline
          /\ \A p, q \in chosen : p # q => ill[p].at # ill[q].at
          /\ Len(choice) < MaxInline =>
                \A p \in (Sources \cap DOMAIN ill) \ {cover} : ill[p].at \in PlacesOf(ill, chosen \cap Sources)
          /\ Len(choice) < MinInline => \A p \in DOMAIN ill \ {cover} : ~Free(p)

-----------------------------------------------------------------------------
(* What the comments say and the code does not keep. *)

\* "后续审核与重投将复用该选择" (auto_delivery.py:493): what is delivered is the
\* choice made before the review.
ChoiceIsDelivered ==
    (~crossed /\ row.state = "draft_created") =>
        /\ remotes[row.remote].cover = row.cover
        /\ [i \in DOMAIN remotes[row.remote].shown |-> remotes[row.remote].shown[i].pic] = row.inline
\* "下次投递将只从当前保留图片重新确定" (routes.py:1741): a delivery sends pictures
\* that are in the draft.
OnlyKeptPictures ==
    [][(remotes' # remotes /\ ~crossed) =>
         \A n \in DOMAIN remotes' : (n \notin DOMAIN remotes \/ remotes'[n] # remotes[n]) => Shown(remotes'[n].shown) \subseteq DOMAIN ill]_daVars
\* "之后每次投递都会自动加在文末" (agent_tools/publication_preferences.py:232): every
\* delivery ends with the picture that is set.
FooterOnEveryDelivery ==
    [][\A n \in DOMAIN remotes' : (n \notin DOMAIN remotes \/ remotes'[n] # remotes[n]) => remotes'[n].foot = prefs.footer]_daVars
\* The footer that is configured can be read (routes.py:1973).
FooterHasItsAsset == prefs.asset # None => prefs.asset \in assets
\* The tools demote a cover before they set another (source_media_tools.py:142).
OneCover == \A p, q \in Covers(ill) : p = q
\* "同一段落绑两张图，渲染时会在正文里并排出现" (source_media_tools.py:125)
OneAtAParagraph ==
    \A n \in DOMAIN remotes : \A i, k \in DOMAIN remotes[n].shown : i # k => remotes[n].shown[i].at # remotes[n].shown[k].at
\* An asset that is in the text can be read (auto_delivery.py:219).
PictureHasItsFile == DOMAIN ill \subseteq files
=============================================================================
