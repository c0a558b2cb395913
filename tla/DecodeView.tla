------------------------------ MODULE DecodeView -------------------------------
(***************************************************************************)
(* What the main window (ui_main.MainViewer) puts on the screen: it asks   *)
(* ImageLoader for the current image, its neighbours and single frames,    *)
(* caches what comes back under the identity it asked for, and shows it.   *)
(* Handlers run one after the other on the GUI thread; results wait in     *)
(* the event queue.  Which image is current is a choice here: the queue of *)
(* images and what the sorting does to it are SortingView.                 *)
(*                                                                         *)
(* A handler is a function of the window and the loader, w = [l, v].       *)
(***************************************************************************)
EXTENDS ImageLoader

CONSTANTS Animated,    \* files of several frames
          Large,       \* files whose pixels exceed the budget of the cache
          CacheSize,   \* images the cache holds
          MaxLoads     \* bound: listings

ASSUME ViewAssumption ==
  /\ Animated \subseteq Files /\ Large \subseteq Files
  /\ {CacheSize, MaxLoads} \subseteq Nat \ {0}

VARIABLES
  view,
  showQueued   \* show_image is to be called from the event loop

loaderVars == <<loader, reader, group, scratch, results, disk>>
vars == <<loaderVars, view, showQueued>>

\* ImageCacheKey, and the pixels a reader made: a file, a frame, an identity.
Image   == [file : Files, frame : Frames, version : Nat \ {0}]
NoImage == [file |-> 0, frame |-> 0, version |-> 0]
Key(f, n) == [file |-> f, frame |-> n, version |-> disk[f]]
Entry   == [key : Image, pixels : Image]
NoEntry == [key |-> NoImage, pixels |-> NoImage]

\* The frame bar: the image it stands for, the frame presented and its pixels,
\* the request under way, whether several frames are known.
FrameBar == [base : Image \cup {NoImage}, index : Frames, pixels : Image \cup {NoImage},
             request : Ids \cup {NoId}, many : BOOLEAN]
NoFrame  == [base |-> NoImage, index |-> 0, pixels |-> NoImage, request |-> NoId, many |-> FALSE]

View == [current : Files, gen : Nat, held : BOOLEAN,
         screen : {"loading", "image", "error", "held"}, pixels : Image \cup {NoImage},
         pending : SUBSET Ids, frameRequests : SUBSET Ids,
         contexts : SUBSET [id : Ids, version : Nat \ {0}],      \* of the keys of requests
         cache : Seq(Entry), uncached : Entry \cup {NoEntry},    \* oldest first
         frame : FrameBar, closing : BOOLEAN,
         \* For properties only: the frame asked for last; requests for an image that were
         \* dropped on arrival, or are one with a request for its frame 0.
         sought : Frames, lost : SUBSET Ids]
-----------------------------------------------------------------------------
(* The cache                                                                *)

PlaceOf(cache, key) ==
  LET at == {k \in DOMAIN cache : cache[k].key = key} IN IF at = {} THEN 0 ELSE CHOOSE k \in at : TRUE

SameSource(e, key) == e.key.file # key.file \/ e.key.version = key.version

\* _get_pixmap_from_cache: entries of an older identity go, a hit becomes the newest.
Purge(cache, key) == Dropping(cache, {e \in ToSet(cache) : ~SameSource(e, key)})
Touch(cache, key) ==
  LET k == PlaceOf(cache, key)
  IN IF k = 0 THEN cache ELSE Append(RemoveAt(cache, k), cache[k])
LookUp(v, f) == [v EXCEPT !.cache = Touch(Purge(@, Key(f, 0)), Key(f, 0))]

Pixels(v, key) ==
  LET k == PlaceOf(v.cache, key)
  IN IF k # 0 THEN v.cache[k].pixels ELSE IF v.uncached.key = key THEN v.uncached.pixels ELSE NoImage
CachedFrame(v, key) == PlaceOf(v.cache, key) # 0

\* _add_pixmap_to_cache
Admitted(key) == key.file \notin Large
AddToCache(cache, key, pixels) ==
  LET others == Dropping(cache, {e \in ToSet(cache) : e.key = key})
      longer == Append(others, [key |-> key, pixels |-> pixels])
  IN IF ~Admitted(key) THEN others
     ELSE SubSeq(longer, Max({1, Len(longer) - CacheSize + 1}), Len(longer))
-----------------------------------------------------------------------------
(* Requests                                                                 *)

HasPending(v, f) == \E p \in v.pending : p.file = f

\* An identifier nothing refers to.
Fresh(w, f, n) ==
  LET used == InUse(w.l) \cup w.v.pending \cup {w.v.frame.request}
  IN [file |-> f, frame |-> n,
      nth |-> Min({k \in 1 .. Cardinality(used) + 1 : [file |-> f, frame |-> n, nth |-> k] \notin used})]
Without(v, id) == [v EXCEPT !.contexts = {c \in @ : c.id # id}]

\* Bug: a held snapshot does not keep late answers away.
HeldIgnored(v, r) == r.gen # v.gen
Discarded(v, r) == r.gen # v.gen \/ v.held

\* on_image_ready for the error of request r of the current generation.
OnError(v, r) ==
  IF Discarded(v, r) THEN v
  ELSE IF r.id \in v.frameRequests
       THEN [Without(v, r.id) EXCEPT !.frameRequests = @ \ {r.id},
                                     !.frame.request = IF @ = r.id THEN NoId ELSE @]
       ELSE [Without(v, r.id) EXCEPT !.pending = @ \ {r.id},
                      !.screen = IF r.id.file = v.current THEN "error" ELSE @,
                      !.pixels = IF r.id.file = v.current THEN NoImage ELSE @]

\* loader.add_task.  The error of a dropped request is delivered before it
\* returns, and before the caller has recorded the new identifier.
AddTask(w, f, n, p) ==
  LET id == Fresh(w, f, n)
      a  == AddRequest(w.l, id, p, w.v.gen)
      u  == IF a.dropped = NoRequest THEN w.v ELSE OnError(w.v, a.dropped)
  IN [l |-> a.loader, v |-> IF a.dropped.id = id THEN [u EXCEPT !.lost = @ \cup {id}] ELSE u, id |-> a.id]

Context(v, id) == Without(v, id).contexts \cup {[id |-> id, version |-> disk[id.file]]}
\* The request for an image of show_image and preload_adjacent_images.
AskImage(w, f, p) ==
  LET a == AddTask(w, f, 0, p)
  IN [l |-> a.l, v |-> [a.v EXCEPT !.contexts = Context(a.v, a.id), !.pending = @ \cup {a.id},
                                   !.lost = @ \cup ({a.id} \cap a.v.frameRequests)]]

\* preload_adjacent_images: the next image, the previous one, the one after next.
PreloadOne(w, f, p) ==
  LET v == LookUp(w.v, f)
  IN IF f \notin Files THEN w
     ELSE IF Pixels(v, Key(f, 0)) # NoImage \/ HasPending(v, f) THEN [w EXCEPT !.v = v]
     ELSE AskImage([w EXCEPT !.v = v], f, p)
Preload(w) ==
  LET c == w.v.current IN PreloadOne(PreloadOne(PreloadOne(w, c + 1, 1), c - 1, 2), c + 2, 3)

\* show_image of an image that no operation is about to take away.
ShowImage(w) ==
  LET f    == w.v.current
      key  == Key(f, 0)
      new  == w.v.frame.base # key
      v1   == LookUp([w.v EXCEPT !.uncached = IF @.key.file # f THEN NoEntry ELSE @], f)
      v2   == IF new THEN [v1 EXCEPT !.frame = [NoFrame EXCEPT !.base = key], !.sought = 0] ELSE v1
      own  == Pixels(v2, key)
      v3   == [v2 EXCEPT !.frame.many = @ \/ (own # NoImage /\ f \in Animated)]
      pix  == IF v3.frame.pixels # NoImage THEN v3.frame.pixels ELSE own
      l    == IF new THEN CancelRequest(w.l, w.v.frame.request) ELSE w.l
  IN IF w.v.held THEN [w EXCEPT !.v.screen = "held"]
     ELSE IF pix # NoImage
          THEN Preload([l |-> l, v |-> [LookUp(v3, f) EXCEPT !.screen = "image", !.pixels = pix]])
     ELSE LET u == [l |-> l, v |-> [v3 EXCEPT !.screen = "loading", !.pixels = NoImage]]
          IN IF HasPending(u.v, f) THEN u ELSE AskImage(u, f, 0)
-----------------------------------------------------------------------------
(* Results                                                                  *)

\* Bug: pixels are cached under the identity the file had when they were asked for.
NeverLate(v, r) == \A c \in v.contexts : c.id # r.id
\* A result of an identity that is not the one asked for, or no longer the file's.
Late(v, r) == \A c \in v.contexts : c.id = r.id => c.version # disk[r.id.file] \/ c.version # r.version

\* _present_frame: a viewer hidden behind a message stays hidden.
Present(v, n, pixels) ==
  [v EXCEPT !.frame.index = n, !.frame.pixels = pixels, !.pixels = IF v.screen = "image" THEN pixels ELSE @]

\* Bug: the answer to a frame that is no longer sought is presented; and even
\* that of another image.
SameFile(v, id) == id.file = v.frame.base.file
AnyRequest(v, id) == TRUE
Sought(v, id) == id = v.frame.request /\ id.file = v.frame.base.file

OnFrame(w, r, key, pixels) ==
  LET v == [Without(w.v, r.id) EXCEPT !.frameRequests = @ \ {r.id}]
      u == [v EXCEPT !.frame.request = NoId, !.cache = AddToCache(@, key, pixels)]
  IN [w EXCEPT !.v = IF Sought(v, r.id) THEN Present(u, r.id.frame, pixels) ELSE v]

OnImage(w, r, key, pixels) ==
  LET v == [Without(w.v, r.id) EXCEPT !.pending = @ \ {r.id}, !.cache = AddToCache(@, key, pixels)]
  IN IF r.id.file # v.current THEN [w EXCEPT !.v = v]
     ELSE ShowImage([w EXCEPT !.v = [v EXCEPT !.uncached =
                       IF Admitted(key) THEN NoEntry ELSE [key |-> key, pixels |-> pixels]]])

\* on_image_ready
OnImageReady(w, r) ==
  LET v == w.v IN
  IF Discarded(v, r) THEN w
  ELSE IF r.version = 0 THEN [w EXCEPT !.v = OnError(v, r)]
  ELSE IF Late(v, r)
       THEN [w EXCEPT !.v = [Without(v, r.id) EXCEPT
                                      !.pending = @ \ {r.id}, !.frameRequests = @ \ {r.id},
                                      !.frame.request = IF @ = r.id THEN NoId ELSE @]]
  ELSE LET image(n) == [file |-> r.id.file, frame |-> r.id.frame, version |-> n]
           asked == image((CHOOSE c \in v.contexts : c.id = r.id).version)
       IN IF r.id \in v.frameRequests THEN OnFrame(w, r, asked, image(r.version))
          ELSE OnImage(w, r, asked, image(r.version))

\* Bug: the image whose answer was late is not asked for again.
NeverAgain(v, r) == FALSE
Again(v, r) == ~Discarded(v, r) /\ r.version # 0 /\ Late(v, r) /\ r.id.file = v.current
-----------------------------------------------------------------------------
(* Handlers                                                                 *)

Now == [l |-> loader, v |-> view]
\* What the window remembers of a request that ended unnoticed is never read again.
Becomes(w) ==
  /\ loader' = w.l
  /\ LET live == Carried(w.l) \cup {results'[k].id : k \in DOMAIN results'}
     IN view' = [w.v EXCEPT !.contexts = {c \in @ : c.id \in live}, !.frameRequests = @ \cap live,
                                     !.lost = @ \cap w.v.pending]
  /\ UNCHANGED <<reader, group, scratch, disk>>
\* The user acts before a result is emitted or after it was handled: one that waits
\* meanwhile is one the thread is about to emit.  Bound: nothing after closing.
User == results = <<>> /\ ~view.closing /\ UNCHANGED <<results, showQueued>>

Blank(f) == [current |-> f, gen |-> 1, held |-> FALSE, screen |-> "loading", pixels |-> NoImage,
             pending |-> {}, contexts |-> {}, frameRequests |-> {}, cache |-> <<>>,
             uncached |-> NoEntry, frame |-> NoFrame, closing |-> FALSE,
             sought |-> 0, lost |-> {}]

\* clear_pixmap_cache, where the requests for images were forgotten as well.
ClearCache(w) ==
  [l |-> CancelRequest(w.l, w.v.frame.request),
   v |-> [w.v EXCEPT !.cache = <<>>, !.contexts = {}, !.pending = {}, !.uncached = NoEntry,
                       !.frame = NoFrame, !.sought = 0]]

\* The first listing: the loader has just been started.
Init ==
  /\ ThreadInit
  /\ LET w == ShowImage([l |-> NewLoader, v |-> Blank(Min(Files))])
     IN loader = w.l /\ view = w.v
  /\ showQueued = FALSE

\* load_images: a generation of its own, everything cached and asked for forgotten.
LoadImages ==
  /\ User /\ view.gen < MaxLoads
  /\ LET g == view.gen + 1
         w == ClearCache([l |-> ClearTasks(loader, g), v |-> [view EXCEPT !.held = FALSE, !.gen = g]])
     IN Becomes(ShowImage([w EXCEPT !.v.current = Min(Files)]))

\* Navigation, or the end of an operation that selects another image; it ends a
\* held snapshot.
Select(f) ==
  /\ User /\ (f # view.current \/ view.held)
  /\ Becomes(ShowImage([Now EXCEPT !.v.current = f, !.v.held = FALSE]))

\* The other calls of show_image: an operation ended, a setting was changed.
Refresh == User /\ Becomes(ShowImage(Now))

\* trigger_file_action of a move that holds the image on the screen.
HoldMove ==
  /\ User /\ ~view.held /\ view.screen = "image"
  /\ LET w == ClearCache([l |-> ClearTasks(loader, view.gen), v |-> view])
     IN Becomes(ShowImage([w EXCEPT !.v.held = TRUE]))

\* The held move is done: its image leaves the queue, and its neighbour is selected
\* behind the snapshot (on_operation_result, remove_image_from_queue).
MoveDone(f) ==
  /\ User /\ view.held /\ f # view.current
  /\ Becomes(ShowImage([Now EXCEPT !.v.current = f]))

DropFrame(w) == [l |-> CancelRequest(w.l, w.v.frame.request), v |-> [w.v EXCEPT !.frame.request = NoId]]

\* _seek_frame from the frame bar: the slider, or the buttons next to it.
SeekFrame(n) ==
  /\ User /\ view.frame.many
  /\ n # view.frame.index \/ view.frame.request # NoId
  /\ LET f   == view.frame.base.file
         key == Key(f, n)
         w   == [DropFrame(Now) EXCEPT !.v.sought = n]
         a   == AddTask(w, f, n, 0)
         v   == [w.v EXCEPT !.cache = Touch(@, key)]
     IN IF view.frame.base # Key(f, 0) THEN Becomes(ShowImage(DropFrame(Now)))
        ELSE IF CachedFrame(v, key) THEN Becomes([w EXCEPT !.v = Present(v, n, Pixels(v, key))])
        ELSE Becomes([l |-> a.l, v |-> [a.v EXCEPT
                        !.contexts = Context(a.v, a.id), !.frameRequests = @ \cup {a.id},
                        !.frame.request = a.id,
                        !.lost = @ \cup ({a.id} \cap a.v.pending)]])

\* closeEvent
Close ==
  /\ User
  /\ Becomes([l |-> RequestStop(loader), v |-> [view EXCEPT !.closing = TRUE]])

Shift == results # <<>> /\ results' = Tail(results)
Called == showQueued /\ showQueued' = FALSE

\* A queued image_ready.
Deliver ==
  /\ Shift
  /\ showQueued' = (showQueued \/ Again(view, Head(results)))
  /\ Becomes(OnImageReady(Now, Head(results)))

\* QTimer.singleShot(0, show_image)
ShowLater ==
  /\ Called /\ UNCHANGED results
  /\ Becomes(ShowImage(Now))

Next ==
  \/ Deliver \/ ShowLater \/ LoadImages \/ Refresh \/ HoldMove \/ Close
  \/ \E f \in Files : Select(f) \/ MoveDone(f)
  \/ \E n \in Frames : SeekFrame(n)
  \/ LoaderNext /\ UNCHANGED <<view, showQueued>>

\* The event loop runs - every Shift is a Deliver, every Called a ShowLater - and the
\* decoder thread is scheduled; nothing is assumed of the user, of the files, or of
\* the kernel and the readers.
Spec == Init /\ [][Next]_vars
        /\ WF_results(Shift) /\ WF_showQueued(Called) /\ WF_loaderVars(Thread)
-----------------------------------------------------------------------------
TypeOK == LoaderTypeOK /\ view \in View /\ showQueued \in BOOLEAN /\ Len(view.cache) <= CacheSize

\* Safety: cached pixels are what their key says - this file with this content, this
\* frame - although requests, answers, changes of the file and reused requests
\* cross each other (on_image_ready: "A late result may never relabel changed
\* bytes").
CacheTruth ==
  /\ TypeOK
  /\ \A k \in DOMAIN view.cache : view.cache[k].pixels = view.cache[k].key
  /\ view.uncached.pixels = view.uncached.key

\* Safety: the picture on the screen is of the selected file, it is the frame the
\* frame bar names, and all frames shown of a file are of the same content.
ScreenTruth ==
  view.screen = "image" =>
    /\ view.pixels.file = view.current /\ view.frame.base.file = view.current
    /\ view.pixels.frame = view.frame.index
    /\ view.pixels.version = view.frame.base.version

\* Action: an answer that comes in late replaces nothing but what it was asked for.
\* A held snapshot stays until its hold ends (trigger_file_action: "a late callback
\* cannot replace"), and a frame is presented only if it is the one sought last.
LateAnswers ==
  [][/\ view.held /\ view'.held => view'.screen = "held" /\ view'.pixels = view.pixels
     /\ view'.frame.index \notin {0, view.frame.index} => view'.frame.index = view'.sought]_vars

Loading(f) == /\ view.screen = "loading" /\ view.current = f /\ ~view.closing
              /\ ~\E p \in view.pending : p.file = f /\ p \in view.lost
\* Liveness: "Loading image" does not stay: the image comes, or an error, or the
\* user turns elsewhere.  It is promised unless the request was dropped as it arrived.
LoadingEnds == \A f \in Files : Loading(f) ~> ~Loading(f)

\* Liveness: once the window closes the decoder thread ends, which the window waits for.
LoaderStops == view.closing ~> At("ended")
=============================================================================
