----------------------------- MODULE RumblePages -----------------------------
(***************************************************************************)
(* How Rumble's pages are read: the validator's _PageHtmlParser with the    *)
(* two ways it is used, on what has arrived so far and on the whole page    *)
(* (tools/rumble_validation.py), and the page parser and the resolution of  *)
(* the Streamlink plugin (streamlink-plugins/rumble.py).                    *)
(*                                                                         *)
(* A page is the tags html.parser delivers, of any number: a state holds    *)
(* what both parsers have made of the tags so far, and the next tag may be  *)
(* any.  A tag carries what each of the two reads of it, which need not be  *)
(* the same: of a title its text, of a div the duration of its card, of an  *)
(* iframe and a script of JSON the embed they name.  Both parsers are       *)
(* html.parser's, and are given the same tags.                              *)
(***************************************************************************)
EXTENDS Naturals, Sequences, SequencesExt

CONSTANTS
  Embeds,  \* the embed ids pages name
  MaxNest, \* bound: templates and inert elements inside each other
  MaxUnlike \* bound: tags of a page that the two parsers take differently

ASSUME PagesAssumption ==
  /\ MaxNest \in Nat /\ MaxUnlike \in Nat
  /\ Embeds \cap {"none", "channel", "video", "offline",
                "invalid page", "missing embed"} = {}

VARIABLES
  page,    \* the validator's parser: the fields of _PageHtmlParser
  scan,    \* the plugin's parser: the fields of _PageParser
  sent,    \* the page: "part", "whole", or "torn" when it ends inside a tag
  told,    \* what read_channel_page_contract has returned
  cdata,   \* whether html.parser is inside a script, where it sees no tags
  unlike,  \* history: how many tags so far the two parsers took differently
  plugin   \* the plugin's resolution; pc is "none" when only the validator runs

vars == <<page, scan, sent, told, cdata, unlike, plugin>>

(***************************************************************************)
(* The tags.                                                                *)
(***************************************************************************)
\* "moment" is a title of _INTERSTITIAL_TITLES, "long" one that the validator
\* refuses: of over 4096 units, or with a "<".
Texts == {"name", "moment", "blank", "long"}

\* The duration of a videostream card; a div that is none holds "none".
Durations == {"0", "60", "odd", "none"}

Ids == Embeds \cup {"none"}

Both(values) == {[page |-> value, scan |-> value] : value \in values}

\* The plugin strips a title and decodes every reference in it; the validator
\* decodes six, and joins the words at any white space.
Titles == Both(Texts \ {"long"})
     \cup [page : {"long"}, scan : Texts \ {"long"}]
     \cup [page : {"moment"}, scan : {"name"}]
     \cup [page : {"name"}, scan : {"moment", "blank"}]

\* The plugin lowers the class of a div, decodes it and splits it at any white
\* space; the validator's grammar is strict on all of a div that has the word.
Cards == Both(Durations)
    \cup [page : {"none"}, scan : Durations]
    \cup [page : {"odd"}, scan : Durations]

\* Only the plugin decodes references in attributes.
Forms == Both({"challenge", "search"}) \cup [page : {"search"}, scan : {"challenge"}]

\* An embed with capital letters is one for the plugin only.
Frames == Both(Ids) \cup [page : {"none"}, scan : Embeds]

\* And of JSON the plugin reads 4096 values at most.
Scripts == Frames \cup [page : Embeds, scan : {"none"}]

Holds(tag) == CASE tag = "title" -> Titles
                [] tag = "div" -> Cards
                [] tag = "form" -> Forms
                [] tag = "iframe" -> Frames
                [] tag = "script" -> Scripts
                [] OTHER -> Both({"nothing"})

\* "odd" attributes break the validator's grammar; those that name "twice" what
\* the plugin looks at are malformed for both.  A div says itself if it is odd.
Grammars(tag) ==
  {"no", "odd"} \cup IF tag \in {"script", "form", "iframe"} THEN {"twice"} ELSE {}

\* The elements whose contents _PageHtmlParser skips; noscript for all of them.
IGNORED_RAW == {"noscript"}

TEMPLATE_RAW == IGNORED_RAW \cup {"script", "title", "iframe"}

PAGE_CONTRACT_TAGS == TEMPLATE_RAW \cup {"form", "plaintext", "template"}

inert_tags == {"template", "noscript", "plaintext"}

Tags == PAGE_CONTRACT_TAGS \cup {"body", "div"}

(***************************************************************************)
(* The validator's parser.  `live' is first_video_live with                 *)
(* first_video_malformed as "odd"; titles holds two at most, since one more *)
(* changes nothing.                                                         *)
(***************************************************************************)
NoRaw == [name |-> "none", holds |-> "nothing", document |-> FALSE,
          inTemplate |-> FALSE]

NewPage == [malformed |-> FALSE, titles |-> <<>>, embeds |-> {},
            live |-> "none", challenge |-> FALSE, template |-> 0,
            raw |-> NoRaw, body |-> FALSE, plaintext |-> FALSE]

Raw(tag, holds, document, inTemplate) ==
  [name |-> tag, holds |-> holds, document |-> document,
   inTemplate |-> inTemplate]

\* The embeds an iframe's source or a script names.
Named(id) == {id} \ {"none"}

\* handle_starttag inside a template, whose contents are still tokenized.
InTemplate(p, tag) ==
  CASE tag = "template" -> [p EXCEPT !.template = @ + 1]
    [] tag = "plaintext" -> [p EXCEPT !.malformed = TRUE]
    [] tag \in TEMPLATE_RAW ->
         [p EXCEPT !.raw = Raw(tag, "nothing", FALSE, TRUE)]
    [] OTHER -> p

\* The first videostream card says whether the channel is live.
Card(p, holds) ==
  CASE holds = "none" -> p
    [] holds = "0" -> [p EXCEPT !.live = "live"]
    [] holds = "60" -> [p EXCEPT !.live = "ended"]
    [] holds = "odd" -> [p EXCEPT !.live = "odd"]

\* handle_starttag of the tags the contract is about.
Contracted(p, tag, holds) ==
  CASE tag = "plaintext" -> [p EXCEPT !.plaintext = TRUE]
    [] tag = "template" -> [p EXCEPT !.template = 1]
    [] tag \in {"title", "script"} \cup IGNORED_RAW ->
         [p EXCEPT !.raw = Raw(tag, holds, tag = "title", FALSE)]
    [] tag = "form" ->
         [p EXCEPT !.challenge = @ \/ holds = "challenge"]
    [] tag = "iframe" ->
         [p EXCEPT !.embeds = @ \cup Named(holds),
                   !.raw = Raw(tag, "nothing", FALSE, FALSE)]

handle_starttag(p, tag, holds, bad) ==
  CASE p.plaintext -> p
    [] ~p.plaintext /\ p.raw # NoRaw ->
         [p EXCEPT !.malformed = @ \/ p.raw.document]
    [] ~p.plaintext /\ p.raw = NoRaw /\ p.template > 0 ->
         IF bad THEN [p EXCEPT !.malformed = TRUE] ELSE InTemplate(p, tag)
    [] OTHER ->
         CASE tag = "body" -> [p EXCEPT !.body = TRUE]
           [] tag = "title" /\ p.body ->
                [p EXCEPT !.raw = Raw(tag, "nothing", FALSE, FALSE)]
           [] tag = "div" ->
                IF p.live = "none" THEN Card(p, holds) ELSE p
           [] OTHER -> IF bad THEN [p EXCEPT !.malformed = TRUE]
                              ELSE Contracted(p, tag, holds)

\* The element that was skipped or collected ends.
RawEnds(p) ==
  LET q == [p EXCEPT !.raw = NoRaw]
      raw == p.raw
  IN  CASE raw.inTemplate -> q
        [] ~raw.inTemplate /\ raw.document ->
             CASE raw.holds = "long" -> [q EXCEPT !.malformed = TRUE]
               [] raw.holds = "blank" -> q
               [] OTHER -> [q EXCEPT !.titles =
                              IF Len(@) < 2 THEN Append(@, raw.holds) ELSE @]
        [] ~raw.inTemplate /\ raw.name = "script" ->
             [q EXCEPT !.embeds = @ \cup Named(raw.holds)]
        [] OTHER -> q

\* parse_endtag, which checks the closing tag's text, then handle_endtag.
parse_endtag(p, tag, bad) ==
  IF p.template = 0 /\ tag \notin PAGE_CONTRACT_TAGS
  THEN p
  ELSE LET q == [p EXCEPT !.malformed = @ \/ bad]
       IN  CASE q.plaintext -> q
             [] ~q.plaintext /\ q.raw # NoRaw ->
                  IF tag = q.raw.name
                  THEN RawEnds(q)
                  ELSE [q EXCEPT !.malformed = @ \/ q.raw.document]
             [] OTHER -> IF tag = "template" /\ q.template > 0
                         THEN [q EXCEPT !.template = @ - 1]
                         ELSE q

Contract(state, embed) == [state |-> state, embed |-> embed]

NoContract == Contract("none", "none")

Interstitial(p) == p.challenge \/ p.titles[1] = "moment"

Only(embeds) == CHOOSE e \in embeds : embeds = {e}

\* Mutant: the page's head need not have ended, so another title may follow.
parse_channel_page_prefixInHead(p) ==
  CASE p.malformed \/ Len(p.titles) # 1 -> NoContract
    [] OTHER ->
         CASE Interstitial(p) -> Contract("INTERSTITIAL", "none")
           [] ~Interstitial(p) /\ p.live = "ended" -> Contract("OFFLINE", "none")
           [] ~Interstitial(p) /\ p.live = "live" /\ \E e \in Embeds : p.embeds = {e} ->
                Contract("LIVE", Only(p.embeds))
           [] OTHER -> NoContract

\* What a partial document already decides.
parse_channel_page_prefix(p) ==
  CASE p.malformed \/ ~p.body \/ Len(p.titles) # 1 -> NoContract
    [] ~p.malformed /\ p.body /\ Len(p.titles) = 1 ->
         CASE Interstitial(p) -> Contract("INTERSTITIAL", "none")
           [] ~Interstitial(p) /\ p.live = "ended" -> Contract("OFFLINE", "none")
           [] ~Interstitial(p) /\ p.live = "live" /\ \E e \in Embeds : p.embeds = {e} ->
                Contract("LIVE", Only(p.embeds))
           [] OTHER -> NoContract

\* What the whole document says; `torn' when text is left over at its end.
parse_page_contract(p, torn) ==
  IF p.malformed \/ torn \/ p.raw # NoRaw \/ p.template > 0
  THEN Contract("SCHEMA", "none")
  ELSE CASE Len(p.titles) = 0 -> Contract("TITLE_MISSING", "none")
         [] Len(p.titles) = 2 -> Contract("TITLE_AMBIGUOUS", "none")
         [] Len(p.titles) = 1 ->
              CASE Interstitial(p) -> Contract("INTERSTITIAL", "none")
                [] ~Interstitial(p) /\ p.live = "odd" -> Contract("SCHEMA", "none")
                [] ~Interstitial(p) /\ p.live = "ended" -> Contract("OFFLINE", "none")
                [] ~Interstitial(p) /\ p.live \in {"none", "live"} ->
                     CASE p.embeds = {} ->
                            Contract(IF p.live = "live" THEN "SCHEMA" ELSE "OFFLINE",
                                     "none")
                       [] \E e \in Embeds : p.embeds = {e} ->
                            Contract("LIVE", Only(p.embeds))
                       [] OTHER -> Contract("EMBED_AMBIGUOUS", "none")

(***************************************************************************)
(* The plugin's parser.  `inTitle' holds the text being collected, or "no"; *)
(* `script' what the open script names, if one is open.                     *)
(***************************************************************************)
NewScan == [first |-> "none", embeds |-> {}, titles |-> <<>>,
            challenge |-> FALSE, inTitle |-> "no", body |-> FALSE,
            script |-> <<>>, inert |-> <<>>, malformed |-> FALSE]

\* handle_starttag of a tag that is not inert; in a title, the text of a script
\* is the title's.
Scanned(s, tag, holds, twice) ==
  CASE tag = "body" -> [s EXCEPT !.body = TRUE]
    [] tag = "title" -> IF s.body THEN s ELSE [s EXCEPT !.inTitle = holds]
    [] tag = "script" ->
         IF twice THEN [s EXCEPT !.malformed = TRUE]
         ELSE [s EXCEPT !.script = IF s.inTitle = "no" THEN <<holds>> ELSE <<"none">>]
    [] tag = "form" -> [s EXCEPT !.malformed = @ \/ twice,
                                 !.challenge = @ \/ holds = "challenge"]
    [] tag = "div" ->
         CASE s.first # "none" \/ holds = "none" -> s
           [] s.first = "none" /\ holds \in {"0", "60"} -> [s EXCEPT !.first = holds]
           [] OTHER -> [s EXCEPT !.malformed = TRUE]
    [] tag = "iframe" -> IF twice THEN [s EXCEPT !.malformed = TRUE]
                                  ELSE [s EXCEPT !.embeds = @ \cup Named(holds)]

ScanStart(s, tag, holds, twice) ==
  CASE tag \in inert_tags -> [s EXCEPT !.inert = Append(@, tag)]
    [] tag \notin inert_tags /\ s.inert # <<>> -> s
    [] OTHER -> Scanned(s, tag, holds, twice)

ScanEnd(s, tag) ==
  CASE s.inert # <<>> ->
         IF Last(s.inert) = tag THEN [s EXCEPT !.inert = Front(@)] ELSE s
    [] s.inert = <<>> /\ tag = "title" /\ s.inTitle # "no" ->
         [s EXCEPT !.titles = IF s.inTitle = "blank" \/ Len(@) = 2 THEN @
                              ELSE Append(@, s.inTitle),
                   !.inTitle = "no"]
    [] s.inert = <<>> /\ tag = "script" /\ s.script # <<>> ->
         [s EXCEPT !.embeds = @ \cup Named(s.script[1]), !.script = <<>>]
    [] OTHER -> s

\* handle_startendtag: what ends where it starts has no text.
ScanStartEnd(s, tag, holds, twice) ==
  LET text == CASE tag = "title" -> "blank" [] tag = "script" -> "none" [] OTHER -> holds
  IN  ScanEnd(ScanStart(s, tag, text, twice), tag)

complete(s) == s.inTitle = "no" /\ s.script = <<>> /\ s.inert = <<>>

\* Mutant: an ended card is believed before the page is known to be one.
parse_pageStatusFirst(s, require_status) ==
  CASE require_status /\ s.first = "60" -> "offline"
    [] ~(require_status /\ s.first = "60") ->
         IF \/ ~complete(s) \/ Len(s.titles) # 1
            \/ s.malformed \/ s.challenge \/ s.titles[1] = "moment"
         THEN "invalid page"
         ELSE IF \E e \in Embeds : s.embeds = {e}
              THEN Only(s.embeds) ELSE "missing embed"

\* _parse_page: the embed's id, or what _ContractError says.
parse_page(s, require_status) ==
  IF \/ ~complete(s) \/ Len(s.titles) # 1
     \/ s.malformed \/ s.challenge \/ s.titles[1] = "moment"
  THEN "invalid page"
  ELSE CASE require_status /\ s.first = "60" -> "offline"
         [] ~(require_status /\ s.first = "60") ->
              IF \E e \in Embeds : s.embeds = {e}
              THEN Only(s.embeds) ELSE "missing embed"

\* The names of streams.
Names == {"720p", "source"}

(***************************************************************************)
(* A page arrives.                                                          *)
(***************************************************************************)
Init ==
  /\ page = NewPage /\ scan = NewScan
  /\ sent = "part" /\ told = NoContract
  /\ cdata = FALSE /\ unlike = 0
  /\ \E pc \in {"none", "page", "embed"} :
       plugin = [pc |-> pc, todo |-> <<>>,
                 streams |-> [n \in Names |-> "none"], result |-> "none"]

\* Whether a tag that starts is the same to both parsers and inside the same:
\* what is inside a title or an iframe is skipped by the validator only, and
\* inert elements inside each other end differently.
StartsAlike(tag, read) ==
  /\ read.page = read.scan
  /\ page.raw.name \notin {"title", "iframe"} /\ scan.inTitle = "no"
  /\ tag \in inert_tags => page.raw = NoRaw /\ scan.inert = <<>>

\* A slash ends an element for the plugin only, and a plaintext may end for it.
SlashedAlike(tag, read) == StartsAlike(tag, read) /\ tag \in {"body", "div", "form"}

EndsAlike(tag) == /\ page.plaintext => tag # "plaintext"
                  /\ page.template > 0 /\ page.raw # NoRaw => tag # "template"

\* Bounds: a page goes on until a parser refuses it for good, and elements are
\* nested MaxNest deep.
Continues(tag) ==
  /\ sent = "part" /\ ~cdata /\ ~page.malformed /\ Len(page.titles) < 2
  /\ tag \in inert_tags => Len(scan.inert) < MaxNest /\ page.template < MaxNest
  /\ plugin.pc \in {"none", "page"} /\ ~scan.malformed

\* Only the plugin's pages are scanned by it.  Bound: MaxUnlike.
Scans(next, same) ==
  IF plugin.pc = "page"
  THEN /\ scan' = next
       /\ \/ same /\ unlike' = unlike
          \/ ~same /\ unlike < MaxUnlike /\ unlike' = unlike + 1
  ELSE UNCHANGED <<scan, unlike>>

StartTag(tag, read, grammar) ==
  /\ Continues(tag)
  /\ page' = handle_starttag(page, tag, read.page, grammar # "no")
  /\ Scans(ScanStart(scan, tag, read.scan, grammar = "twice"), StartsAlike(tag, read))
  /\ cdata' = (tag = "script")
  /\ UNCHANGED <<sent, told, plugin>>

\* The slash ends nothing for the validator, and a title or a script that has
\* it is refused.
StartEndTag(tag, read, grammar) ==
  /\ Continues(tag)
  /\ LET slashed == grammar # "no" \/ (tag \in {"title", "script"} /\ page.template = 0)
     IN  page' = handle_starttag(page, tag, read.page, slashed)
  /\ Scans(ScanStartEnd(scan, tag, read.scan, grammar = "twice"), SlashedAlike(tag, read))
  /\ UNCHANGED <<sent, told, cdata, plugin>>

EndTag(tag, bad) ==
  /\ sent = "part" /\ plugin.pc \in {"none", "page"} /\ (cdata => tag = "script")
  /\ page' = parse_endtag(page, tag, bad)
  /\ Scans(ScanEnd(scan, tag), EndsAlike(tag))
  /\ cdata' = FALSE
  /\ UNCHANGED <<sent, told, plugin>>

Arrives == \E tag \in Tags :
             \/ \E read \in Holds(tag), grammar \in Grammars(tag) :
                  StartTag(tag, read, grammar) \/ StartEndTag(tag, read, grammar)
             \/ \E bad \in BOOLEAN : EndTag(tag, bad)

PageEnds ==
  /\ sent = "part" /\ plugin.pc = "none"
  /\ sent' \in {"whole", "torn"}
  /\ UNCHANGED <<page, scan, told, cdata, unlike, plugin>>

(***************************************************************************)
(* read_channel_page_contract parses what has arrived after every chunk,    *)
(* and a chunk may end after any tag; the empty chunk is the page's end.    *)
(***************************************************************************)
ReadChunk ==
  /\ told = NoContract /\ plugin.pc = "none"
  /\ told' = LET prefix == parse_channel_page_prefix(page)
             IN  IF prefix # NoContract \/ sent = "part" THEN prefix
                 ELSE parse_page_contract(page, sent = "torn")
  /\ UNCHANGED <<page, scan, sent, cdata, unlike, plugin>>

(***************************************************************************)
(* The plugin's resolution.                                                 *)
(***************************************************************************)
\* An entry of ua.hls: its URL, "unsafe" when _safe_media_url refuses it, and
\* the name its height or key gives.
Entries == [url : {"u", "v", "unsafe"}, name : Names]

\* _hls_variants: the entries without those whose URL or name was seen.
hls_variants(entries) ==
  LET fresh(seen, e) == /\ e.url # "unsafe"
                        /\ \A i \in DOMAIN seen : seen[i].url # e.url
                                               /\ seen[i].name # e.name
  IN  FoldLeft(LAMBDA seen, e : IF fresh(seen, e) THEN Append(seen, e) ELSE seen,
               <<>>, entries)

\* The player document: what json.loads and `live' make of it, and ua.hls.
Documents == [live : {"broken", "past", "live"}, hls : BoundedSeq(Entries, 2)]

Result(code) == [plugin EXCEPT !.pc = "done", !.result = code]

\* _fetch raises: no answer, another status or type, too large, or too late.
FetchFails == plugin' = Result("resolver_failed")

\* The page and its parsers are garbage once both readers have returned.
PageForgotten ==
  /\ page' = NewPage /\ scan' = NewScan /\ sent' = "part"
  /\ told' = NoContract /\ cdata' = FALSE /\ unlike' = 0

\* _embed_id: the page's embed, or no answer that is a page.
ResolvePage ==
  /\ plugin.pc = "page"
  /\ \/ FetchFails
     \/ \E require_status \in BOOLEAN :
          LET said == parse_page(scan, require_status)
          IN  plugin' = CASE said \in Embeds -> [plugin EXCEPT !.pc = "embed"]
                          [] said = "offline" -> Result("no_live_stream")
                          [] OTHER -> Result("resolver_failed")
  /\ PageForgotten

\* The embed's document, or no answer that is one.
ResolveEmbed ==
  /\ plugin.pc = "embed"
  /\ \/ FetchFails
     \/ \E doc \in Documents :
          LET variants == hls_variants(doc.hls)
          IN  plugin' = CASE doc.live = "broken" -> Result("resolver_failed")
                          [] doc.live = "past" -> Result("no_live_stream")
                          [] doc.live = "live" /\ variants = <<>> ->
                               Result("resolver_failed")
                          [] doc.live = "live" /\ variants # <<>> ->
                               [plugin EXCEPT !.pc = "expand", !.todo = variants]
  /\ UNCHANGED <<page, scan, sent, told, cdata, unlike>>

(***************************************************************************)
(* parse_variant_playlist, with check_streams, of one URL: it raises, or    *)
(* returns the streams of a master that could be fetched.  It returns none  *)
(* for a media playlist, and none for a master of which no stream could be. *)
(***************************************************************************)
Playlists == {"raises", "media", "master"}

\* streams.setdefault for each of `names'.
SetDefault(names, kind) ==
  [n \in Names |-> IF n \in names /\ plugin.streams[n] = "none"
                   THEN kind ELSE plugin.streams[n]]

\* _expand_hls_variants, one variant.
ExpandVariant ==
  /\ plugin.pc = "expand" /\ plugin.todo # <<>>
  /\ \E playlist \in Playlists, expanded \in SUBSET Names :
       /\ playlist # "master" => expanded = {}
       /\ plugin' =
            [plugin EXCEPT !.todo = Tail(@),
               !.streams = CASE playlist = "raises" -> @
                             [] expanded # {} -> SetDefault(expanded, "media")
                             [] OTHER -> SetDefault({Head(plugin.todo).name}, playlist)]
  /\ UNCHANGED <<page, scan, sent, told, cdata, unlike>>

Expanded ==
  /\ plugin.pc = "expand" /\ plugin.todo = <<>>
  /\ plugin' = Result(IF \E n \in Names : plugin.streams[n] # "none"
                      THEN "success" ELSE "resolver_failed")
  /\ UNCHANGED <<page, scan, sent, told, cdata, unlike>>

Next == \/ Arrives \/ PageEnds \/ ReadChunk
        \/ ResolvePage \/ ResolveEmbed \/ ExpandVariant \/ Expanded

Spec == Init /\ [][Next]_vars

(***************************************************************************)
(* Properties.                                                              *)
(***************************************************************************)
\* What a prefix of a page was taken to say is not contradicted by the rest of
\* it, however long: the validator, which stops reading, never calls a channel
\* live that the whole page shows offline, nor the other way round, and never
\* names another embed.  The rest can only show that the page is refused, as
\* malformed, as a challenge, or for a second embed
\* (parse_channel_page_prefix, parse_page_contract).
PrefixNeverFlips ==
  (plugin.pc = "none" /\ told # NoContract) =>
    LET whole == parse_page_contract(page, sent = "torn")
    IN  whole = told \/ whole.state \in
          CASE told.state = "LIVE" -> {"SCHEMA", "INTERSTITIAL", "EMBED_AMBIGUOUS"}
            [] told.state = "OFFLINE" -> {"SCHEMA", "INTERSTITIAL"}
            [] told.state = "INTERSTITIAL" -> {"SCHEMA"}
            [] OTHER -> {}

\* On a page that neither refuses, the validator and the plugin say the same:
\* they name the same embed, or both none, one or another way.
Agreement ==
  LET judged == parse_page_contract(page, FALSE)
      said == parse_page(scan, TRUE)
  IN  \/ judged.state = "SCHEMA" \/ said = "invalid page"
      \/ judged.state = "LIVE" /\ said = judged.embed
      \/ judged.state = "OFFLINE" /\ said \in {"offline", "missing embed"}
      \/ judged.state = "EMBED_AMBIGUOUS" /\ said = "missing embed"

\* Two parsers with their own fields, their own nesting and their own order of
\* checks come to the same verdict on a page whose tags they read alike.  On
\* others they do not: a card of class "VideoStream", a challenge with two
\* spaces in its title, an embed in capitals or beyond the 4096th value, a tag
\* inside an iframe (Titles, Cards, Forms, Frames, Scripts, StartsAlike,
\* SlashedAlike, EndsAlike).
PagesAgree == plugin.pc = "page" /\ unlike = 0 => Agreement

\* What does not hold: that they agree on every page.
AnyPageAgrees == plugin.pc = "page" => Agreement

\* What the plugin reports as success can be played: each stream is a media
\* playlist, as _expand_hls_variants says.
StreamsPlayable ==
  plugin.result = "success" => \A n \in Names : plugin.streams[n] # "master"
=============================================================================
