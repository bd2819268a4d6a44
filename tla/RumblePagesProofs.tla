--------------------------- MODULE RumblePagesProofs ---------------------------
(***************************************************************************)
(* Proofs about RumblePages, for any embeds, and pages of any tags, of any  *)
(* number and nested to any depth.                                          *)
(***************************************************************************)
EXTENDS RumblePages, TLAPS

(***************************************************************************)
(* What the validator's parser holds.                                       *)
(***************************************************************************)
Contents == Texts \cup Durations \cup {"challenge", "search", "nothing"} \cup Ids

\* What a parser may read of a tag.
Values(tag) == CASE tag = "title" -> Texts
                 [] tag = "div" -> Durations
                 [] tag = "form" -> {"challenge", "search"}
                 [] tag \in {"iframe", "script"} -> Ids
                 [] OTHER -> {"nothing"}

Raws == [name : Tags \cup {"none"}, holds : Contents, document : BOOLEAN,
         inTemplate : BOOLEAN]

PageTypes == [malformed : BOOLEAN, titles : Seq(Texts), embeds : SUBSET Embeds,
              live : {"none", "live", "ended", "odd"}, challenge : BOOLEAN,
              template : Nat, raw : Raws, body : BOOLEAN, plaintext : BOOLEAN]

\* A title that counts is open only while the head goes on.
PageOK(p) ==
  /\ p \in PageTypes
  /\ p.raw.document => p.raw.name = "title" /\ p.raw.holds \in Texts /\ ~p.body
  /\ p.raw.name = "script" /\ ~p.raw.inTemplate => p.raw.holds \in Ids

\* What no tag takes back.
Grows(p, q) ==
  /\ p.malformed => q.malformed
  /\ p.challenge => q.challenge
  /\ p.embeds \subseteq q.embeds
  /\ p.live # "none" => q.live = p.live
  /\ p.body => q.body /\ q.titles = p.titles

\* A step of the parser.
Onward(p, q) == PageOK(q) /\ Grows(p, q)

\* Page p still says what `says' says of it, or is malformed.
Standing(says, p) ==
  /\ says.state \in {"LIVE", "OFFLINE", "INTERSTITIAL"}
  /\ \/ p.malformed
     \/ /\ p.body /\ Len(p.titles) = 1
        /\ says = Contract("INTERSTITIAL", "none") => Interstitial(p)
        /\ says.state = "INTERSTITIAL" => says = Contract("INTERSTITIAL", "none")
        /\ says.state = "OFFLINE" => says = Contract("OFFLINE", "none") /\ p.live = "ended"
        /\ says.state = "LIVE" =>
             /\ says.embed \in p.embeds /\ says = Contract("LIVE", says.embed)
             /\ p.live = "live"

Decided ==
  told # NoContract =>
    \/ Standing(told, page)
    \/ sent # "part" /\ told = parse_page_contract(page, sent = "torn")

(***************************************************************************)
(* What the plugin's parser holds, and how it compares.                     *)
(***************************************************************************)
ScanTypes == [first : {"none", "0", "60"}, embeds : SUBSET Embeds,
              titles : Seq(Texts), challenge : BOOLEAN,
              inTitle : Texts \cup {"no"}, body : BOOLEAN, script : Seq(Ids),
              inert : Seq(inert_tags), malformed : BOOLEAN]

\* Both have read the same.
Same(p, s) ==
  /\ p.titles = s.titles /\ Len(p.titles) <= 2
  /\ p.challenge = s.challenge /\ p.body = s.body
  /\ p.embeds = s.embeds
  /\ p.live = "none" <=> s.first = "none"
  /\ p.live = "live" <=> s.first = "0"
  /\ p.live = "ended" <=> s.first = "60"

\* The element that is open, where neither is inside an inert one.
Open(p, s) ==
  \/ p.raw = NoRaw /\ s.inTitle = "no" /\ s.script = <<>>
  \/ \E text \in Texts : /\ p.raw = Raw("title", text, TRUE, FALSE)
                         /\ s.inTitle = text /\ s.script = <<>> /\ ~p.body
  \/ /\ p.raw \in {Raw("title", "nothing", FALSE, FALSE),
                   Raw("iframe", "nothing", FALSE, FALSE)}
     /\ s.inTitle = "no" /\ s.script = <<>>
  \/ \E id \in Ids : /\ p.raw = Raw("script", id, FALSE, FALSE)
                          /\ s.inTitle = "no" /\ s.script = <<id>>

Outside(p, s) == ~p.plaintext /\ p.template = 0 /\ s.inert = <<>> /\ Open(p, s)

InPlaintext(p, s) ==
  /\ p.plaintext /\ p.template = 0 /\ p.raw = NoRaw
  /\ s.inert = <<"plaintext">> /\ s.inTitle = "no" /\ s.script = <<>>

InNoscript(p, s) ==
  /\ ~p.plaintext /\ p.template = 0 /\ p.raw = Raw("noscript", "nothing", FALSE, FALSE)
  /\ s.inert = <<"noscript">> /\ s.inTitle = "no" /\ s.script = <<>>

InBothTemplates(p, s) ==
  /\ ~p.plaintext /\ p.template = 1
  /\ \/ p.raw = NoRaw
     \/ \E tag \in {"title", "iframe", "script"} : p.raw = Raw(tag, "nothing", FALSE, TRUE)
  /\ s.inert = <<"template">> /\ s.inTitle = "no" /\ s.script = <<>>

Alongside(p, s) ==
  \/ p.malformed \/ s.malformed
  \/ /\ Same(p, s)
     /\ Outside(p, s) \/ InPlaintext(p, s) \/ InNoscript(p, s) \/ InBothTemplates(p, s)

\* html.parser sees no tag inside a script.
Together ==
  /\ "pc" \in DOMAIN plugin
  /\ unlike \in Nat
  /\ plugin.pc = "page" /\ unlike = 0 =>
       /\ scan \in ScanTypes
       /\ Alongside(page, scan)
       /\ page.raw.name = "script" => cdata \/ page.malformed \/ scan.malformed

\* The inductive invariant.
IInv == PageOK(page) /\ Decided /\ Together

(***************************************************************************)
(* The validator's parser, tag by tag.                                      *)
(***************************************************************************)
LEMMA Held ==
  /\ "nothing" \in Contents /\ "nothing" \notin Texts /\ NoRaw \in Raws
  /\ \A tag \in Tags : Values(tag) \subseteq Contents
  /\ Values("title") = Texts /\ Values("script") = Ids /\ Values("iframe") = Ids
  /\ Values("div") = Durations /\ Values("noscript") = {"nothing"}
  /\ Tags = {"noscript", "script", "title", "iframe", "form", "plaintext", "template",
            "body", "div"}
<1>1. /\ "nothing" \in Contents /\ "nothing" \notin Texts
      /\ Tags = {"noscript", "script", "title", "iframe", "form", "plaintext", "template",
                "body", "div"}
  BY DEF Contents, Texts, Tags, PAGE_CONTRACT_TAGS, TEMPLATE_RAW, IGNORED_RAW
<1>2. /\ Values("title") = Texts /\ Values("script") = Ids /\ Values("iframe") = Ids
      /\ Values("div") = Durations /\ Values("form") = {"challenge", "search"}
      /\ \A tag \in {"noscript", "plaintext", "template", "body"} : Values(tag) = {"nothing"}
  BY DEF Values
<1>3. \A tag \in Tags : Values(tag) \subseteq Contents
  BY <1>1, <1>2 DEF Contents
<1> QED
  BY <1>1, <1>2, <1>3 DEF NoRaw, Raws

\* What a tag holds is something that can be read of it.
LEMMA HeldRead ==
  ASSUME NEW tag \in Tags, NEW read \in Holds(tag)
  PROVE  read.page \in Values(tag) /\ read.scan \in Values(tag)
<1>1. CASE tag = "title"
  BY <1>1 DEF Holds, Values, Titles, Both, Texts
<1>2. CASE tag = "div"
  BY <1>2 DEF Holds, Values, Cards, Both, Durations
<1>3. CASE tag = "form"
  BY <1>3 DEF Holds, Values, Forms, Both
<1>4. CASE tag \in {"iframe", "script"}
  BY <1>4 DEF Holds, Values, Scripts, Frames, Both, Ids
<1>5. CASE tag \notin {"title", "div", "form", "iframe", "script"}
  BY <1>5 DEF Holds, Values, Both
<1> QED
  BY <1>1, <1>2, <1>3, <1>4, <1>5

\* An id that is named is one of the embeds.
LEMMA IdsNamed == \A id \in Ids : Named(id) \subseteq Embeds
  BY DEF Named, Ids

\* One field is set.
LEMMA Malformed ==
  ASSUME NEW p, PageOK(p), NEW b \in BOOLEAN, p.malformed => b
  PROVE  Onward(p, [p EXCEPT !.malformed = b])
<1> DEFINE q == [p EXCEPT !.malformed = b]
<1>1. /\ q \in PageTypes /\ q.raw = p.raw
      /\ q.body = p.body /\ Grows(p, q)
  BY DEF PageOK, PageTypes, Grows
<1> HIDE DEF q
<1>2. PageOK(q)
  BY <1>1 DEF PageOK
<1> QED
  BY <1>1, <1>2 DEF Onward, q

LEMMA Challenged ==
  ASSUME NEW p, PageOK(p), NEW b \in BOOLEAN, p.challenge => b
  PROVE  Onward(p, [p EXCEPT !.challenge = b])
<1> DEFINE q == [p EXCEPT !.challenge = b]
<1>1. /\ q \in PageTypes /\ q.raw = p.raw
      /\ q.body = p.body /\ Grows(p, q)
  BY DEF PageOK, PageTypes, Grows
<1> HIDE DEF q
<1>2. PageOK(q)
  BY <1>1 DEF PageOK
<1> QED
  BY <1>1, <1>2 DEF Onward, q

LEMMA Nested ==
  ASSUME NEW p, PageOK(p), NEW n \in Nat
  PROVE  Onward(p, [p EXCEPT !.template = n])
<1> DEFINE q == [p EXCEPT !.template = n]
<1>1. /\ q \in PageTypes /\ q.raw = p.raw
      /\ q.body = p.body /\ Grows(p, q)
  BY DEF PageOK, PageTypes, Grows
<1> HIDE DEF q
<1>2. PageOK(q)
  BY <1>1 DEF PageOK
<1> QED
  BY <1>1, <1>2 DEF Onward, q

LEMMA Carded ==
  ASSUME NEW p, PageOK(p), p.live = "none", NEW l \in {"live", "ended", "odd"}
  PROVE  Onward(p, [p EXCEPT !.live = l])
<1> DEFINE q == [p EXCEPT !.live = l]
<1>1. /\ q \in PageTypes /\ q.raw = p.raw
      /\ q.body = p.body /\ Grows(p, q)
  BY DEF PageOK, PageTypes, Grows
<1> HIDE DEF q
<1>2. PageOK(q)
  BY <1>1 DEF PageOK
<1> QED
  BY <1>1, <1>2 DEF Onward, q

LEMMA Embedded ==
  ASSUME NEW p, PageOK(p), NEW e \in SUBSET Embeds, p.embeds \subseteq e
  PROVE  Onward(p, [p EXCEPT !.embeds = e])
<1> DEFINE q == [p EXCEPT !.embeds = e]
<1>1. /\ q \in PageTypes /\ q.raw = p.raw
      /\ q.body = p.body /\ Grows(p, q)
  BY DEF PageOK, PageTypes, Grows
<1> HIDE DEF q
<1>2. PageOK(q)
  BY <1>1 DEF PageOK
<1> QED
  BY <1>1, <1>2 DEF Onward, q

LEMMA Titled ==
  ASSUME NEW p, PageOK(p), ~p.body, NEW t \in Seq(Texts)
  PROVE  Onward(p, [p EXCEPT !.titles = t])
<1> DEFINE q == [p EXCEPT !.titles = t]
<1>1. /\ q \in PageTypes /\ q.raw = p.raw
      /\ q.body = p.body /\ Grows(p, q)
  BY DEF PageOK, PageTypes, Grows
<1> HIDE DEF q
<1>2. PageOK(q)
  BY <1>1 DEF PageOK
<1> QED
  BY <1>1, <1>2 DEF Onward, q

LEMMA BodyBegun ==
  ASSUME NEW p, PageOK(p), ~p.raw.document
  PROVE  Onward(p, [p EXCEPT !.body = TRUE])
<1> DEFINE q == [p EXCEPT !.body = TRUE]
<1>1. /\ q \in PageTypes /\ q.raw = p.raw
      /\ q.body = TRUE /\ Grows(p, q)
  BY DEF PageOK, PageTypes, Grows
<1> HIDE DEF q
<1>2. PageOK(q)
  BY <1>1 DEF PageOK
<1> QED
  BY <1>1, <1>2 DEF Onward, q

LEMMA PlaintextBegun ==
  ASSUME NEW p, PageOK(p)
  PROVE  Onward(p, [p EXCEPT !.plaintext = TRUE])
<1> DEFINE q == [p EXCEPT !.plaintext = TRUE]
<1>1. /\ q \in PageTypes /\ q.raw = p.raw
      /\ q.body = p.body /\ Grows(p, q)
  BY DEF PageOK, PageTypes, Grows
<1> HIDE DEF q
<1>2. PageOK(q)
  BY <1>1 DEF PageOK
<1> QED
  BY <1>1, <1>2 DEF Onward, q

LEMMA Stays ==
  ASSUME NEW p, PageOK(p) PROVE Onward(p, p)
  BY DEF Onward, Grows

LEMMA OnAndOn ==
  ASSUME NEW p, NEW q, NEW r, Onward(p, q), Onward(q, r) PROVE Onward(p, r)
  BY DEF Onward, Grows

\* What is put into raw keeps the page as it should be.
LEMMA RawOpened ==
  ASSUME NEW p, PageOK(p), NEW r \in Raws,
         r.document => r.name = "title" /\ r.holds \in Texts /\ ~p.body,
         r.name = "script" /\ ~r.inTemplate => r.holds \in Ids
  PROVE  Onward(p, [p EXCEPT !.raw = r])
<1> DEFINE q == [p EXCEPT !.raw = r]
<1>1. q \in PageTypes /\ q.raw = r /\ q.body = p.body /\ Grows(p, q)
  BY DEF PageOK, PageTypes, Grows
<1> HIDE DEF q
<1>2. PageOK(q)
  BY <1>1 DEF PageOK
<1> QED
  BY <1>1, <1>2 DEF q, Onward

LEMMA RawSkipped ==
  ASSUME NEW p, PageOK(p), NEW tag \in Tags
  PROVE  /\ Onward(p, [p EXCEPT !.raw = Raw(tag, "nothing", FALSE, TRUE)])
         /\ tag # "script" => Onward(p, [p EXCEPT !.raw = Raw(tag, "nothing", FALSE, FALSE)])
<1> DEFINE r == Raw(tag, "nothing", FALSE, TRUE)
           t == Raw(tag, "nothing", FALSE, FALSE)
<1>1. /\ r \in Raws /\ ~r.document /\ r.inTemplate
      /\ t \in Raws /\ ~t.document /\ t.name = tag
  BY Held DEF Raw, Raws
<1> HIDE DEF r, t
<1>2. Onward(p, [p EXCEPT !.raw = r]) /\ (tag # "script" => Onward(p, [p EXCEPT !.raw = t]))
  BY <1>1, RawOpened
<1> QED
  BY <1>2 DEF r, t

LEMMA InTemplateGrows ==
  ASSUME NEW p, PageOK(p), NEW tag \in Tags
  PROVE  Onward(p, InTemplate(p, tag))
<1> USE DEF InTemplate, TEMPLATE_RAW, IGNORED_RAW
<1>1. CASE tag = "template"
  <2>1. p.template + 1 \in Nat
    BY DEF PageOK, PageTypes
  <2> QED
    BY <1>1, <2>1, Nested
<1>2. CASE tag = "plaintext"
  BY <1>2, Malformed
<1>3. CASE tag \in TEMPLATE_RAW
  <2>1. InTemplate(p, tag) = [p EXCEPT !.raw = Raw(tag, "nothing", FALSE, TRUE)]
    BY <1>3
  <2> QED
    BY <2>1, RawSkipped
<1>4. CASE tag \notin TEMPLATE_RAW /\ tag # "template" /\ tag # "plaintext"
  BY <1>4, Stays
<1> QED
  BY <1>1, <1>2, <1>3, <1>4

LEMMA CardGrows ==
  ASSUME NEW p, PageOK(p), p.live = "none", NEW holds \in Durations
  PROVE  Onward(p, Card(p, holds))
<1>1. Card(p, holds) \in {p, [p EXCEPT !.live = "live"], [p EXCEPT !.live = "ended"],
                              [p EXCEPT !.live = "odd"]}
  BY DEF Card, Durations
<1> QED
  BY <1>1, Carded, Stays

LEMMA ContractedGrows ==
  ASSUME NEW p, PageOK(p), NEW tag \in Tags \ {"body", "div"}, NEW holds \in Values(tag),
         tag = "title" => ~p.body
  PROVE  Onward(p, Contracted(p, tag, holds))
<1> DEFINE q == Contracted(p, tag, holds)
<1>1. CASE tag = "plaintext"
  <2>1. q = [p EXCEPT !.plaintext = TRUE]
    BY <1>1 DEF Contracted, IGNORED_RAW
  <2> QED
    BY <2>1, PlaintextBegun
<1>2. CASE tag = "template"
  <2>1. q = [p EXCEPT !.template = 1]
    BY <1>2 DEF Contracted, IGNORED_RAW
  <2> QED
    BY <2>1, Nested
<1>3. CASE tag \in {"title", "script", "noscript"}
  <2> DEFINE d == (tag = "title")
             r == Raw(tag, holds, d, FALSE)
  <2>1. q = [p EXCEPT !.raw = r]
    BY <1>3 DEF Contracted, IGNORED_RAW
  <2>2. /\ holds \in Contents /\ (tag = "title" => holds \in Texts)
        /\ (tag = "script" => holds \in Ids)
    BY Held
  <2>3. d \in BOOLEAN /\ (d => tag = "title" /\ holds \in Texts /\ ~p.body)
    BY <2>2
  <2> HIDE DEF d
  <2>4. /\ r \in Raws /\ r.document = d /\ r.name = tag /\ r.holds = holds
        /\ (r.document => d)
    BY <2>2, <2>3 DEF Raw, Raws
  <2> HIDE DEF r
  <2> QED
    BY <2>1, <2>2, <2>3, <2>4, RawOpened
<1>4. CASE tag = "form"
  <2> DEFINE b == p.challenge \/ holds = "challenge"
  <2>1. q = [p EXCEPT !.challenge = b]
    BY <1>4 DEF Contracted, IGNORED_RAW
  <2>2. b \in BOOLEAN /\ (p.challenge => b)
    OBVIOUS
  <2> HIDE DEF b
  <2> QED
    BY <2>1, <2>2, Challenged
<1>5. CASE tag = "iframe"
  <2> DEFINE e == p.embeds \cup Named(holds)
             n == [p EXCEPT !.embeds = e]
  <2>1. q = [n EXCEPT !.raw = Raw("iframe", "nothing", FALSE, FALSE)]
    BY <1>5 DEF Contracted, IGNORED_RAW
  <2>2. p.embeds \in SUBSET Embeds /\ Named(holds) \subseteq Embeds
    <3>1. holds \in Ids
      BY <1>5, Held
    <3> QED
      BY <3>1, IdsNamed DEF PageOK, PageTypes
  <2>3. e \in SUBSET Embeds /\ p.embeds \subseteq e
    BY <2>2
  <2> HIDE DEF e
  <2>4. Onward(p, n)
    BY <2>3, Embedded
  <2> HIDE DEF n
  <2>5. Onward(n, q)
    BY <2>1, <2>4, RawSkipped, Held DEF Onward
  <2> QED
    BY <2>4, <2>5, OnAndOn
<1> QED
  BY <1>1, <1>2, <1>3, <1>4, <1>5, Held

LEMMA StartGrows ==
  ASSUME NEW p, PageOK(p), NEW tag \in Tags, NEW holds \in Values(tag), NEW bad \in BOOLEAN
  PROVE  Onward(p, handle_starttag(p, tag, holds, bad))
<1> DEFINE q == handle_starttag(p, tag, holds, bad)
<1>1. CASE p.plaintext
  BY <1>1, Stays DEF handle_starttag
<1>2. CASE ~p.plaintext /\ p.raw # NoRaw
  <2> DEFINE b == p.malformed \/ p.raw.document
  <2>1. q = [p EXCEPT !.malformed = b]
    BY <1>2 DEF handle_starttag
  <2>2. b \in BOOLEAN /\ (p.malformed => b)
    OBVIOUS
  <2> HIDE DEF b
  <2> QED
    BY <2>1, <2>2, Malformed
<1>3. CASE ~p.plaintext /\ p.raw = NoRaw /\ p.template > 0
  <2>1. q = IF bad THEN [p EXCEPT !.malformed = TRUE] ELSE InTemplate(p, tag)
    BY <1>3 DEF handle_starttag
  <2> QED
    BY <2>1, Malformed, InTemplateGrows
<1>4. CASE ~p.plaintext /\ p.raw = NoRaw /\ ~(p.template > 0)
  <2>1. CASE tag = "body"
    <3>1. q = [p EXCEPT !.body = TRUE]
      BY <1>4, <2>1 DEF handle_starttag
    <3>2. ~p.raw.document
      BY <1>4 DEF NoRaw
    <3> QED
      BY <3>1, <3>2, BodyBegun
  <2>2. CASE tag = "title" /\ p.body
    <3>1. q = [p EXCEPT !.raw = Raw(tag, "nothing", FALSE, FALSE)]
      BY <1>4, <2>2 DEF handle_starttag
    <3> QED
      BY <2>2, <3>1, RawSkipped
  <2>3. CASE tag = "div"
    <3>1. q = IF p.live = "none" THEN Card(p, holds) ELSE p
      BY <1>4, <2>3 DEF handle_starttag
    <3>2. holds \in Durations
      BY <2>3, Held
    <3> QED
      BY <3>1, <3>2, CardGrows, Stays
  <2>4. CASE tag \notin {"body", "div"} /\ ~(tag = "title" /\ p.body)
    <3>1. q = IF bad THEN [p EXCEPT !.malformed = TRUE] ELSE Contracted(p, tag, holds)
      BY <1>4, <2>4 DEF handle_starttag
    <3>2. Onward(p, Contracted(p, tag, holds))
      BY <2>4, ContractedGrows
    <3> QED
      BY <3>1, <3>2, Malformed
  <2> QED
    BY <2>1, <2>2, <2>3, <2>4
<1> QED
  BY <1>1, <1>2, <1>3, <1>4

\* The title collected in the head is the only one that is added.
LEMMA RawEndsGrows ==
  ASSUME NEW p, PageOK(p)
  PROVE  Onward(p, RawEnds(p))
<1> DEFINE q == [p EXCEPT !.raw = NoRaw]
<1>1. Onward(p, q) /\ q.titles = p.titles /\ q.body = p.body /\ q.embeds = p.embeds
  <2>1. /\ q \in PageTypes /\ q.raw = NoRaw /\ Grows(p, q) /\ q.titles = p.titles
        /\ q.body = p.body /\ q.embeds = p.embeds
    BY Held DEF PageOK, PageTypes, Grows
  <2>2. ~NoRaw.document /\ NoRaw.name # "script"
    BY DEF NoRaw
  <2> HIDE DEF q
  <2> QED
    BY <2>1, <2>2 DEF PageOK, Onward
<1>2. CASE p.raw.inTemplate
  BY <1>1, <1>2 DEF RawEnds
<1>3. CASE ~p.raw.inTemplate /\ p.raw.document
  <2>1. p.raw.name = "title" /\ p.raw.holds \in Texts /\ ~p.body
    BY <1>3 DEF PageOK
  <2> DEFINE more == IF Len(q.titles) < 2 THEN Append(q.titles, p.raw.holds) ELSE q.titles
             n == [q EXCEPT !.titles = more]
  <2>2. /\ p.raw.holds = "long" => RawEnds(p) = [q EXCEPT !.malformed = TRUE]
        /\ p.raw.holds = "blank" => RawEnds(p) = q
        /\ p.raw.holds \notin {"long", "blank"} => RawEnds(p) = n
    <3>1. RawEnds(p) = CASE p.raw.holds = "long" -> [q EXCEPT !.malformed = TRUE]
                         [] p.raw.holds = "blank" -> q
                         [] OTHER -> n
      BY <1>3, <2>1 DEF RawEnds
    <3> HIDE DEF q, more, n
    <3> QED
      BY <3>1
  <2>3. p.titles \in Seq(Texts)
    BY DEF PageOK, PageTypes
  <2> HIDE DEF q
  <2>4. more \in Seq(Texts)
    BY <1>1, <2>1, <2>3
  <2> HIDE DEF more
  <2>5. Onward(q, n) /\ Onward(q, [q EXCEPT !.malformed = TRUE])
    BY <1>1, <2>1, <2>4, Titled, Malformed DEF Onward
  <2> HIDE DEF n
  <2>6. Onward(p, n) /\ Onward(p, [q EXCEPT !.malformed = TRUE])
    BY <1>1, <2>5, OnAndOn
  <2> QED
    BY <1>1, <2>2, <2>6
<1>4. CASE ~p.raw.inTemplate /\ ~p.raw.document /\ p.raw.name = "script"
  <2> DEFINE e == q.embeds \cup Named(p.raw.holds)
             n == [q EXCEPT !.embeds = e]
  <2>1. RawEnds(p) = n
    BY <1>4 DEF RawEnds
  <2>2. p.embeds \in SUBSET Embeds /\ Named(p.raw.holds) \subseteq Embeds
    <3>1. p.raw.holds \in Ids
      BY <1>4 DEF PageOK
    <3> QED
      BY <3>1, IdsNamed DEF PageOK, PageTypes
  <2> HIDE DEF q
  <2>3. e \in SUBSET Embeds /\ q.embeds \subseteq e
    BY <1>1, <2>2
  <2> HIDE DEF e
  <2>4. Onward(q, n)
    BY <1>1, <2>3, Embedded DEF Onward
  <2> QED
    BY <1>1, <2>1, <2>4, OnAndOn
<1>5. CASE ~p.raw.inTemplate /\ ~p.raw.document /\ p.raw.name # "script"
  BY <1>1, <1>5 DEF RawEnds
<1> QED
  BY <1>2, <1>3, <1>4, <1>5

LEMMA EndGrows ==
  ASSUME NEW p, PageOK(p), NEW tag \in Tags, NEW bad \in BOOLEAN
  PROVE  /\ Onward(p, parse_endtag(p, tag, bad))
         /\ bad /\ ~(p.template = 0 /\ tag \notin PAGE_CONTRACT_TAGS) =>
              parse_endtag(p, tag, bad).malformed
<1> DEFINE b == p.malformed \/ bad
           q == [p EXCEPT !.malformed = b]
           e == parse_endtag(p, tag, bad)
<1>1. Onward(p, q)
  <2>1. b \in BOOLEAN /\ (p.malformed => b)
    OBVIOUS
  <2> HIDE DEF b
  <2> QED
    BY <2>1, Malformed
<1>2. CASE p.template = 0 /\ tag \notin PAGE_CONTRACT_TAGS
  BY <1>2, Stays DEF parse_endtag
<1>3. CASE ~(p.template = 0 /\ tag \notin PAGE_CONTRACT_TAGS)
  <2>1. e = CASE q.plaintext -> q
              [] ~q.plaintext /\ q.raw # NoRaw ->
                   IF tag = q.raw.name
                   THEN RawEnds(q)
                   ELSE [q EXCEPT !.malformed = @ \/ q.raw.document]
              [] OTHER -> IF tag = "template" /\ q.template > 0
                          THEN [q EXCEPT !.template = @ - 1]
                          ELSE q
    BY <1>3 DEF parse_endtag
  <2> DEFINE d == q.malformed \/ q.raw.document
  <2> HIDE DEF q, e
  <2>2. \/ e \in {q, RawEnds(q), [q EXCEPT !.malformed = d]}
        \/ q.template > 0 /\ e = [q EXCEPT !.template = q.template - 1]
    BY <2>1
  <2>3. PageOK(q)
    BY <1>1 DEF Onward
  <2>4. d \in BOOLEAN /\ (q.malformed => d)
    OBVIOUS
  <2> HIDE DEF d
  <2>5. Onward(q, q) /\ Onward(q, RawEnds(q)) /\ Onward(q, [q EXCEPT !.malformed = d])
    BY <2>3, <2>4, RawEndsGrows, Malformed, Stays
  <2>6. ASSUME q.template > 0
        PROVE  Onward(q, [q EXCEPT !.template = q.template - 1])
    <3>1. q.template - 1 \in Nat
      BY <2>3, <2>6 DEF PageOK, PageTypes
    <3> QED
      BY <2>3, <3>1, Nested
  <2>7. Onward(q, e)
    BY <2>2, <2>5, <2>6
  <2>8. Onward(p, e)
    BY <1>1, <2>7, OnAndOn
  <2>9. bad => q.malformed
    BY DEF q, PageOK, PageTypes
  <2>10. bad => e.malformed
    BY <2>7, <2>9 DEF Onward, Grows
  <2> QED
    BY <2>8, <2>10 DEF e
<1> QED
  BY <1>2, <1>3

(***************************************************************************)
(* What a prefix decides.                                                   *)
(***************************************************************************)
LEMMA OnlyOne == \A e : Only({e}) = e
<1> SUFFICES ASSUME NEW e PROVE Only({e}) = e
  OBVIOUS
<1>1. \E d \in {e} : {e} = {d}
  OBVIOUS
<1>2. Only({e}) \in {e}
  BY <1>1 DEF Only
<1> QED
  BY <1>2

LEMMA StandingGrows ==
  ASSUME NEW says, NEW p, NEW q, Standing(says, p), Onward(p, q)
  PROVE  Standing(says, q)
  BY DEF Standing, Onward, Grows, Interstitial

LEMMA PrefixStands ==
  ASSUME NEW p, PageOK(p), parse_channel_page_prefix(p) # NoContract
  PROVE  Standing(parse_channel_page_prefix(p), p)
<1> DEFINE says == parse_channel_page_prefix(p)
           one == \E e \in Embeds : p.embeds = {e}
<1>1. ~p.malformed /\ p.body /\ Len(p.titles) = 1
  BY DEF parse_channel_page_prefix
<1>2. says = CASE Interstitial(p) -> Contract("INTERSTITIAL", "none")
               [] ~Interstitial(p) /\ p.live = "ended" -> Contract("OFFLINE", "none")
               [] ~Interstitial(p) /\ p.live = "live" /\ one ->
                    Contract("LIVE", Only(p.embeds))
               [] OTHER -> NoContract
  BY <1>1 DEF parse_channel_page_prefix
<1>3. one => Only(p.embeds) \in p.embeds
  BY OnlyOne
<1> HIDE DEF says, one
<1>4. CASE Interstitial(p)
  <2>1. says = Contract("INTERSTITIAL", "none")
    BY <1>2, <1>4
  <2> QED
    BY <1>1, <1>4, <2>1 DEF Standing, Contract, says
<1>5. CASE ~Interstitial(p) /\ p.live = "ended"
  <2>1. says = Contract("OFFLINE", "none")
    BY <1>2, <1>5
  <2> QED
    BY <1>1, <1>5, <2>1 DEF Standing, Contract, says
<1>6. CASE ~Interstitial(p) /\ p.live # "ended"
  <2>1. p.live = "live" /\ one /\ says = Contract("LIVE", Only(p.embeds))
    BY <1>2, <1>6 DEF says
  <2> QED
    BY <1>1, <1>3, <2>1 DEF Standing, Contract, says
<1> QED
  BY <1>4, <1>5, <1>6

LEMMA StandsWhole ==
  ASSUME NEW says, NEW p, PageOK(p), NEW torn \in BOOLEAN, Standing(says, p)
  PROVE  LET whole == parse_page_contract(p, torn)
         IN  whole = says \/ whole.state \in
               CASE says.state = "LIVE" -> {"SCHEMA", "INTERSTITIAL", "EMBED_AMBIGUOUS"}
                 [] says.state = "OFFLINE" -> {"SCHEMA", "INTERSTITIAL"}
                 [] says.state = "INTERSTITIAL" -> {"SCHEMA"}
                 [] OTHER -> {}
<1> DEFINE whole == parse_page_contract(p, torn)
           may == CASE says.state = "LIVE" -> {"SCHEMA", "INTERSTITIAL", "EMBED_AMBIGUOUS"}
                    [] says.state = "OFFLINE" -> {"SCHEMA", "INTERSTITIAL"}
                    [] says.state = "INTERSTITIAL" -> {"SCHEMA"}
                    [] OTHER -> {}
<1> SUFFICES whole = says \/ whole.state \in may
  OBVIOUS
<1>1. /\ says.state \in {"LIVE", "OFFLINE", "INTERSTITIAL"} /\ "SCHEMA" \in may
      /\ says.state # "INTERSTITIAL" => "INTERSTITIAL" \in may
      /\ says.state = "LIVE" => "EMBED_AMBIGUOUS" \in may
  BY DEF Standing
<1>2. CASE p.malformed \/ torn \/ p.raw # NoRaw \/ p.template > 0
  <2>1. whole.state = "SCHEMA"
    BY <1>2 DEF parse_page_contract, Contract
  <2> QED
    BY <1>1, <2>1
<1>3. CASE ~(p.malformed \/ torn \/ p.raw # NoRaw \/ p.template > 0)
  <2>1. p.body /\ Len(p.titles) = 1
    BY <1>3 DEF Standing
  <2> DEFINE one ==
          CASE Interstitial(p) -> Contract("INTERSTITIAL", "none")
            [] ~Interstitial(p) /\ p.live = "odd" -> Contract("SCHEMA", "none")
            [] ~Interstitial(p) /\ p.live = "ended" -> Contract("OFFLINE", "none")
            [] ~Interstitial(p) /\ p.live \in {"none", "live"} ->
                 CASE p.embeds = {} ->
                        Contract(IF p.live = "live" THEN "SCHEMA" ELSE "OFFLINE", "none")
                   [] \E e \in Embeds : p.embeds = {e} -> Contract("LIVE", Only(p.embeds))
                   [] OTHER -> Contract("EMBED_AMBIGUOUS", "none")
  <2>2. whole = one
    <3>1. whole = IF p.malformed \/ torn \/ p.raw # NoRaw \/ p.template > 0
                  THEN Contract("SCHEMA", "none")
                  ELSE CASE Len(p.titles) = 0 -> Contract("TITLE_MISSING", "none")
                         [] Len(p.titles) = 2 -> Contract("TITLE_AMBIGUOUS", "none")
                         [] Len(p.titles) = 1 -> one
      BY Zenon DEF parse_page_contract
    <3> HIDE DEF whole, one
    <3> QED
      BY <1>3, <2>1, <3>1
  <2> HIDE DEF whole, may
  <2>3. CASE Interstitial(p)
    <3>1. whole = Contract("INTERSTITIAL", "none")
      BY <2>2, <2>3
    <3>2. whole.state = "INTERSTITIAL"
      BY <3>1 DEF Contract
    <3> QED
      BY <1>1, <1>3, <3>1, <3>2 DEF Standing
  <2>4. CASE ~Interstitial(p) /\ says.state = "OFFLINE"
    <3>1. says = Contract("OFFLINE", "none") /\ p.live = "ended"
      BY <1>3, <2>4 DEF Standing
    <3> QED
      BY <2>2, <2>4, <3>1
  <2>5. CASE ~Interstitial(p) /\ says.state = "LIVE"
    <3>1. /\ says.embed \in p.embeds /\ says = Contract("LIVE", says.embed)
          /\ p.live = "live"
      BY <1>3, <2>5 DEF Standing
    <3>2. whole = IF \E e \in Embeds : p.embeds = {e} THEN Contract("LIVE", Only(p.embeds))
                  ELSE Contract("EMBED_AMBIGUOUS", "none")
      BY <2>2, <2>5, <3>1
    <3>3. CASE \E e \in Embeds : p.embeds = {e}
      BY <3>1, <3>2, <3>3, OnlyOne
    <3>4. CASE ~\E e \in Embeds : p.embeds = {e}
      <4>1. whole.state = "EMBED_AMBIGUOUS"
        BY <3>2, <3>4 DEF Contract
      <4> QED
        BY <1>1, <2>5, <4>1
    <3> QED
      BY <3>3, <3>4
  <2>6. ~(~Interstitial(p) /\ says.state = "INTERSTITIAL")
    BY <1>3 DEF Standing
  <2> QED
    BY <1>1, <2>3, <2>4, <2>5, <2>6
<1> QED
  BY <1>2, <1>3

\* Every tag that arrives is a step of the validator's parser.
LEMMA ArrivesGrows ==
  ASSUME PageOK(page), Arrives
  PROVE  Onward(page, page') /\ sent = "part" /\ UNCHANGED <<sent, told, plugin>>
<1>1. ASSUME NEW tag \in Tags, NEW read \in Holds(tag), NEW grammar \in Grammars(tag),
             StartTag(tag, read, grammar)
      PROVE  Onward(page, page') /\ sent = "part" /\ UNCHANGED <<sent, told, plugin>>
  <2> DEFINE bad == grammar # "no"
  <2>1. bad \in BOOLEAN /\ read.page \in Values(tag)
    BY HeldRead
  <2>2. page' = handle_starttag(page, tag, read.page, bad)
    BY <1>1 DEF StartTag
  <2> HIDE DEF bad
  <2>3. Onward(page, page')
    BY <2>1, <2>2, StartGrows
  <2> QED
    BY <1>1, <2>3 DEF StartTag, Continues
<1>2. ASSUME NEW tag \in Tags, NEW read \in Holds(tag), NEW grammar \in Grammars(tag),
             StartEndTag(tag, read, grammar)
      PROVE  Onward(page, page') /\ sent = "part" /\ UNCHANGED <<sent, told, plugin>>
  <2> DEFINE slashed == grammar # "no" \/ (tag \in {"title", "script"} /\ page.template = 0)
  <2>1. slashed \in BOOLEAN /\ read.page \in Values(tag)
    BY HeldRead
  <2>2. page' = handle_starttag(page, tag, read.page, slashed)
    BY <1>2 DEF StartEndTag
  <2> HIDE DEF slashed
  <2>3. Onward(page, page')
    BY <2>1, <2>2, StartGrows
  <2> QED
    BY <1>2, <2>3 DEF StartEndTag, Continues
<1>3. ASSUME NEW tag \in Tags, NEW bad \in BOOLEAN, EndTag(tag, bad)
      PROVE  Onward(page, page') /\ sent = "part" /\ UNCHANGED <<sent, told, plugin>>
  BY <1>3, EndGrows DEF EndTag
<1> QED
  BY <1>1, <1>2, <1>3 DEF Arrives

LEMMA PageNew == PageOK(NewPage)
<1>1. /\ NewPage.raw = NoRaw /\ NewPage \in PageTypes
      /\ ~NoRaw.document /\ NoRaw.name = "none"
  BY Held DEF NewPage, PageTypes, NoRaw
<1> QED
  BY <1>1 DEF PageOK

LEMMA DecidedStep ==
  ASSUME PageOK(page), Decided, [Next]_vars
  PROVE  PageOK(page)' /\ Decided'
<1>1. CASE Arrives
  <2>1. Onward(page, page') /\ sent = "part" /\ UNCHANGED <<sent, told>>
    BY <1>1, ArrivesGrows
  <2>2. told # NoContract => Standing(told, page')
    BY <2>1, StandingGrows DEF Decided
  <2> QED
    BY <2>1, <2>2 DEF Onward, Decided
<1>2. CASE PageEnds
  BY <1>2 DEF PageEnds, Decided
<1>3. CASE ReadChunk
  <2> DEFINE prefix == parse_channel_page_prefix(page)
  <2>1. UNCHANGED <<page, sent>> /\ told' = IF prefix # NoContract \/ sent = "part" THEN prefix
                                 ELSE parse_page_contract(page, sent = "torn")
    BY <1>3 DEF ReadChunk
  <2>2. prefix # NoContract => Standing(prefix, page)
    BY PrefixStands
  <2> HIDE DEF prefix
  <2> QED
    BY <2>1, <2>2 DEF Decided
<1>4. CASE ResolvePage
  BY <1>4, PageNew DEF ResolvePage, PageForgotten, Decided
<1>5. CASE UNCHANGED <<page, told, sent>>
  BY <1>5 DEF Decided
<1> QED
  BY <1>1, <1>2, <1>3, <1>4, <1>5
     DEF Next, vars, ResolveEmbed, ExpandVariant, Expanded

LEMMA DecidedAlways == Spec => [](PageOK(page) /\ Decided)
<1>1. Init => PageOK(page) /\ Decided
  BY PageNew DEF Init, Decided
<1>2. PageOK(page) /\ Decided /\ [Next]_vars => (PageOK(page) /\ Decided)'
  BY DecidedStep
<1> QED
  BY <1>1, <1>2, PTL DEF Spec

\* A validator that stops at the first prefix that decides is never contradicted
\* by the tags it did not read, for any embeds and however the page goes on.
THEOREM NeverTakenBack == Spec => []PrefixNeverFlips
<1>1. PageOK(page) /\ Decided => PrefixNeverFlips
  <2> SUFFICES ASSUME PageOK(page), Decided, plugin.pc = "none", told # NoContract
               PROVE  LET whole == parse_page_contract(page, sent = "torn")
                      IN  whole = told \/ whole.state \in
                            CASE told.state = "LIVE" ->
                                   {"SCHEMA", "INTERSTITIAL", "EMBED_AMBIGUOUS"}
                              [] told.state = "OFFLINE" -> {"SCHEMA", "INTERSTITIAL"}
                              [] told.state = "INTERSTITIAL" -> {"SCHEMA"}
                              [] OTHER -> {}
    BY DEF PrefixNeverFlips
  <2> DEFINE torn == (sent = "torn")
  <2>1. torn \in BOOLEAN
    OBVIOUS
  <2>2. CASE Standing(told, page)
    <3> HIDE DEF torn
    <3>1. LET whole == parse_page_contract(page, torn)
          IN  whole = told \/ whole.state \in
                CASE told.state = "LIVE" ->
                       {"SCHEMA", "INTERSTITIAL", "EMBED_AMBIGUOUS"}
                  [] told.state = "OFFLINE" -> {"SCHEMA", "INTERSTITIAL"}
                  [] told.state = "INTERSTITIAL" -> {"SCHEMA"}
                  [] OTHER -> {}
      BY <2>1, <2>2, StandsWhole
    <3> QED
      BY <3>1 DEF torn
  <2>3. CASE ~Standing(told, page)
    BY <2>3 DEF Decided
  <2> QED
    BY <2>2, <2>3
<1> QED
  BY <1>1, DecidedAlways, PTL

(***************************************************************************)
(* The plugin's parser, and both side by side.                              *)
(***************************************************************************)
LEMMA ScannedTyped ==
  ASSUME NEW s \in ScanTypes, NEW tag \in Tags, NEW holds \in Values(tag),
         NEW twice \in BOOLEAN, tag \notin inert_tags
  PROVE  Scanned(s, tag, holds, twice) \in ScanTypes
<1> DEFINE t == Scanned(s, tag, holds, twice)
<1>1. CASE tag = "body"
  <2>1. t = [s EXCEPT !.body = TRUE]
    BY <1>1 DEF Scanned
  <2> QED
    BY <2>1 DEF ScanTypes
<1>2. CASE tag = "title"
  <2>1. t \in {s, [s EXCEPT !.inTitle = holds]} /\ holds \in Texts
    BY <1>2, Held DEF Scanned
  <2> QED
    BY <2>1 DEF ScanTypes
<1>3. CASE tag = "script"
  <2> DEFINE one == IF s.inTitle = "no" THEN <<holds>> ELSE <<"none">>
  <2>1. t \in {[s EXCEPT !.malformed = TRUE], [s EXCEPT !.script = one]} /\ holds \in Ids
    BY <1>3, Held DEF Scanned
  <2>2. one \in Seq(Ids)
    BY <2>1 DEF Ids
  <2> HIDE DEF one, t
  <2> QED
    BY <2>1, <2>2 DEF ScanTypes, t
<1>4. CASE tag = "form"
  <2> DEFINE m == s.malformed \/ twice
             c == s.challenge \/ holds = "challenge"
  <2>1. t = [s EXCEPT !.malformed = m, !.challenge = c]
    BY <1>4 DEF Scanned
  <2>2. m \in BOOLEAN /\ c \in BOOLEAN
    OBVIOUS
  <2> HIDE DEF m, c
  <2> QED
    BY <2>1, <2>2 DEF ScanTypes
<1>5. CASE tag = "div"
  <2>1. t \in {s, [s EXCEPT !.first = "0"], [s EXCEPT !.first = "60"],
               [s EXCEPT !.malformed = TRUE]}
    BY <1>5 DEF Scanned
  <2> QED
    BY <2>1 DEF ScanTypes
<1>6. CASE tag = "iframe"
  <2>1. /\ t \in {[s EXCEPT !.malformed = TRUE],
                  [s EXCEPT !.embeds = s.embeds \cup Named(holds)]}
        /\ holds \in Ids
    BY <1>6, Held DEF Scanned
  <2>2. s.embeds \cup Named(holds) \in SUBSET Embeds
    BY <2>1, IdsNamed DEF ScanTypes
  <2> QED
    BY <2>1, <2>2 DEF ScanTypes
<1> QED
  BY <1>1, <1>2, <1>3, <1>4, <1>5, <1>6, Held DEF inert_tags

LEMMA ScanStartTyped ==
  ASSUME NEW s \in ScanTypes, NEW tag \in Tags, NEW holds \in Values(tag), NEW twice \in BOOLEAN
  PROVE  ScanStart(s, tag, holds, twice) \in ScanTypes
<1>1. CASE tag \in inert_tags
  <2> DEFINE deeper == Append(s.inert, tag)
  <2>1. ScanStart(s, tag, holds, twice) = [s EXCEPT !.inert = deeper]
    BY <1>1 DEF ScanStart
  <2>2. deeper \in Seq(inert_tags)
    BY <1>1 DEF ScanTypes
  <2> HIDE DEF deeper
  <2> QED
    BY <2>1, <2>2 DEF ScanTypes
<1>2. CASE tag \notin inert_tags
  BY <1>2, ScannedTyped DEF ScanStart
<1> QED
  BY <1>1, <1>2

LEMMA ScanEndTyped ==
  ASSUME NEW s \in ScanTypes, NEW tag \in Tags
  PROVE  ScanEnd(s, tag) \in ScanTypes /\ ScanEnd(s, tag).malformed = s.malformed
<1> DEFINE t == ScanEnd(s, tag)
           more == IF s.inTitle = "blank" \/ Len(s.titles) = 2 THEN s.titles
                   ELSE Append(s.titles, s.inTitle)
           front == Front(s.inert)
           e == s.embeds \cup Named(s.script[1])
<1>1. CASE s.inert # <<>>
  <2>1. t \in {s, [s EXCEPT !.inert = front]}
    BY <1>1 DEF ScanEnd
  <2>2. front \in Seq(inert_tags)
    BY <1>1 DEF Front, ScanTypes
  <2> HIDE DEF front
  <2> QED
    BY <2>1, <2>2 DEF ScanTypes
<1>2. CASE s.inert = <<>> /\ tag = "title" /\ s.inTitle # "no"
  <2>1. t = [s EXCEPT !.titles = more, !.inTitle = "no"]
    BY <1>2 DEF ScanEnd
  <2>2. more \in Seq(Texts)
    BY <1>2 DEF ScanTypes
  <2> HIDE DEF more
  <2> QED
    BY <2>1, <2>2 DEF ScanTypes
<1>3. CASE s.inert = <<>> /\ tag = "script" /\ s.script # <<>>
  <2>1. t = [s EXCEPT !.embeds = e, !.script = <<>>]
    BY <1>3 DEF ScanEnd
  <2>2. s.script[1] \in Ids /\ s.embeds \in SUBSET Embeds
    BY <1>3 DEF ScanTypes
  <2> DEFINE none == <<>>
  <2>3. e \in SUBSET Embeds /\ none \in Seq(Ids) /\ t = [s EXCEPT !.embeds = e, !.script = none]
    BY <2>1, <2>2, IdsNamed
  <2> HIDE DEF e, none, t
  <2>4. t \in ScanTypes /\ t.malformed = s.malformed
    BY <2>3 DEF ScanTypes
  <2> QED
    BY <2>4 DEF t
<1>4. CASE /\ s.inert = <<>> /\ ~(tag = "title" /\ s.inTitle # "no")
           /\ ~(tag = "script" /\ s.script # <<>>)
  BY <1>4 DEF ScanEnd
<1> QED
  BY <1>1, <1>2, <1>3, <1>4

LEMMA PageNewScan == NewScan \in ScanTypes /\ Alongside(NewPage, NewScan)
<1>1. NewScan \in ScanTypes
  BY DEF NewScan, ScanTypes, Texts
<1>2. Same(NewPage, NewScan) /\ Outside(NewPage, NewScan)
  BY DEF NewPage, NewScan, Same, Outside, Open
<1> QED
  BY <1>1, <1>2 DEF Alongside

LEMMA RawFields ==
  /\ NoRaw.name = "none" /\ ~NoRaw.document
  /\ \A holds : /\ NoRaw # Raw("title", holds, TRUE, FALSE)
                /\ NoRaw # Raw("title", holds, FALSE, FALSE)
                /\ NoRaw # Raw("script", holds, FALSE, FALSE)
                /\ NoRaw # Raw("script", holds, FALSE, TRUE)
                /\ NoRaw # Raw("iframe", holds, FALSE, FALSE)
                /\ NoRaw # Raw("noscript", holds, FALSE, FALSE)
  BY DEF NoRaw, Raw

\* A tag that starts where nothing is open.
LEMMA OutsideStarts ==
  ASSUME NEW p, PageOK(p), NEW s \in ScanTypes, NEW tag \in Tags,
         NEW holds \in Values(tag), NEW bad \in BOOLEAN,
         NEW twice \in BOOLEAN, twice => bad,
         Same(p, s), Outside(p, s), p.raw = NoRaw, ~p.malformed, ~s.malformed
  PROVE  LET q == handle_starttag(p, tag, holds, bad)
         IN  /\ Alongside(q, ScanStart(s, tag, holds, twice))
             /\ q.raw.name = "script" => tag = "script"
<1> DEFINE q == handle_starttag(p, tag, holds, bad)
           t == ScanStart(s, tag, holds, twice)
<1> SUFFICES Alongside(q, t) /\ (q.raw.name = "script" => tag = "script")
  OBVIOUS
<1>1. /\ ~p.plaintext /\ p.template = 0 /\ s.inert = <<>> /\ s.inTitle = "no"
      /\ s.script = <<>> /\ p \in PageTypes /\ NoRaw.name = "none"
  <2>1. s.inTitle = "no" /\ s.script = <<>>
    <3>1. /\ \A text \in Texts : NoRaw # Raw("title", text, TRUE, FALSE)
          /\ \A id \in Ids : NoRaw # Raw("script", id, FALSE, FALSE)
      BY DEF NoRaw, Raw
    <3> QED
      BY <3>1 DEF Outside, Open
  <2> QED
    BY <2>1, RawFields DEF Outside, PageOK
<1>2. CASE tag = "body"
  <2>1. q = [p EXCEPT !.body = TRUE] /\ t = [s EXCEPT !.body = TRUE]
    BY <1>1, <1>2 DEF handle_starttag, ScanStart, Scanned, inert_tags
  <2>2. Same(q, t) /\ Outside(q, t) /\ q.raw = NoRaw
    BY <1>1, <2>1 DEF Same, Outside, Open, PageTypes, ScanTypes
  <2> QED
    BY <1>1, <2>2 DEF Alongside
<1>3. CASE tag = "div"
  <2>1. /\ q = IF p.live = "none" THEN Card(p, holds) ELSE p
        /\ t = CASE s.first # "none" \/ holds = "none" -> s
                 [] s.first = "none" /\ holds \in {"0", "60"} ->
                      [s EXCEPT !.first = holds]
                 [] OTHER -> [s EXCEPT !.malformed = TRUE]
    BY <1>1, <1>3 DEF handle_starttag, ScanStart, Scanned, inert_tags
  <2>2. holds \in Durations /\ (p.live = "none" <=> s.first = "none")
    BY <1>3, Held DEF Same
  <2>3. \/ q = p /\ t = s
        \/ q = [p EXCEPT !.live = "live"] /\ t = [s EXCEPT !.first = "0"]
        \/ q = [p EXCEPT !.live = "ended"] /\ t = [s EXCEPT !.first = "60"]
        \/ q = [p EXCEPT !.live = "odd"] /\ t = [s EXCEPT !.malformed = TRUE]
    BY <2>1, <2>2 DEF Card, Durations
  <2>4. q.raw = NoRaw
    BY <1>1, <2>3 DEF PageTypes
  <2>5. (Same(q, t) /\ Outside(q, t)) \/ t.malformed
    BY <1>1, <2>3 DEF Same, Outside, Open, PageTypes, ScanTypes
  <2> QED
    BY <1>1, <2>4, <2>5 DEF Alongside
<1>4. CASE tag = "title" /\ p.body
  <2> DEFINE r == Raw("title", "nothing", FALSE, FALSE)
  <2>1. q = [p EXCEPT !.raw = r]
    BY <1>1, <1>4 DEF handle_starttag
  <2>2. s.body
    BY <1>4 DEF Same
  <2>3. t = s
    BY <1>1, <1>4, <2>2 DEF ScanStart, Scanned, inert_tags
  <2>4. r.name = "title"
    BY DEF Raw
  <2>5. Open(q, s)
    <3>1. q.raw = r
      BY <1>1, <2>1 DEF PageTypes
    <3> HIDE DEF q
    <3> QED
      BY <1>1, <3>1 DEF Open
  <2> HIDE DEF r, q, t
  <2>6. Same(q, t) /\ Outside(q, t) /\ q.raw = r
    BY <1>1, <2>1, <2>3, <2>5 DEF Same, Outside, PageTypes
  <2> QED
    BY <1>4, <2>4, <2>6 DEF Alongside
<1>5. CASE tag \notin {"body", "div"} /\ ~(tag = "title" /\ p.body) /\ bad
  <2>1. q = [p EXCEPT !.malformed = TRUE]
    BY <1>1, <1>5 DEF handle_starttag
  <2>2. q.malformed /\ q.raw = p.raw
    BY <1>1, <2>1 DEF PageTypes
  <2> QED
    BY <1>1, <2>2 DEF Alongside
<1>6. CASE tag \notin {"body", "div"} /\ ~(tag = "title" /\ p.body) /\ ~bad
  <2>1. q = Contracted(p, tag, holds)
    <3>1. q = IF bad THEN [p EXCEPT !.malformed = TRUE] ELSE Contracted(p, tag, holds)
      <4>1. ~p.plaintext /\ ~(p.raw # NoRaw) /\ ~(p.template > 0)
        BY <1>1
      <4>2. tag # "body" /\ tag # "div" /\ ~(tag = "title" /\ p.body)
        BY <1>6
      <4> QED
        BY <4>1, <4>2 DEF handle_starttag
    <3> QED
      BY <1>6, <3>1
  <2>2. t = IF tag \in inert_tags THEN [s EXCEPT !.inert = Append(s.inert, tag)]
            ELSE Scanned(s, tag, holds, twice)
    BY <1>1 DEF ScanStart
  <2>3. CASE tag \in inert_tags
    <3>1. t = [s EXCEPT !.inert = <<tag>>]
      BY <1>1, <2>2, <2>3
    <3>2. CASE tag = "plaintext"
      <4>1. q = [p EXCEPT !.plaintext = TRUE]
        BY <2>1, <3>2 DEF Contracted, IGNORED_RAW
      <4>2. Same(q, t) /\ InPlaintext(q, t) /\ q.raw = NoRaw
        BY <1>1, <3>1, <3>2, <4>1 DEF Same, InPlaintext, PageTypes, ScanTypes
      <4> QED
        BY <1>1, <4>2 DEF Alongside
    <3>3. CASE tag = "template"
      <4>1. q = [p EXCEPT !.template = 1]
        BY <2>1, <3>3 DEF Contracted, IGNORED_RAW
      <4>2. Same(q, t) /\ InBothTemplates(q, t) /\ q.raw = NoRaw
        BY <1>1, <3>1, <3>3, <4>1 DEF Same, InBothTemplates, PageTypes, ScanTypes
      <4> QED
        BY <1>1, <4>2 DEF Alongside
    <3>4. CASE tag = "noscript"
      <4> DEFINE d == (tag = "title")
      <4>1. q = [p EXCEPT !.raw = Raw(tag, holds, d, FALSE)] /\ holds = "nothing"
        BY <2>1, <3>4 DEF Contracted, IGNORED_RAW, Values
      <4> DEFINE r == Raw("noscript", "nothing", FALSE, FALSE)
      <4>2. Raw(tag, holds, d, FALSE) = r /\ r.name = "noscript"
        BY <3>4, <4>1 DEF Raw
      <4>3. q = [p EXCEPT !.raw = r]
        BY <4>1, <4>2
      <4> HIDE DEF d, r, q, t
      <4>4. Same(q, t) /\ q.raw = r
        BY <1>1, <3>1, <4>3 DEF Same, PageTypes, ScanTypes, t
      <4>5. /\ ~q.plaintext /\ q.template = 0 /\ t.inert = <<"noscript">>
            /\ t.inTitle = "no" /\ t.script = <<>>
        BY <1>1, <3>1, <3>4, <4>3 DEF PageTypes, ScanTypes, t
      <4>6. InNoscript(q, t)
        BY <4>4, <4>5 DEF InNoscript, r
      <4> QED
        BY <4>2, <4>4, <4>6 DEF Alongside
    <3> QED
      BY <2>3, <3>2, <3>3, <3>4 DEF inert_tags
  <2>4. CASE tag \in {"title", "script"}
    <3> DEFINE d == (tag = "title")
    <3>1. q = [p EXCEPT !.raw = Raw(tag, holds, d, FALSE)]
      BY <2>1, <2>4 DEF Contracted, IGNORED_RAW
    <3>2. d \in BOOLEAN /\ (d <=> tag = "title")
      OBVIOUS
    <3> HIDE DEF d
    <3>3. ~s.body = ~p.body
      BY DEF Same
    <3>4. CASE tag = "title"
      <4>1. t = [s EXCEPT !.inTitle = holds] /\ holds \in Texts /\ ~p.body
        BY <1>6, <2>2, <3>3, <3>4, Held DEF Scanned, inert_tags
      <4> DEFINE r == Raw("title", holds, TRUE, FALSE)
      <4>2. Raw(tag, holds, d, FALSE) = r /\ r.name = "title"
        BY <3>2, <3>4 DEF Raw
      <4>3. q = [p EXCEPT !.raw = r]
        BY <3>1, <4>2
      <4> HIDE DEF r, q, t
      <4>4. Same(q, t) /\ q.raw = r
        BY <1>1, <4>1, <4>3 DEF Same, PageTypes, ScanTypes, t
      <4>5. /\ ~q.plaintext /\ q.template = 0 /\ t.inert = <<>>
            /\ t.inTitle = holds /\ t.script = <<>> /\ ~q.body
        BY <1>1, <4>1, <4>3 DEF PageTypes, ScanTypes, t
      <4>6. Open(q, t)
        BY <4>1, <4>4, <4>5 DEF Open, r
      <4> QED
        BY <4>2, <4>4, <4>5, <4>6 DEF Alongside, Outside
    <3>5. CASE tag = "script"
      <4>1. t = [s EXCEPT !.script = <<holds>>] /\ holds \in Ids
        BY <1>1, <1>6, <2>2, <3>5, Held DEF Scanned, inert_tags
      <4> DEFINE r == Raw("script", holds, FALSE, FALSE)
                 one == <<holds>>
      <4>2. Raw(tag, holds, d, FALSE) = r
        <5>1. ~d
          BY <3>2, <3>5
        <5> QED
          BY <3>2, <3>5, <5>1 DEF Raw
      <4>3. q = [p EXCEPT !.raw = r] /\ t = [s EXCEPT !.script = one]
        BY <3>1, <4>1, <4>2
      <4> HIDE DEF r, q, t, one
      <4>4. Same(q, t) /\ q.raw = r
        BY <1>1, <4>3 DEF Same, PageTypes, ScanTypes
      <4>5. /\ ~q.plaintext /\ q.template = 0 /\ t.inert = <<>>
            /\ t.inTitle = "no" /\ t.script = one
        BY <1>1, <4>3 DEF PageTypes, ScanTypes
      <4>6. Open(q, t)
        BY <4>1, <4>4, <4>5 DEF Open, r, one
      <4> QED
        BY <3>5, <4>4, <4>5, <4>6 DEF Alongside, Outside
    <3> QED
      BY <2>4, <3>4, <3>5
  <2>5. CASE tag = "form"
    <3> DEFINE b == p.challenge \/ holds = "challenge"
               c == s.challenge \/ holds = "challenge"
               m == s.malformed \/ twice
    <3>1. q = [p EXCEPT !.challenge = b] /\ t = [s EXCEPT !.malformed = m, !.challenge = c]
      BY <2>1, <2>2, <2>5 DEF Contracted, IGNORED_RAW, Scanned, inert_tags
    <3>2. b = c
      BY DEF Same
    <3> HIDE DEF b, c, m
    <3>3. Same(q, t) /\ Outside(q, t) /\ q.raw = NoRaw
      BY <1>1, <3>1, <3>2 DEF Same, Outside, Open, PageTypes, ScanTypes
    <3> QED
      BY <1>1, <3>3 DEF Alongside
  <2>6. CASE tag = "iframe"
    <3> DEFINE e == p.embeds \cup Named(holds)
               n == s.embeds \cup Named(holds)
               r == Raw("iframe", "nothing", FALSE, FALSE)
    <3>1. q = [p EXCEPT !.embeds = e, !.raw = r] /\ t = [s EXCEPT !.embeds = n]
      BY <1>6, <2>1, <2>2, <2>6 DEF Contracted, IGNORED_RAW, Scanned, inert_tags
    <3>2. holds \in Ids
      BY <2>6, Held
    <3>3. e = n
      BY <3>2, IdsNamed DEF Same
    <3>4. r.name = "iframe"
      BY DEF Raw
    <3> HIDE DEF e, n
    <3>5. Same(q, t) /\ Outside(q, t) /\ q.raw = r
      BY <1>1, <3>1, <3>3 DEF Same, Outside, Open, PageTypes, ScanTypes
    <3> QED
      BY <3>4, <3>5 DEF Alongside
  <2> QED
    BY <1>6, <2>3, <2>4, <2>5, <2>6, Held DEF inert_tags
<1> QED
  BY <1>2, <1>3, <1>4, <1>5, <1>6

LEMMA InertInside ==
  ASSUME NEW p, NEW s,
         InPlaintext(p, s) \/ InNoscript(p, s) \/ InBothTemplates(p, s)
  PROVE  s.inert # <<>>
<1>1. s.inert \in {<<"plaintext">>, <<"noscript">>, <<"template">>}
  BY DEF InPlaintext, InNoscript, InBothTemplates, Raw
<1> QED
  BY <1>1

\* A tag that starts in an element that is inert for the plugin.
LEMMA InertStarts ==
  ASSUME NEW p, PageOK(p), NEW s \in ScanTypes, NEW tag \in Tags \ inert_tags,
         NEW holds \in Values(tag), NEW bad \in BOOLEAN,
         NEW twice \in BOOLEAN, twice => bad, Same(p, s), ~p.malformed,
         InPlaintext(p, s) \/ InNoscript(p, s) \/ InBothTemplates(p, s),
         p.raw.name \notin {"title", "iframe", "script"}
  PROVE  LET q == handle_starttag(p, tag, holds, bad)
         IN  /\ Alongside(q, ScanStart(s, tag, holds, twice))
             /\ q.raw.name = "script" => tag = "script"
<1> DEFINE q == handle_starttag(p, tag, holds, bad)
           t == ScanStart(s, tag, holds, twice)
<1> SUFFICES Alongside(q, t) /\ (q.raw.name = "script" => tag = "script")
  OBVIOUS
<1>1. t = s /\ p \in PageTypes
  <2>1. s.inert # <<>>
    BY InertInside
  <2> QED
    BY <2>1 DEF ScanStart, PageOK
<1>2. CASE InPlaintext(p, s)
  <2>1. q = p
    BY <1>2 DEF InPlaintext, handle_starttag
  <2> QED
    BY <1>1, <1>2, <2>1 DEF Alongside
<1>3. CASE InNoscript(p, s)
  <2>1. ~p.plaintext /\ p.raw # NoRaw /\ ~p.raw.document
    BY <1>3 DEF InNoscript, Raw, NoRaw
  <2> DEFINE b == p.malformed \/ p.raw.document
  <2>2. q = [p EXCEPT !.malformed = b]
    BY <2>1 DEF handle_starttag
  <2>3. b = p.malformed
    BY <1>1, <2>1 DEF PageTypes, Raws
  <2> HIDE DEF b, q
  <2>4. q = p
    BY <1>1, <2>2, <2>3 DEF PageTypes
  <2> QED
    BY <1>1, <1>3, <2>4 DEF Alongside
<1>4. CASE InBothTemplates(p, s)
  <2>1. p.raw = NoRaw
    BY <1>4 DEF InBothTemplates, Raw
  <2>2. ~p.plaintext /\ p.template = 1 /\ p.template > 0
    BY <1>4 DEF InBothTemplates
  <2>3. q = IF bad THEN [p EXCEPT !.malformed = TRUE] ELSE InTemplate(p, tag)
    BY <2>1, <2>2 DEF handle_starttag
  <2>4. CASE bad
    <3>1. q.malformed /\ q.raw = p.raw
      BY <1>1, <2>3, <2>4 DEF PageTypes
    <3> QED
      BY <3>1 DEF Alongside
  <2>5. CASE ~bad /\ tag \in TEMPLATE_RAW
    <3> DEFINE r == Raw(tag, "nothing", FALSE, TRUE)
    <3>1. q = [p EXCEPT !.raw = r]
      BY <2>3, <2>5 DEF InTemplate, TEMPLATE_RAW, IGNORED_RAW
    <3>2. r.name = tag /\ tag \in {"title", "iframe", "script"}
      BY <2>5 DEF Raw, TEMPLATE_RAW, IGNORED_RAW, inert_tags
    <3> HIDE DEF q, t, r
    <3>3. q.raw = r /\ Same(q, t)
      BY <1>1, <3>1 DEF PageTypes, Same
    <3>4. InBothTemplates(q, t)
      <4>1. ~q.plaintext /\ q.template = 1
        BY <1>1, <2>2, <3>1 DEF PageTypes
      <4>2. \E g \in {"title", "iframe", "script"} : q.raw = Raw(g, "nothing", FALSE, TRUE)
        BY <3>2, <3>3 DEF r
      <4> QED
        BY <1>1, <1>4, <4>1, <4>2 DEF InBothTemplates
    <3> QED
      BY <3>2, <3>3, <3>4 DEF Alongside
  <2>6. CASE ~bad /\ tag \notin TEMPLATE_RAW
    <3>1. q = p
      BY <2>3, <2>6 DEF InTemplate, inert_tags
    <3> QED
      BY <1>1, <1>4, <3>1 DEF Alongside
  <2> QED
    BY <2>4, <2>5, <2>6
<1> QED
  BY <1>2, <1>3, <1>4

LEMMA StartsAlongside ==
  ASSUME NEW p, PageOK(p), NEW s \in ScanTypes, NEW tag \in Tags,
         NEW holds \in Values(tag), NEW bad \in BOOLEAN,
         NEW twice \in BOOLEAN, twice => bad, Alongside(p, s),
         ~p.malformed, ~s.malformed, p.raw.name \notin {"title", "iframe", "script"},
         tag \in inert_tags => p.raw = NoRaw /\ s.inert = <<>>
  PROVE  LET q == handle_starttag(p, tag, holds, bad)
         IN  /\ Alongside(q, ScanStart(s, tag, holds, twice))
             /\ q.raw.name = "script" => tag = "script"
<1>1. CASE Same(p, s) /\ Outside(p, s)
  <2>1. p.raw = NoRaw
    <3>1. /\ \A text \in Texts : Raw("title", text, TRUE, FALSE).name = "title"
          /\ Raw("title", "nothing", FALSE, FALSE).name = "title"
          /\ Raw("iframe", "nothing", FALSE, FALSE).name = "iframe"
          /\ \A id \in Ids : Raw("script", id, FALSE, FALSE).name = "script"
      BY DEF Raw
    <3> QED
      BY <1>1, <3>1 DEF Outside, Open
  <2> QED
    BY <1>1, <2>1, OutsideStarts
<1>2. CASE Same(p, s) /\ (InPlaintext(p, s) \/ InNoscript(p, s) \/ InBothTemplates(p, s))
  <2>1. s.inert # <<>>
    BY <1>2, InertInside
  <2>2. tag \in Tags \ inert_tags
    BY <2>1
  <2> QED
    BY <1>2, <2>2, InertStarts
<1> QED
  BY <1>1, <1>2 DEF Alongside

\* What ends, when nothing is malformed, is the element that is open; another
\* one is refused inside a title that counts, and passed over elsewhere.
LEMMA EndIs ==
  ASSUME NEW p, PageOK(p), NEW tag \in Tags, NEW bad \in BOOLEAN, ~bad, ~p.malformed,
         tag = p.raw.name \/ ~p.raw.document
  PROVE  parse_endtag(p, tag, bad) =
           IF \/ p.template = 0 /\ tag \notin PAGE_CONTRACT_TAGS
              \/ p.plaintext
           THEN p
           ELSE IF p.raw # NoRaw THEN IF tag = p.raw.name THEN RawEnds(p) ELSE p
           ELSE IF tag = "template" /\ p.template > 0
           THEN [p EXCEPT !.template = p.template - 1] ELSE p
<1> DEFINE b == p.malformed \/ bad
           q == [p EXCEPT !.malformed = b]
           e == parse_endtag(p, tag, bad)
<1>1. q = p
  <2>1. b = p.malformed /\ p \in PageTypes
    BY DEF PageOK, PageTypes
  <2> HIDE DEF b
  <2> QED
    BY <2>1 DEF PageTypes
<1>4. tag # p.raw.name => [p EXCEPT !.malformed = p.malformed \/ p.raw.document] = p
  <2> DEFINE d == p.malformed \/ p.raw.document
  <2>1. tag # p.raw.name => d = p.malformed /\ p \in PageTypes
    BY DEF PageOK, PageTypes, Raws
  <2> HIDE DEF d
  <2> QED
    BY <2>1 DEF PageTypes
<1>2. CASE p.template = 0 /\ tag \notin PAGE_CONTRACT_TAGS
  BY <1>2 DEF parse_endtag
<1>3. CASE ~(p.template = 0 /\ tag \notin PAGE_CONTRACT_TAGS)
  <2>1. e = CASE q.plaintext -> q
              [] ~q.plaintext /\ q.raw # NoRaw ->
                   IF tag = q.raw.name
                   THEN RawEnds(q)
                   ELSE [q EXCEPT !.malformed = @ \/ q.raw.document]
              [] OTHER -> IF tag = "template" /\ q.template > 0
                          THEN [q EXCEPT !.template = @ - 1]
                          ELSE q
    BY <1>3 DEF parse_endtag
  <2> HIDE DEF q, e
  <2>2. e = IF p.plaintext THEN p
            ELSE IF p.raw # NoRaw THEN IF tag = p.raw.name THEN RawEnds(p) ELSE p
            ELSE IF tag = "template" /\ p.template > 0
            THEN [p EXCEPT !.template = p.template - 1] ELSE p
    BY <1>1, <1>4, <2>1
  <2> QED
    BY <1>3, <2>2 DEF e
<1> QED
  BY <1>2, <1>3

\* The element ends that neither parser has inside another.
LEMMA OpenEnds ==
  ASSUME NEW p, PageOK(p), NEW s \in ScanTypes, Same(p, s), Outside(p, s), p.raw # NoRaw,
         ~p.malformed, ~s.malformed
  PROVE  LET q == RawEnds(p)
         IN  Alongside(q, ScanEnd(s, p.raw.name)) /\ q.raw = NoRaw
<1> DEFINE n == [p EXCEPT !.raw = NoRaw]
           q == RawEnds(p)
           t == ScanEnd(s, p.raw.name)
<1> SUFFICES Alongside(q, t) /\ q.raw = NoRaw
  OBVIOUS
<1>1. p \in PageTypes /\ ~p.plaintext /\ p.template = 0 /\ s.inert = <<>>
  BY DEF PageOK, Outside
<1>2. /\ n \in PageTypes /\ n.raw = NoRaw /\ ~n.plaintext /\ n.template = 0
      /\ n.titles = p.titles /\ n.embeds = p.embeds /\ n.body = p.body
      /\ n.live = p.live /\ n.challenge = p.challenge
  BY <1>1, Held DEF PageTypes
<1>3. ASSUME NEW text \in Texts, p.raw = Raw("title", text, TRUE, FALSE),
             s.inTitle = text, s.script = <<>>
      PROVE  Alongside(q, t) /\ q.raw = NoRaw
  <2>1. /\ p.raw.name = "title" /\ ~p.raw.inTemplate /\ p.raw.document
        /\ p.raw.holds = text
    BY <1>3 DEF Raw
  <2> DEFINE more == IF Len(n.titles) < 2 THEN Append(n.titles, text) ELSE n.titles
             seen == IF text = "blank" \/ Len(s.titles) = 2 THEN s.titles
                     ELSE Append(s.titles, text)
             t0 == [s EXCEPT !.titles = seen, !.inTitle = "no"]
  <2>2. t = t0
    <3>1. text # "no"
      BY DEF Texts
    <3> QED
      BY <1>1, <1>3, <2>1, <3>1 DEF ScanEnd
  <2>3. q = CASE text = "long" -> [n EXCEPT !.malformed = TRUE]
              [] text = "blank" -> n
              [] OTHER -> [n EXCEPT !.titles = more]
    BY <2>1 DEF RawEnds
  <2>4. p.titles = s.titles /\ Len(p.titles) <= 2 /\ p.titles \in Seq(Texts)
    BY <1>1 DEF Same, PageTypes
  <2>5. /\ text # "blank" => more = seen
        /\ text = "blank" => n.titles = seen
        /\ Len(seen) <= 2
    <3> HIDE DEF n
    <3> DEFINE l == Len(s.titles)
               longer == Append(s.titles, text)
    <3>1. n.titles = s.titles /\ s.titles \in Seq(Texts)
      BY <1>2, <2>4
    <3>2. l \in Nat /\ l <= 2 /\ Len(longer) = l + 1
      BY <2>4, <3>1
    <3>3. /\ more = IF l < 2 THEN longer ELSE s.titles
          /\ seen = IF text = "blank" \/ l = 2 THEN s.titles ELSE longer
          /\ l = Len(s.titles)
      BY <3>1
    <3> HIDE DEF more, seen, l, longer
    <3>4. l < 2 <=> l # 2
      BY <3>2
    <3>5. l < 2 => l + 1 <= 2
      BY <3>2
    <3> QED
      BY <3>1, <3>2, <3>3, <3>4, <3>5
  <2> HIDE DEF more, seen, n, q, t
  <2>6. CASE text = "long"
    <3>1. q = [n EXCEPT !.malformed = TRUE]
      BY <2>3, <2>6
    <3>2. q.malformed /\ q.raw = NoRaw
      BY <1>2, <3>1 DEF PageTypes
    <3> QED
      BY <3>2 DEF Alongside
  <2>7. CASE text # "long"
    <3>1. /\ q.titles = seen /\ q.embeds = p.embeds /\ q.live = p.live /\ q.raw = NoRaw
          /\ q.body = p.body /\ q.challenge = p.challenge /\ ~q.plaintext /\ q.template = 0
      BY <1>2, <2>3, <2>5, <2>7 DEF PageTypes
    <3>2. /\ t.titles = seen /\ t.embeds = s.embeds /\ t.first = s.first /\ t.inTitle = "no"
          /\ t.body = s.body /\ t.challenge = s.challenge /\ t.script = <<>> /\ t.inert = <<>>
      BY <1>1, <1>3, <2>2 DEF ScanTypes
    <3>3. Same(q, t) /\ Outside(q, t)
      BY <2>5, <3>1, <3>2 DEF Same, Outside, Open
    <3> QED
      BY <3>1, <3>3 DEF Alongside
  <2> QED
    BY <2>6, <2>7
<1>4. ASSUME p.raw \in {Raw("title", "nothing", FALSE, FALSE),
                       Raw("iframe", "nothing", FALSE, FALSE)},
             s.inTitle = "no", s.script = <<>>
      PROVE  Alongside(q, t) /\ q.raw = NoRaw
  <2>1. p.raw.name \in {"title", "iframe"} /\ ~p.raw.inTemplate /\ ~p.raw.document
    BY <1>4 DEF Raw
  <2>2. q = n /\ t = s
    BY <1>1, <1>4, <2>1 DEF RawEnds, ScanEnd
  <2> HIDE DEF n, q, t
  <2>3. Same(q, t) /\ Outside(q, t)
    BY <1>1, <1>2, <1>4, <2>2 DEF Same, Outside, Open
  <2> QED
    BY <1>2, <2>2, <2>3 DEF Alongside
<1>5. ASSUME NEW id \in Ids, p.raw = Raw("script", id, FALSE, FALSE),
             s.inTitle = "no", s.script = <<id>>
      PROVE  Alongside(q, t) /\ q.raw = NoRaw
  <2>1. /\ p.raw.name = "script" /\ ~p.raw.inTemplate /\ ~p.raw.document
        /\ p.raw.holds = id
    BY <1>5 DEF Raw
  <2> DEFINE e == n.embeds \cup Named(id)
             d == s.embeds \cup Named(id)
             none == <<>>
  <2>2. q = [n EXCEPT !.embeds = e]
    BY <2>1 DEF RawEnds
  <2>3. t = [s EXCEPT !.embeds = d, !.script = none]
    <3>1. s.script # <<>> /\ s.script[1] = id
      BY <1>5
    <3> QED
      BY <1>1, <1>5, <2>1, <3>1 DEF ScanEnd
  <2>4. e = d
    BY <1>2, IdsNamed DEF Same
  <2> HIDE DEF e, d, n, q, t, none
  <2>5. /\ q.titles = p.titles /\ q.embeds = e /\ q.live = p.live /\ q.raw = NoRaw
        /\ q.body = p.body /\ q.challenge = p.challenge /\ ~q.plaintext /\ q.template = 0
    BY <1>2, <2>2 DEF PageTypes
  <2>6. /\ t.titles = s.titles /\ t.embeds = d /\ t.first = s.first /\ t.inTitle = "no"
        /\ t.body = s.body /\ t.challenge = s.challenge /\ t.script = none /\ t.inert = <<>>
    BY <1>1, <1>5, <2>3 DEF ScanTypes
  <2>7. Same(q, t) /\ Outside(q, t)
    BY <2>4, <2>5, <2>6 DEF Same, Outside, Open, none
  <2> QED
    BY <2>5, <2>7 DEF Alongside
<1> QED
  BY <1>3, <1>4, <1>5 DEF Outside, Open

\* An element ends that is inert for the plugin, or one inside it.
LEMMA InertEnds ==
  ASSUME NEW p, PageOK(p), NEW s \in ScanTypes, NEW tag \in Tags, NEW bad \in BOOLEAN,
         Same(p, s), ~bad, ~p.malformed, p.plaintext => tag # "plaintext",
         p.template > 0 /\ p.raw # NoRaw => tag # "template",
         p.raw.name = "script" => tag = "script",
         InPlaintext(p, s) \/ InNoscript(p, s) \/ InBothTemplates(p, s)
  PROVE  LET e == parse_endtag(p, tag, bad)
         IN  Alongside(e, ScanEnd(s, tag)) /\ e.raw.name # "script"
<1> DEFINE e == parse_endtag(p, tag, bad)
           n == [p EXCEPT !.raw = NoRaw]
           t == ScanEnd(s, tag)
           front == Front(s.inert)
           after == [s EXCEPT !.inert = front]
<1> SUFFICES Alongside(e, t) /\ e.raw.name # "script"
  OBVIOUS
<1>1. /\ p \in PageTypes /\ s.inert # <<>>
      /\ n \in PageTypes /\ n.raw = NoRaw /\ n.plaintext = p.plaintext
      /\ n.template = p.template /\ n.titles = p.titles /\ n.embeds = p.embeds
      /\ n.body = p.body /\ n.live = p.live /\ n.challenge = p.challenge
      /\ NoRaw.name = "none"
  BY InertInside, Held, RawFields DEF PageOK, PageTypes
<1>2. t = IF Last(s.inert) = tag THEN after ELSE s
  BY <1>1 DEF ScanEnd
<1>3. ASSUME NEW inert, s.inert = <<inert>>
      PROVE  t = (IF inert = tag THEN after ELSE s) /\ after.inert = <<>>
  <2>1. Len(s.inert) = 1 /\ s.inert[1] = inert
    BY <1>3
  <2>2. front = <<>> /\ Last(s.inert) = inert
    BY <1>3, <2>1 DEF Front, Last
  <2>3. after.inert = front
    BY DEF ScanTypes
  <2> HIDE DEF t, after, front
  <2> QED
    BY <1>2, <2>2, <2>3
<1>4. /\ after.titles = s.titles /\ after.embeds = s.embeds /\ after.first = s.first
      /\ after.inTitle = s.inTitle /\ after.body = s.body /\ after.script = s.script
      /\ after.challenge = s.challenge
  BY DEF ScanTypes
<1>5. CASE InPlaintext(p, s)
  <2>1. p.raw = NoRaw /\ p.plaintext
    BY <1>5 DEF InPlaintext
  <2>2. e = p
    BY <2>1, EndIs, RawFields
  <2>3. t = s
    <3>1. s.inert = <<"plaintext">> /\ tag # "plaintext"
      BY <1>5 DEF InPlaintext
    <3> HIDE DEF t, after, front
    <3> QED
      BY <1>3, <3>1
  <2> QED
    BY <1>1, <1>5, <2>1, <2>2, <2>3 DEF Alongside
<1>6. CASE InNoscript(p, s) /\ tag = "noscript"
  <2>1. /\ p.raw.name = "noscript" /\ ~p.raw.document /\ ~p.raw.inTemplate /\ p.raw # NoRaw
        /\ ~p.plaintext /\ p.template = 0
    BY <1>6 DEF InNoscript, Raw, NoRaw
  <2>2. tag = "noscript" /\ tag \in PAGE_CONTRACT_TAGS
    BY <1>6 DEF PAGE_CONTRACT_TAGS, TEMPLATE_RAW, IGNORED_RAW
  <2>3. e = RawEnds(p)
    BY <2>1, <2>2, EndIs
  <2>4. e = n
    BY <2>1, <2>3 DEF RawEnds
  <2>5. t = after /\ after.inert = <<>> /\ s.inTitle = "no" /\ s.script = <<>>
    <3>1. s.inert = <<"noscript">> /\ s.inTitle = "no" /\ s.script = <<>>
      BY <1>6 DEF InNoscript, Raw
    <3> HIDE DEF t, after, front
    <3> QED
      BY <1>3, <2>2, <3>1
  <2> HIDE DEF e, n, t, after, front
  <2>6. Same(e, t)
    BY <1>1, <1>4, <2>4, <2>5 DEF Same
  <2>7. Open(e, t)
    BY <1>1, <1>4, <2>4, <2>5 DEF Open
  <2> QED
    BY <1>1, <2>1, <2>4, <2>5, <2>6, <2>7 DEF Alongside, Outside
<1>10. CASE InNoscript(p, s) /\ tag # "noscript"
  <2>1. p.raw.name = "noscript" /\ ~p.raw.document /\ p.raw # NoRaw
    BY <1>10 DEF InNoscript, Raw, NoRaw
  <2>2. e = p
    BY <1>10, <2>1, EndIs
  <2>3. t = s
    <3>1. s.inert = <<"noscript">>
      BY <1>10 DEF InNoscript, Raw
    <3> HIDE DEF t, after, front
    <3> QED
      BY <1>3, <1>10, <3>1
  <2> HIDE DEF e, n, t, after, front
  <2> QED
    BY <1>10, <2>1, <2>2, <2>3 DEF Alongside
<1>7. CASE InBothTemplates(p, s) /\ p.raw = NoRaw /\ tag = "template"
  <2> DEFINE o == [p EXCEPT !.template = p.template - 1]
  <2>1. ~p.plaintext /\ p.template = 1
    BY <1>7 DEF InBothTemplates
  <2>2. e = o
    BY <1>7, <2>1, EndIs, RawFields
  <2>3. t = after /\ after.inert = <<>> /\ s.inTitle = "no" /\ s.script = <<>>
    <3>1. s.inert = <<"template">> /\ s.inTitle = "no" /\ s.script = <<>>
      BY <1>7 DEF InBothTemplates, Raw
    <3> HIDE DEF t, after, front
    <3> QED
      BY <1>3, <1>7, <3>1
  <2>4. /\ o.template = 0 /\ o.raw = NoRaw /\ ~o.plaintext
        /\ o.titles = p.titles /\ o.embeds = p.embeds
        /\ o.body = p.body /\ o.live = p.live /\ o.challenge = p.challenge
    BY <1>1, <1>7, <2>1 DEF PageTypes
  <2> HIDE DEF e, n, t, after, front, o
  <2>5. Same(e, t)
    BY <1>4, <2>2, <2>3, <2>4 DEF Same
  <2>6. Open(e, t)
    BY <1>4, <2>2, <2>3, <2>4 DEF Open
  <2> QED
    BY <1>1, <2>2, <2>3, <2>4, <2>5, <2>6 DEF Alongside, Outside
<1>8. CASE InBothTemplates(p, s) /\ p.raw = NoRaw /\ tag # "template"
  <2>1. e = p
    BY <1>8, EndIs, RawFields
  <2>2. t = s
    <3>1. s.inert = <<"template">>
      BY <1>8 DEF InBothTemplates, Raw
    <3> HIDE DEF t, after, front
    <3> QED
      BY <1>3, <1>8, <3>1
  <2> QED
    BY <1>1, <1>8, <2>1, <2>2 DEF Alongside
<1>9. CASE InBothTemplates(p, s) /\ p.raw # NoRaw /\ tag = p.raw.name
  <2>1. PICK g \in {"title", "iframe", "script"} : p.raw = Raw(g, "nothing", FALSE, TRUE)
    BY <1>9 DEF InBothTemplates
  <2>2. p.raw.name = g /\ p.raw.inTemplate
    BY <2>1 DEF Raw
  <2>3. tag = g /\ ~p.plaintext /\ p.template = 1
    BY <1>9, <2>2 DEF InBothTemplates
  <2>4. e = RawEnds(p)
    BY <1>9, <2>2, <2>3, EndIs
  <2>5. e = n
    BY <2>2, <2>4 DEF RawEnds
  <2>6. t = s
    <3>1. s.inert = <<"template">> /\ tag # "template"
      BY <1>9, <2>3 DEF InBothTemplates, Raw
    <3> HIDE DEF t, after, front
    <3> QED
      BY <1>3, <3>1
  <2> HIDE DEF e, n, t, after, front
  <2>7. Same(e, t)
    BY <1>1, <2>5, <2>6 DEF Same
  <2>8. InBothTemplates(e, t)
    BY <1>1, <1>9, <2>3, <2>5, <2>6 DEF InBothTemplates
  <2> QED
    BY <1>1, <2>5, <2>7, <2>8 DEF Alongside
<1>11. CASE InBothTemplates(p, s) /\ p.raw # NoRaw /\ tag # p.raw.name
  <2>1. PICK g \in {"title", "iframe", "script"} : p.raw = Raw(g, "nothing", FALSE, TRUE)
    BY <1>11 DEF InBothTemplates
  <2>2. p.raw.name = g /\ ~p.raw.document /\ ~p.plaintext /\ p.template = 1
    BY <1>11, <2>1 DEF Raw, InBothTemplates
  <2>3. e = p /\ e.raw.name # "script"
    BY <1>11, <2>2, EndIs
  <2>4. t = s
    <3>1. s.inert = <<"template">> /\ tag # "template"
      BY <1>11, <2>2 DEF InBothTemplates, Raw
    <3> HIDE DEF t, after, front
    <3> QED
      BY <1>3, <3>1
  <2> HIDE DEF e, n, t, after, front
  <2> QED
    BY <1>11, <2>3, <2>4 DEF Alongside
<1> QED
  BY <1>5, <1>6, <1>7, <1>8, <1>9, <1>10, <1>11

\* Another element that ends inside a title that counts is refused.
LEMMA EndRefused ==
  ASSUME NEW p, PageOK(p), NEW tag \in PAGE_CONTRACT_TAGS, NEW bad \in BOOLEAN,
         ~p.plaintext, p.raw # NoRaw, tag # p.raw.name, p.raw.document
  PROVE  parse_endtag(p, tag, bad).malformed
<1> DEFINE b == p.malformed \/ bad
           q == [p EXCEPT !.malformed = b]
           e == parse_endtag(p, tag, bad)
<1>1. q \in PageTypes /\ q.raw = p.raw /\ q.plaintext = p.plaintext
  <2>1. b \in BOOLEAN /\ p \in PageTypes
    BY DEF PageOK
  <2> HIDE DEF b
  <2> QED
    BY <2>1 DEF PageTypes
<1>2. e = CASE q.plaintext -> q
            [] ~q.plaintext /\ q.raw # NoRaw ->
                 IF tag = q.raw.name
                 THEN RawEnds(q)
                 ELSE [q EXCEPT !.malformed = @ \/ q.raw.document]
            [] OTHER -> IF tag = "template" /\ q.template > 0
                        THEN [q EXCEPT !.template = @ - 1]
                        ELSE q
  BY DEF parse_endtag
<1> HIDE DEF q, e
<1>3. e = [q EXCEPT !.malformed = q.malformed \/ q.raw.document]
  BY <1>1, <1>2
<1>4. e.malformed = (q.malformed \/ q.raw.document)
  BY <1>1, <1>3 DEF PageTypes
<1> QED
  BY <1>1, <1>4 DEF e

LEMMA EndsAlongside ==
  ASSUME NEW p, PageOK(p), NEW s \in ScanTypes, NEW tag \in Tags, NEW bad \in BOOLEAN,
         Alongside(p, s), p.plaintext => tag # "plaintext",
         p.template > 0 /\ p.raw # NoRaw => tag # "template",
         p.raw.name = "script" => tag = "script" \/ p.malformed \/ s.malformed
  PROVE  LET e == parse_endtag(p, tag, bad)
             t == ScanEnd(s, tag)
         IN  Alongside(e, t) /\ (e.raw.name = "script" => e.malformed \/ t.malformed)
<1> DEFINE e == parse_endtag(p, tag, bad)
           t == ScanEnd(s, tag)
<1> SUFFICES Alongside(e, t) /\ (e.raw.name = "script" => e.malformed \/ t.malformed)
  OBVIOUS
<1>1. p.malformed \/ s.malformed => e.malformed \/ t.malformed
  BY EndGrows, ScanEndTyped DEF Onward, Grows
<1>2. CASE p.malformed \/ s.malformed
  BY <1>1, <1>2 DEF Alongside
<1>3. CASE ~p.malformed /\ ~s.malformed /\ Outside(p, s) /\ p.raw = NoRaw
  <2>1. t = s
    <3>1. s.inTitle = "no" /\ s.script = <<>> /\ s.inert = <<>>
      <4>1. /\ \A text \in Texts : NoRaw # Raw("title", text, TRUE, FALSE)
            /\ \A id \in Ids : NoRaw # Raw("script", id, FALSE, FALSE)
        BY DEF NoRaw, Raw
      <4> QED
        BY <1>3, <4>1 DEF Outside, Open
    <3> QED
      BY <3>1 DEF ScanEnd
  <2>2. CASE p.template = 0 /\ tag \notin PAGE_CONTRACT_TAGS
    <3>1. e = p
      BY <2>2 DEF parse_endtag
    <3> QED
      BY <1>3, <2>1, <3>1, RawFields
  <2>3. CASE bad /\ ~(p.template = 0 /\ tag \notin PAGE_CONTRACT_TAGS)
    BY <2>3, EndGrows DEF Alongside
  <2>4. CASE ~bad
    <3>1. e = p
      BY <1>3, <2>4, EndIs, RawFields DEF Outside
    <3> QED
      BY <1>3, <2>1, <3>1, RawFields
  <2> QED
    BY <2>2, <2>3, <2>4
<1>4. CASE /\ ~p.malformed /\ ~s.malformed /\ Same(p, s) /\ Outside(p, s)
           /\ p.raw # NoRaw /\ tag = p.raw.name
  <2>1. p.raw.name \in {"title", "iframe", "script"}
    <3>1. /\ \A text \in Texts : Raw("title", text, TRUE, FALSE).name = "title"
          /\ Raw("title", "nothing", FALSE, FALSE).name = "title"
          /\ Raw("iframe", "nothing", FALSE, FALSE).name = "iframe"
          /\ \A id \in Ids : Raw("script", id, FALSE, FALSE).name = "script"
      BY DEF Raw
    <3> QED
      BY <1>4, <3>1 DEF Outside, Open
  <2>2. tag = p.raw.name /\ tag \in PAGE_CONTRACT_TAGS
    BY <1>4, <2>1 DEF PAGE_CONTRACT_TAGS, TEMPLATE_RAW, IGNORED_RAW
  <2>3. CASE bad
    BY <2>2, <2>3, EndGrows DEF Alongside
  <2>4. CASE ~bad
    <3>1. e = RawEnds(p)
      BY <1>4, <2>1, <2>2, <2>4, EndIs DEF Outside
    <3> QED
      BY <1>4, <2>2, <3>1, OpenEnds, RawFields
  <2> QED
    BY <2>3, <2>4
<1>5. CASE /\ ~p.malformed /\ ~s.malformed /\ Same(p, s)
           /\ InPlaintext(p, s) \/ InNoscript(p, s) \/ InBothTemplates(p, s)
  <2>1. CASE bad /\ ~(p.template = 0 /\ tag \notin PAGE_CONTRACT_TAGS)
    BY <2>1, EndGrows DEF Alongside
  <2>2. CASE ~bad
    BY <1>5, <2>2, InertEnds
  <2>3. CASE bad /\ p.template = 0 /\ tag \notin PAGE_CONTRACT_TAGS
    <3> DEFINE well == FALSE
               f == parse_endtag(p, tag, well)
    <3>1. e = p /\ f = p
      BY <2>3 DEF parse_endtag
    <3>2. well \in BOOLEAN /\ ~well
      OBVIOUS
    <3> HIDE DEF well
    <3>3. Alongside(f, t) /\ f.raw.name # "script"
      BY <1>5, <3>2, InertEnds
    <3> QED
      BY <3>1, <3>3
  <2> QED
    BY <2>1, <2>2, <2>3
<1>6. CASE /\ ~p.malformed /\ ~s.malformed /\ Same(p, s) /\ Outside(p, s)
           /\ p.raw # NoRaw /\ tag # p.raw.name
  <2>1. /\ ~p.plaintext /\ s.inert = <<>> /\ p.raw.name # "script" /\ p \in PageTypes
        /\ p.template = 0
    BY <1>6 DEF Outside, PageOK
  <2>2. CASE p.template = 0 /\ tag \notin PAGE_CONTRACT_TAGS
    <3>1. e = p
      BY <2>2 DEF parse_endtag
    <3>2. tag \notin {"title", "script"}
      BY <2>2 DEF PAGE_CONTRACT_TAGS, TEMPLATE_RAW
    <3>3. t = s
      BY <2>1, <3>2 DEF ScanEnd
    <3> QED
      BY <1>6, <2>1, <3>1, <3>3 DEF Alongside
  <2>3. CASE bad /\ ~(p.template = 0 /\ tag \notin PAGE_CONTRACT_TAGS)
    BY <2>3, EndGrows DEF Alongside
  <2>4. CASE ~bad /\ tag \in PAGE_CONTRACT_TAGS /\ p.raw.document
    BY <1>6, <2>1, <2>4, EndRefused DEF Alongside
  <2>5. CASE ~bad /\ ~p.raw.document
    <3>1. e = p
      BY <1>6, <2>1, <2>5, EndIs
    <3>2. s.inTitle = "no" /\ (s.script = <<>> \/ tag # "script")
      <4>1. /\ \A text \in Texts : Raw("title", text, TRUE, FALSE).document
            /\ \A id \in Ids : Raw("script", id, FALSE, FALSE).name = "script"
        BY DEF Raw
      <4> QED
        BY <1>6, <2>1, <2>5, <4>1 DEF Outside, Open
    <3>3. t = s
      BY <2>1, <3>2 DEF ScanEnd
    <3> QED
      BY <1>6, <2>1, <3>1, <3>3 DEF Alongside
  <2> QED
    BY <2>1, <2>2, <2>3, <2>4, <2>5
<1> QED
  BY <1>2, <1>3, <1>4, <1>5, <1>6 DEF Alongside

LEMMA TogetherStep ==
  ASSUME PageOK(page), Together, [Next]_vars
  PROVE  Together'
<1>1. ASSUME NEW tag \in Tags, NEW read \in Holds(tag), NEW grammar \in Grammars(tag),
             StartTag(tag, read, grammar), plugin.pc = "page"
      PROVE  Together'
  <2> DEFINE bad == grammar # "no"
             twice == grammar = "twice"
             holds == read.page
  <2>1. /\ ~cdata /\ ~page.malformed /\ ~scan.malformed
        /\ page' = handle_starttag(page, tag, holds, bad)
        /\ scan' = ScanStart(scan, tag, read.scan, twice)
        /\ cdata' = (tag = "script") /\ plugin' = plugin
        /\ (StartsAlike(tag, read) /\ unlike' = unlike) \/ unlike' = unlike + 1
    BY <1>1 DEF StartTag, Continues, Scans
  <2>2. unlike \in Nat /\ unlike' \in Nat /\ "pc" \in DOMAIN plugin
    BY <2>1 DEF Together
  <2>3. ASSUME unlike' = 0
        PROVE  /\ scan' \in ScanTypes /\ Alongside(page', scan')
               /\ page'.raw.name = "script" => tag = "script"
    <3>1. unlike = 0 /\ StartsAlike(tag, read)
      BY <2>1, <2>2, <2>3
    <3>2. /\ scan \in ScanTypes /\ Alongside(page, scan) /\ read.scan = holds
          /\ page.raw.name \notin {"title", "iframe", "script"}
          /\ tag \in inert_tags => page.raw = NoRaw /\ scan.inert = <<>>
      BY <1>1, <2>1, <3>1 DEF Together, StartsAlike
    <3>3. bad \in BOOLEAN /\ twice \in BOOLEAN /\ (twice => bad) /\ holds \in Values(tag)
      BY HeldRead
    <3> HIDE DEF bad, twice, holds
    <3>4. Alongside(page', scan') /\ (page'.raw.name = "script" => tag = "script")
      BY <2>1, <3>2, <3>3, StartsAlongside
    <3>5. scan' \in ScanTypes
      BY <2>1, <3>2, <3>3, ScanStartTyped
    <3> QED
      BY <3>4, <3>5
  <2> QED
    BY <2>1, <2>2, <2>3 DEF Together
<1>2. ASSUME NEW tag \in Tags, NEW read \in Holds(tag), NEW grammar \in Grammars(tag),
             StartEndTag(tag, read, grammar), plugin.pc = "page"
      PROVE  Together'
  <2> DEFINE slashed == grammar # "no" \/ (tag \in {"title", "script"} /\ page.template = 0)
             bad == grammar # "no"
             twice == grammar = "twice"
             holds == read.page
             t == ScanStart(scan, tag, holds, twice)
             next == handle_starttag(page, tag, holds, bad)
  <2>1. /\ ~cdata /\ ~page.malformed /\ ~scan.malformed
        /\ page' = handle_starttag(page, tag, holds, slashed)
        /\ scan' = ScanStartEnd(scan, tag, read.scan, twice)
        /\ cdata' = cdata /\ plugin' = plugin
        /\ (SlashedAlike(tag, read) /\ unlike' = unlike) \/ unlike' = unlike + 1
    BY <1>2 DEF StartEndTag, Continues, Scans
  <2>2. unlike \in Nat /\ unlike' \in Nat /\ "pc" \in DOMAIN plugin
    BY <2>1 DEF Together
  <2>3. ASSUME unlike' = 0
        PROVE  /\ scan' \in ScanTypes /\ Alongside(page', scan')
               /\ page'.raw.name # "script"
    <3>1. /\ unlike = 0 /\ StartsAlike(tag, read) /\ tag \in {"body", "div", "form"}
          /\ slashed = bad
      BY <2>1, <2>2, <2>3 DEF SlashedAlike
    <3>2. /\ scan \in ScanTypes /\ Alongside(page, scan) /\ read.scan = holds
          /\ page.raw.name \notin {"title", "iframe", "script"}
          /\ tag \in inert_tags => page.raw = NoRaw /\ scan.inert = <<>>
      BY <1>2, <2>1, <3>1 DEF Together, StartsAlike
    <3>3. bad \in BOOLEAN /\ twice \in BOOLEAN /\ (twice => bad) /\ holds \in Values(tag)
      BY HeldRead
    <3>4. page' = next /\ scan' = ScanEnd(t, tag)
      BY <2>1, <3>1, <3>2 DEF ScanStartEnd
    <3> HIDE DEF slashed, bad, twice, holds
    <3>5. Alongside(next, t) /\ (next.raw.name = "script" => tag = "script")
      BY <2>1, <3>2, <3>3, StartsAlongside
    <3>6. t \in ScanTypes
      BY <3>2, <3>3, ScanStartTyped
    <3> HIDE DEF t, next
    <3>7. ScanEnd(t, tag) = t
      <4>1. tag \notin {"title", "script"} \cup inert_tags
        BY <3>1 DEF inert_tags
      <4>2. ASSUME t.inert # <<>> PROVE Last(t.inert) \in inert_tags
        <5>1. t.inert \in Seq(inert_tags)
          BY <3>6 DEF ScanTypes
        <5> QED
          BY <4>2, <5>1 DEF Last
      <4>3. ScanEnd(t, tag) = CASE t.inert # <<>> ->
                      IF Last(t.inert) = tag THEN [t EXCEPT !.inert = Front(@)] ELSE t
                    [] OTHER -> t
        BY <4>1 DEF ScanEnd
      <4> QED
        BY <4>1, <4>2, <4>3
    <3> QED
      BY <3>1, <3>4, <3>5, <3>6, <3>7
  <2> QED
    BY <2>1, <2>2, <2>3 DEF Together
<1>3. ASSUME NEW tag \in Tags, NEW bad \in BOOLEAN, EndTag(tag, bad), plugin.pc = "page"
      PROVE  Together'
  <2>1. /\ page' = parse_endtag(page, tag, bad) /\ scan' = ScanEnd(scan, tag)
        /\ plugin' = plugin /\ (cdata => tag = "script")
        /\ (EndsAlike(tag) /\ unlike' = unlike) \/ unlike' = unlike + 1
    BY <1>3 DEF EndTag, Scans
  <2>2. unlike \in Nat /\ unlike' \in Nat /\ "pc" \in DOMAIN plugin
    BY <2>1 DEF Together
  <2>3. ASSUME unlike' = 0
        PROVE  /\ scan' \in ScanTypes /\ Alongside(page', scan')
               /\ page'.raw.name = "script" => page'.malformed \/ scan'.malformed
    <3>1. unlike = 0 /\ EndsAlike(tag)
      BY <2>1, <2>2, <2>3
    <3>2. /\ scan \in ScanTypes /\ Alongside(page, scan)
          /\ page.raw.name = "script" => tag = "script" \/ page.malformed \/ scan.malformed
      BY <1>3, <2>1, <3>1 DEF Together
    <3>3. /\ page.plaintext => tag # "plaintext"
          /\ page.template > 0 /\ page.raw # NoRaw => tag # "template"
      BY <3>1 DEF EndsAlike
    <3>4. /\ Alongside(page', scan')
          /\ page'.raw.name = "script" => page'.malformed \/ scan'.malformed
      BY <2>1, <3>2, <3>3, EndsAlongside
    <3>5. scan' \in ScanTypes
      BY <2>1, <3>2, ScanEndTyped
    <3> QED
      BY <3>4, <3>5
  <2> QED
    BY <2>1, <2>2, <2>3 DEF Together
<1>4. CASE Arrives
  <2>1. plugin' = plugin /\ (plugin.pc # "page" => unlike' = unlike)
    BY <1>4 DEF Arrives, StartTag, StartEndTag, EndTag, Scans
  <2>2. CASE plugin.pc = "page"
    BY <1>1, <1>2, <1>3, <1>4, <2>2 DEF Arrives
  <2> QED
    BY <2>1, <2>2 DEF Together
<1>5. CASE PageEnds \/ ReadChunk
  BY <1>5 DEF PageEnds, ReadChunk, Together
<1>6. CASE ResolvePage \/ ResolveEmbed \/ ExpandVariant \/ Expanded
  <2>1. "pc" \in DOMAIN plugin
    BY DEF Together
  <2>2. "pc" \in DOMAIN plugin' /\ plugin'.pc # "page"
    <3>1. ASSUME NEW code PROVE "pc" \in DOMAIN Result(code) /\ Result(code).pc = "done"
      BY <2>1 DEF Result
    <3>2. ASSUME NEW pc PROVE LET r == [plugin EXCEPT !.pc = pc]
                              IN  "pc" \in DOMAIN r /\ r.pc = pc
      BY <2>1
    <3>3. CASE ResolvePage
      BY <3>1, <3>2, <3>3 DEF ResolvePage, FetchFails
    <3>4. CASE ResolveEmbed
      <4>1. CASE FetchFails
        BY <3>1, <4>1 DEF FetchFails
      <4>2. ASSUME NEW doc \in Documents, NEW variants,
                   plugin' = CASE doc.live = "broken" -> Result("resolver_failed")
                               [] doc.live = "past" -> Result("no_live_stream")
                               [] doc.live = "live" /\ variants = <<>> ->
                                    Result("resolver_failed")
                               [] doc.live = "live" /\ variants # <<>> ->
                                    [plugin EXCEPT !.pc = "expand", !.todo = variants]
            PROVE  "pc" \in DOMAIN plugin' /\ plugin'.pc # "page"
        <5>1. doc.live \in {"broken", "past", "live"}
          BY DEF Documents
        <5> DEFINE more == [plugin EXCEPT !.pc = "expand", !.todo = variants]
        <5>2. plugin' \in {Result("resolver_failed"), Result("no_live_stream"), more}
          BY <4>2, <5>1
        <5>3. "pc" \in DOMAIN more /\ more.pc = "expand"
          BY <2>1
        <5> QED
          BY <3>1, <5>2, <5>3
      <4> QED
        BY <3>4, <4>1, <4>2 DEF ResolveEmbed
    <3>5. CASE ExpandVariant
      BY <2>1, <3>5 DEF ExpandVariant
    <3>6. CASE Expanded
      BY <3>1, <3>6 DEF Expanded
    <3> QED
      BY <1>6, <3>3, <3>4, <3>5, <3>6
  <2>3. unlike' \in Nat
    <3>1. unlike' = unlike \/ unlike' = 0
      <4>1. CASE ResolvePage
        BY <4>1 DEF ResolvePage, PageForgotten
      <4>2. CASE ResolveEmbed
        BY <4>2 DEF ResolveEmbed
      <4>3. CASE ExpandVariant
        BY <4>3 DEF ExpandVariant
      <4>4. CASE Expanded
        BY <4>4 DEF Expanded
      <4> QED
        BY <1>6, <4>1, <4>2, <4>3, <4>4
    <3> QED
      BY <3>1 DEF Together
  <2> QED
    BY <2>2, <2>3 DEF Together
<1>7. CASE UNCHANGED vars
  BY <1>7 DEF vars, Together
<1> QED
  BY <1>4, <1>5, <1>6, <1>7 DEF Next

LEMMA TogetherAlways == Spec => []IInv
<1>1. Init => IInv
  <2>1. Init => Together
    <3> SUFFICES ASSUME Init PROVE Together
      OBVIOUS
    <3>1. /\ page = NewPage /\ scan = NewScan /\ "pc" \in DOMAIN plugin
          /\ page.raw.name # "script" /\ unlike = 0
      BY RawFields DEF Init, NewPage
    <3> QED
      BY <3>1, PageNewScan DEF Together
  <2> QED
    BY <2>1, PageNew DEF Init, Decided, IInv
<1>2. IInv /\ [Next]_vars => IInv'
  BY DecidedStep, TogetherStep DEF IInv
<1> QED
  BY <1>1, <1>2, PTL DEF Spec

\* What both have read of a page, as each judges it.
LEMMA JudgedAlike ==
  ASSUME NEW p, PageOK(p), NEW s \in ScanTypes, Alongside(p, s),
         NEW torn \in BOOLEAN, NEW asked \in BOOLEAN, ~torn, asked
  PROVE  LET judged == parse_page_contract(p, torn)
             said == parse_page(s, asked)
         IN  \/ judged.state = "SCHEMA" \/ said = "invalid page"
             \/ judged.state = "LIVE" /\ said = judged.embed
             \/ judged.state = "OFFLINE" /\ said \in {"offline", "missing embed"}
             \/ judged.state = "EMBED_AMBIGUOUS" /\ said = "missing embed"
<1> DEFINE judged == parse_page_contract(p, torn)
           said == parse_page(s, asked)
<1> SUFFICES \/ judged.state = "SCHEMA" \/ said = "invalid page"
             \/ judged.state = "LIVE" /\ said = judged.embed
             \/ judged.state = "OFFLINE" /\ said \in {"offline", "missing embed"}
             \/ judged.state = "EMBED_AMBIGUOUS" /\ said = "missing embed"
  OBVIOUS
<1>3. CASE p.malformed \/ p.raw # NoRaw \/ p.template > 0
  <2>1. judged = Contract("SCHEMA", "none")
    BY <1>3 DEF parse_page_contract
  <2> QED
    BY <2>1 DEF Contract
<1>4. CASE ~complete(s) \/ Len(s.titles) # 1 \/ s.malformed \/ s.challenge \/ s.titles[1] = "moment"
  BY <1>4 DEF parse_page
<1>5. CASE /\ ~(p.malformed \/ p.raw # NoRaw \/ p.template > 0)
           /\ ~(~complete(s) \/ Len(s.titles) # 1 \/ s.malformed \/ s.challenge \/ s.titles[1] = "moment")
  <2>1. Same(p, s)
    BY <1>5 DEF Alongside
  <2>2. /\ Len(p.titles) = 1 /\ ~Interstitial(p) /\ p.embeds = s.embeds
        /\ s.first = "60" <=> p.live = "ended"
        /\ p \in PageTypes /\ s.embeds \subseteq Embeds
    BY <1>5, <2>1 DEF Same, Interstitial, PageOK, ScanTypes
  <2>3. said = CASE s.first = "60" -> "offline"
                 [] s.first # "60" -> IF \E e \in Embeds : s.embeds = {e}
                                      THEN Only(s.embeds) ELSE "missing embed"
    BY <1>5 DEF parse_page
  <2> DEFINE both == CASE p.embeds = {} ->
                            Contract(IF p.live = "live" THEN "SCHEMA" ELSE "OFFLINE", "none")
                       [] \E e \in Embeds : p.embeds = {e} -> Contract("LIVE", Only(p.embeds))
                       [] OTHER -> Contract("EMBED_AMBIGUOUS", "none")
             one == CASE Interstitial(p) -> Contract("INTERSTITIAL", "none")
                      [] ~Interstitial(p) /\ p.live = "odd" -> Contract("SCHEMA", "none")
                      [] ~Interstitial(p) /\ p.live = "ended" -> Contract("OFFLINE", "none")
                      [] ~Interstitial(p) /\ p.live \in {"none", "live"} -> both
  <2>4. judged = one
    <3>1. judged = IF p.malformed \/ torn \/ p.raw # NoRaw \/ p.template > 0
                   THEN Contract("SCHEMA", "none")
                   ELSE CASE Len(p.titles) = 0 -> Contract("TITLE_MISSING", "none")
                          [] Len(p.titles) = 2 -> Contract("TITLE_AMBIGUOUS", "none")
                          [] Len(p.titles) = 1 -> one
      BY Zenon DEF parse_page_contract
    <3> HIDE DEF judged, one
    <3> QED
      BY <1>5, <2>2, <3>1
  <2> HIDE DEF judged, said, both
  <2>5. CASE p.live = "odd"
    <3>1. judged = Contract("SCHEMA", "none")
      BY <2>2, <2>4, <2>5
    <3> QED
      BY <3>1 DEF Contract
  <2>6. CASE p.live = "ended"
    <3>1. said = "offline" /\ judged = Contract("OFFLINE", "none")
      BY <2>2, <2>3, <2>4, <2>6
    <3> QED
      BY <3>1 DEF Contract
  <2>7. CASE p.live \in {"none", "live"}
    <3>1. /\ judged = both
          /\ said = IF \E e \in Embeds : s.embeds = {e} THEN Only(s.embeds)
                    ELSE "missing embed"
      BY <2>2, <2>3, <2>4, <2>7
    <3>2. CASE \E e \in Embeds : p.embeds = {e}
      <4>1. PICK e \in Embeds : p.embeds = {e}
        BY <3>2
      <4>2. said = e /\ judged = Contract("LIVE", e)
        BY <2>2, <3>1, <4>1, OnlyOne DEF both
      <4> QED
        BY <4>2 DEF Contract
    <3>3. CASE ~\E e \in Embeds : p.embeds = {e}
      <4>1. said = "missing embed"
        BY <2>2, <3>1, <3>3
      <4>2. judged \in {Contract("SCHEMA", "none"), Contract("OFFLINE", "none"),
                       Contract("EMBED_AMBIGUOUS", "none")}
        <5>1. CASE p.embeds = {}
          <6>1. judged = Contract(IF p.live = "live" THEN "SCHEMA" ELSE "OFFLINE", "none")
            BY <3>1, <5>1 DEF both
          <6> QED
            BY <6>1
        <5>2. CASE p.embeds # {}
          BY <3>1, <3>3, <5>2 DEF both
        <5> QED
          BY <5>1, <5>2
      <4>3. judged.state \in {"SCHEMA", "OFFLINE", "EMBED_AMBIGUOUS"}
        BY <4>2 DEF Contract
      <4> QED
        BY <4>1, <4>3
    <3> QED
      BY <3>2, <3>3
  <2> QED
    BY <2>2, <2>5, <2>6, <2>7 DEF PageTypes
<1> QED
  BY <1>3, <1>4, <1>5

\* Whatever the embeds, and however long the page: the validator and the plugin
\* come to the same verdict on a page whose tags they have all taken alike, or
\* one of them refuses it.
THEOREM ParsersAgree == Spec => []PagesAgree
<1>1. IInv => PagesAgree
  <2> SUFFICES ASSUME IInv, plugin.pc = "page", unlike = 0 PROVE Agreement
    BY DEF PagesAgree
  <2> DEFINE torn == FALSE
             asked == TRUE
  <2>1. torn \in BOOLEAN /\ asked \in BOOLEAN /\ ~torn /\ asked
    OBVIOUS
  <2>2. PageOK(page) /\ scan \in ScanTypes /\ Alongside(page, scan)
    BY DEF IInv, Together
  <2> HIDE DEF torn, asked
  <2>3. LET judged == parse_page_contract(page, torn)
            said == parse_page(scan, asked)
        IN  \/ judged.state = "SCHEMA" \/ said = "invalid page"
            \/ judged.state = "LIVE" /\ said = judged.embed
            \/ judged.state = "OFFLINE" /\ said \in {"offline", "missing embed"}
            \/ judged.state = "EMBED_AMBIGUOUS" /\ said = "missing embed"
    BY <2>1, <2>2, JudgedAlike
  <2> QED
    BY <2>3 DEF torn, asked, Agreement
<1> QED
  BY <1>1, TogetherAlways, PTL
=============================================================================
