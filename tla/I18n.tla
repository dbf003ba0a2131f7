-------------------------------- MODULE I18n ---------------------------------
(***************************************************************************)
(* packages/i18n: the locale that a request negotiates and the chain of    *)
(* locales in which its message is looked up, on all small requests; and   *)
(* the remote loader of catalogs with its cache, its timeout and aborts,   *)
(* against a provider that publishes new versions.  A locale is the        *)
(* sequence of its segments with its spelling; a catalog its version.      *)
(***************************************************************************)
EXTENDS Naturals, Sequences, SequencesExt

CONSTANTS Loads, Ttl,         \* the calls of load(), and ttlMs
          MaxTime, MaxVersion,\* bounds: the clock and the versions
          Settings,           \* the options that the module and the resolvers may be given
          Wishes              \* what a request may ask for

I18nAssumption == Ttl \in Nat \ {0} /\ MaxTime \in Nat /\ MaxVersion \in Nat

VARIABLES
  now,        \* the clock
  superseded, \* what the provider published: when each version gave way to the next
  entry,      \* cache: the version and when it expires
  load,       \* per call: where it is, when it began and what it read
  aborted,    \* the calls whose caller aborted
  settings, wish, locale, message \* a request: its options, what it asks for, what it gets

loaderVars == <<now, superseded, entry, load, aborted>>
localeVars == <<settings, wish, locale, message>>
i18nVars == <<loaderVars, localeVars>>

Nothing == [version |-> 0, expires |-> 0]
Idle == [pc |-> "no", began |-> 0, version |-> 0]
NoLocale == <<<<>>, "given">>

I18nTypeOK ==
  /\ now \in 0..MaxTime /\ superseded \in Seq(Nat) /\ aborted \subseteq Loads
  /\ entry.version \in 0..MaxVersion
  /\ \A l \in Loads : load[l].pc \in {"no", "asked", "read", "answered", "served", "failed"}

LoaderInit ==
  /\ now = 0 /\ superseded = <<>> /\ entry = Nothing
  /\ load = [l \in Loads |-> Idle] /\ aborted = {}
NoRequest == settings = <<>> /\ wish = <<>> /\ locale = NoLocale /\ message = <<>>
LocaleInit == settings \in Settings /\ wish \in Wishes /\ locale = NoLocale /\ message = <<>>

---------------------------------------------------------------------------
(* RemoteI18nLoader behind CachedRemoteI18nLoader *)

Current == Len(superseded) + 1
Ends(l, pc) == load' = [load EXCEPT ![l].pc = pc]

\* load: a cached catalog that has not expired, or the provider is asked.
Hits(l) ==
  /\ load[l].pc = "no" /\ entry.expires > now
  /\ load' = [load EXCEPT ![l] = [pc |-> "served", began |-> now, version |-> entry.version]]
  /\ UNCHANGED <<now, superseded, entry, aborted, localeVars>>
Asks(l) ==
  /\ load[l].pc = "no" /\ entry.expires <= now
  /\ load' = [load EXCEPT ![l] =
       [Idle EXCEPT !.pc = IF l \in aborted THEN "failed" ELSE "asked", !.began = now]]
  /\ UNCHANGED <<now, superseded, entry, aborted, localeVars>>

\* The provider reads what it will answer, answers, or fails: a missing or
\* malformed catalog is a failure too.
ProviderReads(l) ==
  /\ load[l].pc = "asked" /\ load' = [load EXCEPT ![l].pc = "read", ![l].version = Current]
  /\ UNCHANGED <<now, superseded, entry, aborted, localeVars>>
Answers(l) ==
  /\ load[l].pc = "read" /\ Ends(l, "answered")
  /\ UNCHANGED <<now, superseded, entry, aborted, localeVars>>
Fails(l) ==
  /\ load[l].pc \in {"asked", "read", "answered"} /\ Ends(l, "failed")
  /\ UNCHANGED <<now, superseded, entry, aborted, localeVars>>

\* The caller aborts, or the timer of the load: the race is lost, but for an
\* answer that has won it and finds the signal aborted when it goes on.
Abort(l) ==
  /\ l \notin aborted /\ aborted' = aborted \cup {l}
  /\ IF load[l].pc \in {"asked", "read"} THEN Ends(l, "failed") ELSE UNCHANGED load
  /\ UNCHANGED <<now, superseded, entry, localeVars>>
TimesOut(l) ==
  /\ load[l].pc \in {"asked", "read"} /\ Ends(l, "failed")
  /\ UNCHANGED <<now, superseded, entry, aborted, localeVars>>

\* Mutant: an entry lives from the end of its load.
ExpiresFromEnd(l) == now + Ttl
Expires(l) == load[l].began + Ttl
Resumes(l) ==
  /\ load[l].pc = "answered"
  /\ IF l \in aborted THEN Ends(l, "failed") /\ UNCHANGED entry
     ELSE Ends(l, "served") /\ entry' = [version |-> load[l].version, expires |-> Expires(l)]
  /\ UNCHANGED <<now, superseded, aborted, localeVars>>

\* invalidate and clear
Invalidate ==
  /\ entry # Nothing /\ entry' = Nothing
  /\ UNCHANGED <<now, superseded, load, aborted, localeVars>>

Publish ==
  /\ Current < MaxVersion /\ superseded' = Append(superseded, now)
  /\ UNCHANGED <<now, entry, load, aborted, localeVars>>
Tick == now < MaxTime /\ now' = now + 1 /\ UNCHANGED <<superseded, entry, load, aborted, localeVars>>

---------------------------------------------------------------------------
(* The locale of a request.  The header is a sequence of ranges with their  *)
(* quality, "*" standing for the wildcard.                                  *)

Wildcard == <<<<"*">>, "given">>
Same(a, b) == a[1] = b[1]
AnyOf(locales) == locales = <<>>

\* resolveSupportedLocale, and with the parents of the range normalizeSupportedLocale
resolveSupportedLocale(range, supported) ==
  IF AnyOf(supported) THEN range
  ELSE LET i == SelectInSeq(supported, LAMBDA s : Same(s, range)) IN IF i = 0 THEN NoLocale ELSE supported[i]
\* Mutant: only the range itself and its first segment are looked for.
NarrowedOnce(range) == <<range>> \o IF Len(range[1]) > 1 THEN <<<<SubSeq(range[1], 1, 1), "lower">>>> ELSE <<>>
Narrowed(range) ==
  [n \in 1..Len(range[1]) |-> IF n = 1 THEN range ELSE <<SubSeq(range[1], 1, Len(range[1]) + 1 - n), "lower">>]
normalizeSupportedLocale(range, supported, toParent) ==
  LET tries == IF toParent THEN Narrowed(range) ELSE <<range>>
      i == SelectInSeq(tries, LAMBDA t : resolveSupportedLocale(t, supported) # NoLocale)
  IN IF i = 0 THEN NoLocale ELSE resolveSupportedLocale(tries[i], supported)

\* parseLocalePreferences: by quality, then as written; a quality of 0 is left out.
parseLocalePreferences(header) ==
  LET kept == SelectSeq(header, LAMBDA p : p.quality > 0)
      Of(q) == SelectSeq(kept, LAMBDA p : p.quality = q)
  IN Of(2) \o Of(1)

\* selectLocaleFromAcceptLanguagePolicy; without its options it is the plain
\* header resolver.
FromHeader(o, header) ==
  LET preferences == parseLocalePreferences(header)
      Match(p) == IF p.range = Wildcard THEN NoLocale ELSE normalizeSupportedLocale(p.range, o.supported, o.toParent)
      i == SelectInSeq(preferences, LAMBDA p : Match(p) # NoLocale)
  IN IF i # 0 THEN Match(preferences[i])
     ELSE IF \A p \in Range(preferences) : p.range # Wildcard THEN NoLocale
     ELSE CASE o.wildcard = "none" -> NoLocale
            [] o.wildcard = "default" -> normalizeSupportedLocale(o.default, o.supported, FALSE)
            [] o.wildcard = "first" -> IF AnyOf(o.supported) THEN o.default ELSE o.supported[1]

\* resolveLocale and resolveHttpLocale, with a resolver of the query, a cookie or
\* a store before the header's: the first that names a supported locale, spelled
\* as it is configured.
Negotiate ==
  /\ settings # <<>> /\ locale = NoLocale
  /\ LET Supports(l) == l # NoLocale /\ (AnyOf(settings.supported) \/ l \in Range(settings.supported))
         header == FromHeader(settings, wish.header)
     IN locale' = IF Supports(wish.stored) THEN wish.stored
                  ELSE IF Supports(header) THEN header ELSE settings.default
  /\ UNCHANGED <<settings, wish, message, loaderVars>>

\* resolveLocales: the locale, its fallbacks and the default, each once.
resolveLocales(o, l) ==
  FoldLeft(LAMBDA chain, f : IF f \in Range(chain) THEN chain ELSE Append(chain, f), <<>>,
           <<l>> \o (IF l \in DOMAIN o.fallback THEN o.fallback[l] ELSE <<>>) \o <<o.default>>)

\* translate, for a message that the locales of wish.written have.
Translate ==
  /\ locale # NoLocale /\ message = <<>>
  /\ LET chain == resolveLocales(settings, locale)
         i == SelectInSeq(chain, LAMBDA l : l \in wish.written)
     IN message' = IF ~AnyOf(settings.supported) /\ locale \notin Range(settings.supported)
                   THEN <<"unsupported">>
                   ELSE IF i = 0 THEN <<"missing">> ELSE <<"in", chain[i]>>
  /\ UNCHANGED <<settings, wish, locale, loaderVars>>

---------------------------------------------------------------------------
LoaderNext ==
  \/ \E l \in Loads : Hits(l) \/ Asks(l) \/ ProviderReads(l) \/ Answers(l) \/ Fails(l) \/ Abort(l)
                        \/ TimesOut(l) \/ Resumes(l)
  \/ Invalidate \/ Publish \/ Tick
LocaleNext == Negotiate \/ Translate
Next == LoaderNext \/ LocaleNext

\* Timers fire, and an answer goes on.
Due == \E l \in Loads : TimesOut(l) \/ Resumes(l)
Spec == LoaderInit /\ NoRequest /\ [][Next]_i18nVars /\ WF_i18nVars(Due)

---------------------------------------------------------------------------
(* Properties *)

\* A catalog that is served was the provider's within the time to live before
\* the load began, however long the load that cached it took; and a load that
\* was aborted before its answer caches nothing (load of the two loaders).
FreshCatalogs ==
  \A l \in Loads : load[l].pc = "served" /\ load[l].version < Current =>
    superseded[load[l].version] + Ttl > load[l].began

\* The locale is the best of what the request asks for that is supported: the
\* parent nearest to a range that no better range beats; it is spelled as it is
\* configured, and the translation service takes it (resolveHttpLocale, translate).
BestLocale ==
  locale # NoLocale =>
    LET supported == Range(settings.supported)
        Covers(s, p) == p.quality > 0 /\ p.range # Wildcard /\
          IF settings.toParent THEN IsPrefix(s[1], p.range[1]) ELSE Same(s, p.range)
        Nearest(s, p) == Covers(s, p) /\ \A t \in supported : Covers(t, p) => Len(t[1]) <= Len(s[1])
        Better(i, j) == \/ wish.header[i].quality > wish.header[j].quality
                        \/ wish.header[i].quality = wish.header[j].quality /\ i < j
        Best(i) == /\ \E s \in supported : Covers(s, wish.header[i])
                   /\ \A j \in DOMAIN wish.header \ {i} :
                        (\E s \in supported : Covers(s, wish.header[j])) => Better(i, j)
    IN AnyOf(settings.supported) \/
       /\ locale \in supported /\ message # <<"unsupported">>
       /\ wish.stored \in supported => locale = wish.stored
       /\ wish.stored \notin supported => \A i \in DOMAIN wish.header : Best(i) => Nearest(locale, wish.header[i])
       /\ message = <<"missing">> => locale \notin wish.written /\ settings.default \notin wish.written

AllSettled == \A l \in Loads : load[l].pc \in {"no", "asked", "read", "served", "failed"}
=============================================================================
