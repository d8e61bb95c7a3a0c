--------------------------- MODULE RoleLocation ---------------------------
(***************************************************************************)
(* classify/location.py and web/display.py: what the classifier makes of a *)
(* posting's location, and what the page then shows and filters by.        *)
(*                                                                         *)
(* A location is its ";"-separated entries, an entry its comma-separated   *)
(* fragments.  Of a fragment only what the patterns look at is kept:       *)
(*   "united kingdom"  a UK marker the page removes at either end          *)
(*   "england"         a UK marker it keeps                                *)
(*   "city"            a name of UK_CITIES                                 *)
(*   "place"           any other name                                      *)
(*   "country"         a country outside the UK and North America          *)
(*   "united states"   a North American country                            *)
(*   "code", "region"  a state or province, by code and by name            *)
(*   "ambiguous"       one of AMBIGUOUS_REGION_NAMES                       *)
(*   "postcode"        a ZIP code by itself                                *)
(*   "remote"          NON_INFORMATIVE_FRAGMENTS                           *)
(* An entry of nothing but commas has no fragment.                         *)
(***************************************************************************)
EXTENDS Naturals, Sequences, SequencesExt

CONSTANTS
    MaxEntries,  \* bound: entries of a location
    MaxFragments \* bound: fragments of an entry

VARIABLE location \* the location string looked at

Fragments ==
    {"united kingdom", "england", "city", "place", "country", "united states",
     "code", "region", "ambiguous", "postcode", "remote"}

SeqsUpTo(S, n) == UNION {[1..m -> S] : m \in 0..n}

Locations == SeqsUpTo(SeqsUpTo(Fragments, MaxFragments), MaxEntries)

LocationInit == location = <<>>

Look == location = <<>> /\ location' \in Locations

LocationSpec == LocationInit /\ [][Look]_location

-----------------------------------------------------------------------------
(* The classifier.                                                         *)

IsUkMarker(f) == f \in {"united kingdom", "england"}

IsNonUkCountry(f) == f \in {"country", "united states"}

(* Over the whole string, whichever entry it is in.                        *)
NorthAmerican(loc) ==
    \E e \in ToSet(loc) : ToSet(e) \cap {"united states", "code", "postcode"} # {}

(* The fragment after a city places it outside the UK.                     *)
Qualifies(f, northAmerican) ==
    IsNonUkCountry(f) \/ f \in {"code", "region"} \/ (f = "ambiguous" /\ northAmerican)

HasUkCity(e, northAmerican) ==
    \E n \in DOMAIN e :
        e[n] = "city" /\ ~(n < Len(e) /\ Qualifies(e[n + 1], northAmerican))

(* fragments[0] of an entry without any raises IndexError.                 *)
EntryVerdict(e, northAmerican) ==
    CASE \E f \in ToSet(e) : IsUkMarker(f) -> "uk"
      [] e = <<>>                          -> "raises"
      [] OTHER -> IF ~IsNonUkCountry(Head(e)) /\ HasUkCity(e, northAmerican) THEN "uk" ELSE "no"

(* any() stops at the first entry that is UK, or raises.                   *)
ClassifyLocation(loc) ==
    LET verdict(e) == EntryVerdict(e, NorthAmerican(loc))
        decided    == SelectInSeq(loc, LAMBDA e : verdict(e) # "no")
    IN  CASE loc = <<>>   -> "unknown"
          [] decided # 0  -> verdict(loc[decided])
          [] OTHER -> IF \A e \in ToSet(loc) : ToSet(e) = {"remote"} THEN "unknown" ELSE "non_uk"

-----------------------------------------------------------------------------
(* The page: display_location and derive_cities.                           *)

(* A bare "United Kingdom" stays: the patterns want a comma beside it.     *)
WithoutLeading(e) == IF Len(e) > 1 /\ Head(e) = "united kingdom" THEN Tail(e) ELSE e
WithoutTrailing(e) == IF Len(e) > 1 /\ Last(e) = "united kingdom" THEN Front(e) ELSE e
Normalised(e) == WithoutTrailing(WithoutLeading(e))

(* Mutated form: UK-ness of the segment as it is shown.                    *)
ReadsUk(e) == ClassifyLocation(<<Normalised(e)>>) = "uk"

IsUkPart(e) == ClassifyLocation(<<e>>) = "uk"

(* The entries whose segment is kept: the first of those that read alike.  *)
Segments(loc) ==
    FoldLeft(LAMBDA kept, e :
                IF e = <<>> \/ \E k \in ToSet(kept) : Normalised(k) = Normalised(e)
                THEN kept ELSE Append(kept, e), <<>>, loc)

IsQualifier(e) == Normalised(e) = <<"remote">>

(* The entry behind the location a row shows, when it shows a place.       *)
Shown(loc) ==
    LET segments == Segments(loc)
        uk       == SelectInSeq(segments, LAMBDA e : ~IsQualifier(e) /\ IsUkPart(e))
    IN  segments[IF uk # 0 THEN uk ELSE SelectInSeq(segments, LAMBDA e : ~IsQualifier(e))]

(* _is_uk_mention asks about the entry with the town swapped for London;   *)
(* a fragment "city" stands for that town already.                         *)
FiledUnder(loc) ==
    LET cities == {f \in {"city"} : \E e \in ToSet(loc) : f \in ToSet(e) /\ IsUkPart(e)}
        remote == {f \in {"remote"} : \E e \in ToSet(loc) :
                        f \in ToSet(e) /\ ClassifyLocation(<<e>>) # "non_uk"}
    IN  IF cities \cup remote = {} THEN {"other"} ELSE cities \cup remote

-----------------------------------------------------------------------------

(* A role the page lists for a UK place shows a UK place, and one listed   *)
(* for a UK city is found under it: although the classifier looks at the   *)
(* whole string and the page at one segment after another, rewritten       *)
(* (display_location, derive_cities).  Excepted are the two ways in which  *)
(* rewriting hides the UK entry: "Remote, United Kingdom" is no place any  *)
(* more, and of two segments that now read alike only the first is asked.  *)
ReadAlike(loc) ==
    \E k, n \in DOMAIN loc : k # n /\ Normalised(loc[k]) = Normalised(loc[n])

ListedFor(e) ==
    /\ EntryVerdict(e, NorthAmerican(location)) = "uk"
    /\ ClassifyLocation(location) = "uk"

ListedRolesShowUkPlaces ==
    \A e \in ToSet(location) : ListedFor(e) =>
        /\ ~IsQualifier(e) /\ ~ReadAlike(location) => IsUkPart(Shown(location))
        /\ "city" \in ToSet(e) => "city" \in FiledUnder(location)
=============================================================================
