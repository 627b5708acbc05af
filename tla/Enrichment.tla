----------------------------- MODULE Enrichment -----------------------------
(***************************************************************************)
(* The sources of crates/ludex-enrich: what each of them reads of an       *)
(* application off the disk, as functions from the application and the     *)
(* files to a patch.  Names and paths are tokens: a path is the sequence   *)
(* of its components, a file is the sequence of the entries a source       *)
(* finds in it, in the order it finds them.                                *)
(***************************************************************************)
EXTENDS Integers, Sequences, SequencesExt

Unset == "unset"      \* Option::None, of a field
Blank == ""           \* a string of spaces

-----------------------------------------------------------------------------
(* Patches. *)

Field == {"product_name", "publisher", "version", "executable_path"}

NoPatch == [f \in Field |-> Unset]
Named(name) == [NoPatch EXCEPT !["product_name"] = name]

(* An accumulator is a patch and the source its name came from. *)
Nothing == [patch |-> NoPatch, via |-> Unset]

(* A plausible mistake: the first source to fill a field keeps it. *)
MergeFirstWins(acc, source, patch) ==
  [patch |-> [f \in Field |-> IF acc.patch[f] # Unset THEN acc.patch[f] ELSE patch[f]],
   via   |-> IF patch["product_name"] # Unset THEN source ELSE acc.via]

(* merge_into: the fields a patch has overwrite; the provenance follows    *)
(* the name.                                                               *)
MergeInto(acc, source, patch) ==
  [patch |-> [f \in Field |-> IF patch[f] # Unset THEN patch[f] ELSE acc.patch[f]],
   via   |-> IF patch["product_name"] # Unset THEN source ELSE acc.via]

IsEmpty(acc) == acc.patch = NoPatch

(* build_patch: the sources, the strongest last. *)
Cascade == <<"desktop", "pe", "gog", "heroic", "lutris", "steam">>

-----------------------------------------------------------------------------
(* The sources. *)

(* The first entry that satisfies P: a sequence of one, or of none. *)
First(entries, P(_)) ==
  LET i == SelectInSeq(entries, P) IN IF i = 0 THEN << >> ELSE <<entries[i]>>

(* desktop::enrich: the entries of the XDG directories in the order they   *)
(* are scanned, matched by id for a Flatpak, by Exec for a native binary.  *)
Desktop(app, entries) ==
  LET Usable(e) == e.runs = app.id /\ e.name # Unset
      hit == First(entries, Usable)
  IN  IF app.type \notin {"flatpak", "native"} \/ hit = << >> THEN NoPatch
      ELSE Named(hit[1].name)

NonEmpty(v) == IF v = Blank THEN Unset ELSE v
Or(v, w) == IF v # Unset THEN v ELSE w

(* pe::enrich: of the translations the English one, else the first; a      *)
(* missing name falls back on the description.  No file of more than       *)
(* MAX_PE_READ_BYTES is read.                                              *)
Pe(app, file) ==
  LET English(t) == t.lang = "en"
      some == (First(file.translations, English) \o file.translations)[1]
  IN  IF ~app.windows \/ file.huge \/ file.translations = << >> THEN NoPatch
      ELSE [NoPatch EXCEPT
              !["product_name"] = Or(NonEmpty(some.name), NonEmpty(some.description)),
              !["publisher"] = NonEmpty(some.company),
              !["version"] = Or(NonEmpty(some.product), NonEmpty(some.file))]

(* try_directory of gog.rs: a blank name is passed over, but an info file  *)
(* that cannot be read or has no name ends the directory's scan.           *)
GogDirectory(files) ==
  LET Stops(f) == f.name # Blank
      hit == First(files, Stops)
  IN  IF hit = << >> THEN NoPatch
      ELSE IF hit[1].name = Unset THEN NoPatch
      ELSE [Named(hit[1].name) EXCEPT !["version"] = hit[1].version]

PARENT_WALK_DEPTH == 3

(* gog::enrich: the executable's directory and the parents above it. *)
Gog(app, directories) ==
  LET walk == SubSeq(directories, 1, PARENT_WALK_DEPTH)
      Matches(d) == GogDirectory(d) # NoPatch
      hit == First(walk, Matches)
  IN  IF app.path = << >> \/ hit = << >> THEN NoPatch ELSE GogDirectory(hit[1])

(* read_one_library: the rows that are installed and complete. *)
Installed(library) ==
  LET Complete(g) == /\ g.installed
                     /\ {g.app, g.title} \cap {Unset, Blank} = {}
                     /\ g.dir # << >>
  IN  SelectSeq(library, Complete)

(* find_by_install_path and best_match: max_by_key over the directories    *)
(* the path starts with, component by component; the last of equals.       *)
LongestPrefix(games, path) ==
  LET Holds(i) == IsPrefix(games[i].dir, path)
      best == {i \in DOMAIN games : Holds(i) /\ \A j \in DOMAIN games :
                 Holds(j) => \/ Len(games[j].dir) < Len(games[i].dir)
                             \/ Len(games[j].dir) = Len(games[i].dir) /\ j <= i}
  IN  IF best = {} THEN << >> ELSE <<games[CHOOSE i \in best : TRUE]>>

(* heroic::enrich: by HEROIC_APP_NAME, or by directory for a native one.   *)
(* `libraries` is what read_libraries could read of the runners' caches.   *)
Heroic(app, libraries) ==
  LET games == FlattenSeq([i \in DOMAIN libraries |-> Installed(libraries[i])])
      Mine(g) == g.app = app.id
      hit == CASE app.type = "heroic" -> First(games, Mine)
               [] app.type = "native" -> LongestPrefix(games, app.path)
               [] OTHER -> << >>
  IN  IF hit = << >> THEN NoPatch
      ELSE [NoPatch EXCEPT !["product_name"] = hit[1].title,
                           !["publisher"] = NonEmpty(hit[1].developer),
                           !["executable_path"] = NonEmpty(hit[1].exe)]

(* resolve_identity: the row of an aggregator stands for the games that    *)
(* run in its prefix, those of the curated table by their own names.       *)
ResolveIdentity(game, app) ==
  IF game.name = "Battle.net" /\ app.curated
  THEN [Named("curated name") EXCEPT !["publisher"] = "Blizzard Entertainment"]
  ELSE Named(game.name)

(* lutris::enrich, of any application with an executable path. *)
Lutris(app, rows) ==
  LET Usable(r) == r.installed /\ r.name # Unset /\ r.dir # << >>
      hit == IF app.path = << >> THEN << >>
             ELSE LongestPrefix(SelectSeq(rows, Usable), app.path)
  IN  IF hit = << >> THEN NoPatch ELSE ResolveIdentity(hit[1], app)

(* values_for_key of vdf.rs: the values of a key, whatever their depth;    *)
(* parse_top_level_string takes the first.                                 *)
ValuesForKey(lines, key) ==
  LET Has(l) == l.key = key
      hits == SelectSeq(lines, Has)
  IN  [i \in DOMAIN hits |-> hits[i].value]

(* steam::enrich, of a Steam application with a manifest. *)
Steam(app, manifest) ==
  LET names == ValuesForKey(manifest, "name")
  IN  IF app.type # "steam" \/ names = << >> THEN NoPatch
      ELSE Named(names[1])

(* What source s makes of the files it finds. *)
Enrich(s, app, files) ==
  CASE s = "desktop" -> Desktop(app, files)
    [] s = "pe"      -> Pe(app, files)
    [] s = "gog"     -> Gog(app, files)
    [] s = "heroic"  -> Heroic(app, files)
    [] s = "lutris"  -> Lutris(app, files)
    [] s = "steam"   -> Steam(app, files)

=============================================================================
