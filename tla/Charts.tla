------------------------------- MODULE Charts -------------------------------
(***************************************************************************)
(* The chart store: the goroutine that copies the charts of a repository   *)
(* into a local directory, and the handlers that list charts and check an  *)
(* application's values.  A version is unpacked into a hidden directory    *)
(* and renamed when it is whole; requests read the directory meanwhile.    *)
(* A file is one of "Chart" (Chart.yaml), "config" (config.json), or       *)
(* another name; what it holds is the version it was packed in.            *)
(***************************************************************************)
EXTENDS Naturals, Sequences, FiniteSets

CONSTANTS
    ChRepo,         \* chart -> version -> the files of the archive, in order
    ChSystem,       \* charts with the keyword zcloud-system
    ChConfigs,      \* the fields a config.json can describe
    ChValues,       \* values an application can be created with
    ChSyncs,        \* bound: rounds of the goroutine
    ChRequests      \* bound: requests

VARIABLES
    chDisk,         \* chart -> directory -> file -> version
    chSync,         \* the goroutine
    chLeft, chSeen, chAsked

chVars == <<chDisk, chSync, chLeft, chSeen, chAsked>>

ChNone == <<>>
ChIdle == [at |-> "idle"]
Hidden == ".unpacked"

(* An archive is a sequence of file names, and no version has the name of  *)
(* the hidden directory.                                                   *)
ChPacked == \A c \in DOMAIN ChRepo : \A v \in DOMAIN ChRepo[c] : v # Hidden /\ ChRepo[c][v] \in Seq(STRING)
ASSUME ChAssumption == ChPacked

ChInit ==
    /\ chDisk = [c \in DOMAIN ChRepo |-> ChNone]
    /\ chSync = ChIdle /\ chLeft = ChSyncs /\ chSeen = {} /\ chAsked = 0

(***************************** Configurations ******************************)

(* A field of config.json; absent limits are 0.                            *)
validateInt(c) ==
    /\ c.valid = {} /\ c.minLen = 0 /\ c.maxLen = 0
    /\ (c.min = 0 /\ c.max = 0) \/ (c.min # 0 /\ c.max # 0 /\ c.min < c.max)

validateStr(c) ==
    /\ c.valid = {} /\ c.min = 0 /\ c.max = 0
    /\ (c.minLen = 0 /\ c.maxLen = 0) \/ (c.minLen # 0 /\ c.maxLen # 0 /\ c.minLen < c.maxLen)

validateEnum(c) == c.min = 0 /\ c.max = 0 /\ c.minLen = 0 /\ c.maxLen = 0 /\ c.valid # {}

validateConfig(c) ==
    CASE c.type = "int" -> validateInt(c)
      [] c.type = "string" -> validateStr(c)
      [] c.type = "enum" -> validateEnum(c)
      [] OTHER -> TRUE

(* A value: a map, a number, a text of some length, or a list of texts.    *)
IsMap(v) == v.is = "map"
checkInt(c, v) == v.is = "int" /\ ((c.min = 0 /\ c.max = 0) \/ v.n \in c.min .. c.max - 1)
checkStr(c, v) == v.is = "string" /\ ((c.minLen = 0 /\ c.maxLen = 0) \/ v.len \in c.minLen .. c.maxLen - 1)
checkEnumValue(c, v) == v.is = "string" /\ v.text \in c.valid
checkEnum(c, v) == IF v.is = "list" THEN \A x \in v.of : checkEnumValue(c, x) ELSE checkEnumValue(c, v)

(* The value on the path, here of one or two keys; a scalar ends it early, *)
(* and a map at its end is no value.                                       *)
ChNil == [is |-> "nil"]
ValueAt(v, path) ==
    LET step(w, k) == IF IsMap(w) /\ k \in DOMAIN w.of THEN w.of[k] ELSE IF IsMap(w) THEN ChNil ELSE w
        end == IF Len(path) = 1 THEN step(v, path[1]) ELSE step(step(v, path[1]), path[2])
    IN IF IsMap(end) THEN ChNil ELSE end

checkCriteria(c, v) ==
    LET value == ValueAt(v, c.key)
    IN IF value = ChNil THEN ~c.required
       ELSE CASE c.type = "int" -> checkInt(c, value)
              [] c.type = "string" -> checkStr(c, value)
              [] c.type = "enum" -> checkEnum(c, value)
              [] OTHER -> TRUE

(******************************* Reading ***********************************)

(* LoadChartConfigs: the fields a version's config.json describes.         *)
LoadChartConfigs(files) == "config" \in DOMAIN files /\ \A c \in ChConfigs : validateConfig(c)
CheckConfigs(files, v) == LoadChartConfigs(files) /\ \A c \in ChConfigs : checkCriteria(c, v)
getChartInfo(files) == "Chart" \in DOMAIN files

Visible(c) == {d \in DOMAIN chDisk[c] : d # Hidden}

(* listVersions: without one that has a description there is none at all,  *)
(* and a system chart has versions only for the platform itself.           *)
listVersions(c, needSystem) ==
    IF ~needSystem /\ c \in ChSystem THEN {}
    ELSE {d \in Visible(c) : getChartInfo(chDisk[c][d]) /\ LoadChartConfigs(chDisk[c][d])}

getLocalCharts(needSystem) == {c \in DOMAIN ChRepo : listVersions(c, needSystem) # {}}

(* List and Get of charts, and what a creation of an application loads.    *)
List ==
    /\ chAsked < ChRequests /\ chAsked' = chAsked + 1
    /\ chSeen' = UNION {{<<c, d, chDisk[c][d]>> : d \in listVersions(c, FALSE)} : c \in getLocalCharts(FALSE)}
    /\ UNCHANGED <<chDisk, chSync, chLeft>>

CreateFromChart ==
    /\ chAsked < ChRequests /\ chAsked' = chAsked + 1
    /\ \E c \in DOMAIN ChRepo, v \in ChValues :
          \E d \in DOMAIN ChRepo[c] :
             chSeen' = IF /\ listVersions(c, c \in ChSystem) # {} /\ d \in DOMAIN chDisk[c]
                          /\ getChartInfo(chDisk[c][d]) /\ CheckConfigs(chDisk[c][d], v)
                       THEN {<<c, d, chDisk[c][d]>>} ELSE {}
    /\ UNCHANGED <<chDisk, chSync, chLeft>>

(**************************** Synchronisation ******************************)

(* loadCloudCharts: the index is fetched and compared with what is listed. *)
loadCloudCharts ==
    /\ chSync.at = "idle" /\ chLeft > 0 /\ chLeft' = chLeft - 1
    /\ \/ \E index \in SUBSET UNION {{<<c, d>> : d \in DOMAIN ChRepo[c]} : c \in DOMAIN ChRepo} :
             chSync' = [at |-> "chart", todo |-> {p \in index : p[2] \notin listVersions(p[1], TRUE)}]
       \/ UNCHANGED chSync
    /\ UNCHANGED <<chDisk, chSeen, chAsked>>

(* checkChartExistAndLoadVersionsIfNeed: a version that is missing, and    *)
(* the sleep when there is none.                                           *)
Pick ==
    /\ chSync.at = "chart"
    /\ \/ chSync.todo = {} /\ chSync' = ChIdle
       \/ \E p \in chSync.todo :
             chSync' = [at |-> "first", todo |-> chSync.todo \ {p}, chart |-> p[1], version |-> p[2], n |-> 1]
    /\ UNCHANGED <<chDisk, chLeft, chSeen, chAsked>>

Drop(f, d) == [x \in DOMAIN f \ {d} |-> f[x]]
With(f, d, v) == [x \in DOMAIN f \cup {d} |-> IF x = d THEN v ELSE f[x]]

(* expandFile, first header: what an earlier attempt left is removed.      *)
Opened(dir) == With(dir, Hidden, ChNone)

(* loadCloudChartByVersion, until the archive opens.                       *)
Download ==
    /\ chSync.at = "first"
    /\ \/ /\ chDisk' = [chDisk EXCEPT ![chSync.chart] = Opened(@)]
          /\ chSync' = [chSync EXCEPT !.at = "file"]
       \/ chSync' = ChIdle /\ UNCHANGED chDisk
    /\ UNCHANGED <<chLeft, chSeen, chAsked>>

Archive == ChRepo[chSync.chart][chSync.version]

(* Variant: the error of a download that breaks off is not looked at.      *)
expandFileBlindly ==
    /\ chSync.at = "file"
    /\ \/ /\ chSync.n <= Len(Archive)
          /\ chDisk' = [chDisk EXCEPT ![chSync.chart][Hidden] = With(@, Archive[chSync.n], chSync.version)]
          /\ chSync' = [chSync EXCEPT !.n = @ + 1]
       \/ chSync' = [chSync EXCEPT !.at = "rename"] /\ UNCHANGED chDisk
    /\ UNCHANGED <<chLeft, chSeen, chAsked>>

(* expandFile: one file after the other; the download may break off.       *)
expandFile ==
    /\ chSync.at = "file"
    /\ \/ /\ chSync.n <= Len(Archive)
          /\ chDisk' = [chDisk EXCEPT ![chSync.chart][Hidden] = With(@, Archive[chSync.n], chSync.version)]
          /\ chSync' = [chSync EXCEPT !.n = @ + 1]
       \/ chSync.n <= Len(Archive) /\ chSync' = ChIdle /\ UNCHANGED chDisk
       \/ chSync.n > Len(Archive) /\ chSync' = [chSync EXCEPT !.at = "rename"] /\ UNCHANGED chDisk
    /\ UNCHANGED <<chLeft, chSeen, chAsked>>

(* The rename fails when the version's directory is there already.         *)
Rename ==
    LET c == chSync.chart
        v == chSync.version
    IN /\ chSync.at = "rename"
       /\ \/ /\ v \notin DOMAIN chDisk[c]
             /\ chDisk' = [chDisk EXCEPT ![c] = With(Drop(@, Hidden), v, @[Hidden])]
             /\ chSync' = [at |-> "chart", todo |-> chSync.todo]
          \/ chSync' = ChIdle /\ UNCHANGED chDisk
       /\ UNCHANGED <<chLeft, chSeen, chAsked>>

ChNext == List \/ CreateFromChart \/ loadCloudCharts \/ Pick \/ Download \/ expandFile \/ Rename

ChSpec == ChInit /\ [][ChNext]_chVars

(****************************** Properties *********************************)

Whole(c, v) == [f \in {ChRepo[c][v][i] : i \in DOMAIN ChRepo[c][v]} |-> v]

(* Whatever a request lists or an application is made from is a version of *)
(* the repository exactly as it was packed: none that is still being       *)
(* copied, none that a broken download left, none mixed of two versions.   *)
ChWhole == \A s \in chSeen : s[2] \in DOMAIN ChRepo[s[1]] /\ s[3] = Whole(s[1], s[2])
=============================================================================
