-------------------------------- MODULE FileInput -------------------------------
(***************************************************************************)
(* pawbun-files: a file handle, how it is loaded, held against limits,     *)
(* made smaller and turned into a block of a provider's request.           *)
(*                                                                         *)
(* Abstractions: bytes are what can be told of them, [magic, utf8, mib,    *)
(* width]; images are as high as they are wide; a name is its extension;   *)
(* a path is where it leads.  Durations are never filled in and left out.  *)
(***************************************************************************)
EXTENDS Integers, FiniteSets

CONSTANTS Names,      \* extensions of file names, "none" among them
          Holdings,   \* what files hold
          Limits,     \* FileConstraints: [mib, types, width, mode], 0 and {} for None
          Features,   \* circumstances: the features of the crate, sets of "url-source", "image-meta"
          TargetWidth \* AutoStrategy::image_target_width

\* What the magic bytes tell, and nothing else is told of them.
Bytes == [magic : {"none", "png", "jpeg", "gif", "webp", "pdf"}, utf8 : BOOLEAN, mib : Nat, width : Nat]

ASSUME FileAssumption ==
    /\ TargetWidth \in Nat \ {0} /\ Features \subseteq SUBSET {"url-source", "image-meta"}
    /\ Holdings \subseteq Bytes /\ \A l \in Limits : {l.mib, l.width} \subseteq Nat

VARIABLES features,
          disk,      \* what the file holds now
          source,    \* [is, name, data, leads]: "local", "url", "bytes"
          media_type, limits,
          stage,     \* "new", "resolved", "loaded", "refused"
          read,      \* the bytes that were read
          size_told, \* metadata.size_bytes
          content,   \* MediaContent: [type, bytes, width], width 0 for None
          verdict,   \* of check(): "none", "ok", "violated"
          smaller,   \* downgrade_image was used
          block      \* of the request

fileVars == <<features, disk, source, media_type, limits, stage, read, size_told, content, verdict, smaller, block>>

-----------------------------------------------------------------------------
(* Media types.                                                             *)

Image == {"png", "jpeg", "gif", "webp", "svg", "bmp"}
Audio == {"mp3", "wav", "ogg", "aac", "flac"}
Video == {"mp4", "webm", "avi", "mov"}
Unset == "unset"

FromExtension(ext) ==
    CASE ext \in {"txt", "md", "json", "csv"} -> "text"
      [] ext \in {"jpg", "jpeg"} -> "jpeg"
      [] ext \in (Image \cup Audio \cup Video \cup {"pdf"}) \ {"jpeg"} -> ext
      [] OTHER -> Unset

\* A type's MIME type is one to one; only Binary has none.
MimeType(type) == IF type = "binary" THEN "none" ELSE type

NoBytes == [magic |-> "none", utf8 |-> FALSE, mib |-> 0, width |-> 0]
NoContent == [type |-> Unset, bytes |-> NoBytes, width |-> 0]
NoBlock == [form |-> "none", mime |-> "none", carries |-> NoBytes]

-----------------------------------------------------------------------------
(* The handle: from_path, from_url, from_bytes; with_media_type.            *)

Source(is, name, data, leads) == [is |-> is, name |-> name, data |-> data, leads |-> leads]
\* hint(): bytes have none, whatever name they came with.
Hint == IF source.is = "bytes" THEN "none" ELSE source.name

FileInit ==
    /\ features \in Features /\ disk \in Holdings /\ limits \in Limits
    /\ \E name \in Names : \/ \E leads \in {"inside", "outside", "nowhere"} : source = Source("local", name, NoBytes, leads)
                           \/ source = Source("url", name, NoBytes, "inside")
                           \/ source = Source("bytes", name, disk, "inside")
    /\ media_type = FromExtension(source.name)
    /\ stage = "new" /\ read = NoBytes /\ size_told = 0 /\ content = NoContent
    /\ verdict = "none" /\ smaller = FALSE /\ block = NoBlock

WithMediaType(type) ==
    /\ stage = "new" /\ media_type = FromExtension(source.name)
    /\ media_type' = type
    /\ UNCHANGED <<features, disk, source, limits, stage, read, size_told, content, verdict, smaller, block>>

\* Somebody writes the file while it is loaded.
Rewritten ==
    /\ source.is = "local" /\ stage # "new"
    /\ disk' \in Holdings
    /\ UNCHANGED <<features, source, media_type, limits, stage, read, size_told, content, verdict, smaller, block>>

-----------------------------------------------------------------------------
(* Loading.                                                                 *)

DetectMediaType_ByName(bytes) ==
    IF FromExtension(Hint) # Unset THEN FromExtension(Hint)
    ELSE IF bytes.magic # "none" THEN bytes.magic
    ELSE IF bytes.utf8 THEN "text" ELSE "binary"

\* Magic bytes, the name, UTF-8.
DetectMediaType(bytes) ==
    IF bytes.magic # "none" THEN bytes.magic
    ELSE IF FromExtension(Hint) # Unset THEN FromExtension(Hint)
    ELSE IF bytes.utf8 THEN "text" ELSE "binary"

\* Text is read with replacement characters; only real images have a width.
ParseContent(bytes) ==
    [type |-> DetectMediaType(bytes),
     bytes |-> IF DetectMediaType(bytes) = "text" THEN [bytes EXCEPT !.utf8 = TRUE] ELSE bytes,
     width |-> IF {DetectMediaType(bytes), bytes.magic} \subseteq Image /\ "image-meta" \in features THEN bytes.width ELSE 0]
Mismatch(bytes) == media_type \notin {Unset, DetectMediaType(bytes)}

Refuse ==
    /\ stage' = "refused"
    /\ UNCHANGED <<features, disk, source, media_type, limits, read, size_told, content, verdict, smaller, block>>

\* resolve_local_path: canonicalised, then held against the base directory.
Resolve ==
    /\ stage = "new" /\ source.is = "local"
    /\ IF source.leads # "inside" THEN Refuse
       ELSE /\ stage' = "resolved"
            /\ UNCHANGED <<features, disk, source, media_type, limits, read, size_told, content, verdict, smaller, block>>

Parsed(bytes) == read' = bytes /\ content' = ParseContent(bytes)

ReadLocal ==
    /\ stage = "resolved" /\ content = NoContent
    /\ IF Mismatch(disk) THEN Refuse
       ELSE /\ Parsed(disk)
            /\ UNCHANGED <<features, disk, source, media_type, limits, stage, size_told, verdict, smaller, block>>

\* The metadata is asked for behind the content.
StatLocal ==
    /\ stage = "resolved" /\ content # NoContent
    /\ stage' = "loaded" /\ size_told' = disk.mib
    /\ UNCHANGED <<features, disk, source, media_type, limits, read, content, verdict, smaller, block>>

LoadBytes ==
    /\ stage = "new" /\ source.is = "bytes"
    /\ IF Mismatch(source.data) THEN Refuse
       ELSE /\ Parsed(source.data) /\ stage' = "loaded" /\ size_told' = source.data.mib
            /\ UNCHANGED <<features, disk, source, media_type, limits, verdict, smaller, block>>

MaxDownload == 100

LoadUrl ==
    /\ stage = "new" /\ source.is = "url"
    /\ IF "url-source" \notin features \/ disk.mib > MaxDownload \/ Mismatch(disk) THEN Refuse
       ELSE /\ Parsed(disk) /\ stage' = "loaded" /\ size_told' = disk.mib
            /\ UNCHANGED <<features, disk, source, media_type, limits, verdict, smaller, block>>

-----------------------------------------------------------------------------
(* Limits, which only a caller checks.                                      *)

\* collect_violations: what is not known passes.
Violations ==
    {v \in {"size", "type", "width"} :
        \/ v = "size" /\ limits.mib # 0 /\ content.bytes.mib > limits.mib
        \/ v = "type" /\ limits.types # {} /\ content.type \notin limits.types
        \/ v = "width" /\ limits.width # 0 /\ content.type \in Image /\ content.width > limits.width}

Check ==
    /\ stage = "loaded" /\ verdict = "none" /\ block = NoBlock
    /\ verdict' = IF Violations = {} \/ limits.mode = "warn" THEN "ok" ELSE "violated"
    /\ UNCHANGED <<features, disk, source, media_type, limits, stage, read, size_told, content, smaller, block>>

\* downgrade_image: what decodes and is too wide is written anew, as PNG where it is neither
\* JPEG nor WebP; its format stays what it was.
Downgrade ==
    /\ stage = "loaded" /\ content.type \in Image /\ block = NoBlock
    /\ "image-meta" \in features /\ content.bytes.magic \in Image /\ content.bytes.width > TargetWidth
    /\ LET written == IF content.type \in {"jpeg", "webp"} THEN content.type ELSE "png"
       IN content' = [content EXCEPT !.bytes = [magic |-> written, utf8 |-> FALSE, mib |-> 1, width |-> TargetWidth],
                                     !.width = TargetWidth]
    /\ smaller' = TRUE /\ verdict' = "none"
    /\ UNCHANGED <<features, disk, source, media_type, limits, stage, read, size_told, block>>

-----------------------------------------------------------------------------
(* Providers.                                                               *)

ClassOf(type) == IF type \in Image THEN "image" ELSE IF type \in Audio THEN "audio"
                 ELSE IF type \in Video THEN "video" ELSE type

\* What a provider formats, what it takes a reference for, and for each class of types the limit
\* in MiB (no entry is u64::MAX) and the whitelist its constraints name.
Pictures == {"png", "jpeg", "webp", "gif"}
Anthropic ==
    [takes |-> Image \cup {"text", "pdf"}, refers |-> Image, most |-> [image |-> 5, pdf |-> 32],
     list |-> Pictures \cup {"pdf", "text"}]
Gemini ==
    [takes |-> Image \cup Audio \cup Video \cup {"text", "pdf", "binary"}, refers |-> {},
     most |-> [image |-> 20, audio |-> 20, video |-> 20, pdf |-> 20],
     list |-> Pictures \cup {"mp3", "wav", "ogg", "mp4", "webm", "pdf", "text"}]
AzureOpenAi ==
    [takes |-> Image \cup Audio \cup {"text"}, refers |-> Image \cup Audio \cup Video \cup {"text", "pdf", "binary", Unset},
     most |-> [image |-> 20, audio |-> 20], list |-> Pictures \cup {"wav", "mp3", "text"}]
OpenAi ==
    [takes |-> Image \cup {"text"}, refers |-> Image \cup Audio \cup Video \cup {"text", "pdf", "binary", Unset},
     most |-> [image |-> 20], list |-> Pictures \cup {"text"}]

Formats == [anthropic |-> Anthropic, gemini |-> Gemini, azure |-> AzureOpenAi, openai |-> OpenAi]
Providers == DOMAIN Formats
Takes(provider, type) == type \in Formats[provider].takes

\* Azure's audio formats are two, and any other is called the first.
Label(provider, type) == IF provider = "azure" /\ type \in Audio \ {"mp3"} THEN "wav" ELSE MimeType(type)

FormatContent(provider) == [form |-> "inline", mime |-> Label(provider, content.type), carries |-> content.bytes]

FormatLoaded(provider) ==
    /\ stage = "loaded" /\ block = NoBlock /\ Takes(provider, content.type)
    /\ block' = FormatContent(provider)
    /\ UNCHANGED <<features, disk, source, media_type, limits, stage, read, size_told, content, verdict, smaller>>

\* format_reference: without loading.  OpenAI and Azure take any URL for an image's.
FormatReference(provider) ==
    /\ stage = "new" /\ source.is = "url" /\ block = NoBlock
    /\ media_type \in Formats[provider].refers
    /\ block' = [form |-> "reference", mime |-> "image", carries |-> NoBytes]
    /\ UNCHANGED <<features, disk, source, media_type, limits, stage, read, size_told, content, verdict, smaller>>

\* constraints(): 0 is u64::MAX.
MaxSize(provider, type) ==
    LET most == Formats[provider].most IN IF ClassOf(type) \in DOMAIN most THEN most[ClassOf(type)] ELSE 0

\* select_method, which goes by the type of the handle and not by what was detected.
SelectMethod(provider) ==
    LET type == IF media_type = Unset THEN "binary" ELSE media_type
        most == MaxSize(provider, type)
    IN IF source.is = "url" /\ media_type \in Formats[provider].refers THEN "reference"
       ELSE IF most = 0 \/ content.bytes.mib <= most THEN "inline" ELSE "upload"

FileNext ==
    \/ \E type \in {"png", "text", "binary"} : WithMediaType(type)
    \/ Rewritten \/ Resolve \/ ReadLocal \/ StatLocal \/ LoadBytes \/ LoadUrl \/ Check \/ Downgrade
    \/ \E provider \in Providers : FormatLoaded(provider) \/ FormatReference(provider)

FileSpec == FileInit /\ [][FileNext]_fileVars

-----------------------------------------------------------------------------
(* Properties.                                                              *)

Told == content.bytes.magic  \* what the bytes say of themselves
Relabelled == \/ smaller /\ content.type \notin {"jpeg", "webp", "png"}
              \/ block.mime = "wav"

\* Whatever a file is called, said to be, or becomes while it is loaded: the block that carries
\* its bytes calls them what they are, and they are what was read, or that made smaller.
BlockIsTrue ==
    block.form = "inline" =>
        /\ block.carries.magic # "none" /\ ~Relabelled => block.mime = block.carries.magic
        /\ smaller \/ block.carries \in {read, [read EXCEPT !.utf8 = TRUE]}
        /\ source.leads = "inside" /\ media_type \in {Unset, content.type}

\* What passed the limits and was not only warned of is within those it can be held against, and
\* an image made smaller is within the target.
LimitsHold ==
    /\ verdict = "ok" /\ limits.mode # "warn" =>
           /\ limits.mib = 0 \/ content.bytes.mib <= limits.mib
           /\ limits.types = {} \/ content.type \in limits.types
           /\ limits.width = 0 \/ content.width <= limits.width
    /\ smaller => content.width <= TargetWidth

FilesKept == BlockIsTrue /\ LimitsHold

(* What documents say, or a reader may expect, and the code does not keep.  *)

\* file.rs:86: a name given with bytes tells their type; of audio it makes them unloadable.
HintedBytesLoad == source.is = "bytes" /\ source.name \in Audio /\ media_type = source.name => stage # "refused"
\* An image that is written anew is what its format says.
DowngradeKeepsType == smaller => content.bytes.magic = content.type
\* provider.rs:94: a reference is given where the provider supports it.
ReferenceIsImage == block.form = "reference" => media_type \in Image \cup {Unset}
\* The metadata is that of the content.
SizeIsTold == stage = "loaded" /\ ~smaller => size_told = content.bytes.mib
\* What is formatted is on the provider's whitelist, and within its limit where it is inlined.
WhitelistKept == \A p \in Providers : stage = "loaded" /\ Takes(p, content.type) => content.type \in Formats[p].list
InlineIsSmall == \A p \in Providers : stage = "loaded" /\ MaxSize(p, content.type) # 0 /\ SelectMethod(p) = "inline" =>
                     content.bytes.mib <= MaxSize(p, content.type)
\* file.rs:25: the constraints of a handle hold for what is formatted.
ConstraintsApply == block.form = "inline" /\ limits.mode = "strict" => Violations = {}
===============================================================================
