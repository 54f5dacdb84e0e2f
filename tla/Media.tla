-------------------------------- MODULE Media --------------------------------
(***************************************************************************)
(* What happens to a photo, an album or a voice message before the         *)
(* pipeline: handle_message, the vision handler and speech to text.        *)
(***************************************************************************)
EXTENDS IntentEngine

\* How often a download through the Worker is repeated.
RETRIES == 2

\* The text of the request is a set of parts: what the user typed or said,
\* what a model saw in the photo, or a text that was meant for the user.
Parts == {"typed", "transcript", "caption", "description", "error", "notice"}

\* The OrchestratorRequest is built and given to run().
StartPipeline(parts) ==
  /\ text' = parts
  /\ Goto("gate1")

\* What the vision handler answers when it cannot see: the fast path hands
\* it to run() as the answer; an album passes it on like a description.
Unseen ==
  /\ text' = {"error"}
  /\ Goto(IF update.kind = "album" THEN "seen" ELSE "fastpath")

\* The voice path raised: handle_message logs it and goes on.
Raised == Goto("unheard")

\* extract_text of a message that is neither a photo nor a voice message.
TextMessage ==
  /\ pc = "text"
  /\ StartPipeline({"typed"})
  /\ NoCall
  /\ UNCHANGED <<given, intent, profile, prompt, answer, result, back>>
-----------------------------------------------------------------------------
(* Files.  The Worker stored it: Attachment.bytes() and signed_url() answer *)
(* or raise.  The Worker could not: it is asked again, now as a proxy.      *)

\* handle_vision_attachment: the file, or a URL of it.
handle_vision_attachment ==
  /\ pc = "photo" /\ update.attached
  /\ \/ Works /\ Goto("look") /\ UNCHANGED result
     \/ Fails /\ ReturnDenied("vision_error", "notice")
  /\ UNCHANGED <<given, made, late, work, answer, back>>

AttachmentBytes ==
  /\ pc = "voice" /\ update.attached
  /\ (Works /\ Goto("listen")) \/ (Fails /\ Raised)
  /\ UNCHANGED <<given, made, late, work, answer, result, back>>

AttachmentUrl ==
  /\ pc = "sign"
  /\ (Works /\ Goto("transcribe")) \/ (Fails /\ Raised)
  /\ UNCHANGED <<given, made, late, work, answer, result, back>>

\* The two ends of a download that does not succeed: any failure has a photo
\* asked for again, in the end there is none; a voice message is asked for
\* again only if the network or an overloaded server failed.
_download_image_via_worker ==
  \/ /\ tries < RETRIES
     /\ tries' = tries + 1
     /\ Goto("photo")
     /\ Works /\ UNCHANGED text
  \/ /\ tries = RETRIES
     /\ tries' = 0
     /\ Fails /\ Unseen

download_telegram_voice ==
  \/ /\ tries < RETRIES
     /\ tries' = tries + 1
     /\ Goto("voice")
     /\ Works /\ UNCHANGED text
  \/ /\ tries' = 0
     /\ Fails /\ Raised /\ UNCHANGED text

NotDownloaded ==
  IF update.kind = "voice" THEN download_telegram_voice ELSE _download_image_via_worker

\* Every attempt asks for the path of the file, then for the file.
_get_file_url ==
  /\ pc \in {"voice", "photo"} /\ ~update.attached
  /\ \/ Works /\ Goto("file") /\ UNCHANGED <<tries, text>>
     \/ NotDownloaded
  /\ UNCHANGED <<update, made, late, intent, profile, prompt, answer, result, back>>

_download_image ==
  /\ pc = "file"
  /\ \/ /\ Works
        /\ tries' = 0
        /\ Goto(IF update.kind = "voice" THEN "listen" ELSE "look")
        /\ UNCHANGED text
     \/ NotDownloaded
  /\ UNCHANGED <<update, made, late, intent, profile, prompt, answer, result, back>>
-----------------------------------------------------------------------------
(* Vision. *)

\* The model describes the photo, or the call fails or its description is
\* empty.
_handle_vision_core ==
  /\ pc = "look"
  /\ \/ Unanswered /\ Unseen
     \/ Answered("vision") /\ Unseen
     \/ /\ Answered("vision")
        /\ text' = {"description"}
        /\ Goto(IF update.caption THEN "classifycaption" ELSE "seen")
  /\ UNCHANGED <<given, intent, profile, prompt, answer, result, back>>

\* The caption is classified.  Only CONVERSATION would be answered with the
\* description itself, and the classifier never says it; what it says is
\* overridden by the orchestrator's guard for photos.
ClassifyCaption ==
  /\ pc = "classifycaption"
  /\ Goto("seen")
  /\ NoCall
  /\ UNCHANGED <<given, work, answer, result, back>>

\* The message of a photo is its caption or else the description; that of an
\* album has both.
Seen ==
  /\ pc = "seen"
  /\ StartPipeline(IF ~update.caption THEN text
                   ELSE IF update.kind = "photo" THEN {"caption"}
                   ELSE text \cup {"caption"})
  /\ NoCall
  /\ UNCHANGED <<given, intent, profile, prompt, answer, result, back>>
-----------------------------------------------------------------------------
(* Albums: _on_group_ready and handle_vision_group. *)

MAX_GROUP_IMAGES == 6
MAX_IMAGES_PER_BATCH == 4

\* An album of one photo goes the way of a photo; one that is too large is
\* described by a notice, which _on_group_ready takes for a description.
handle_vision_group ==
  /\ pc = "album"
  /\ \/ /\ update.photos = 1
        /\ Goto("photo")
        /\ UNCHANGED text
     \/ /\ update.photos \in 2 .. MAX_GROUP_IMAGES
        /\ Goto("group")
        /\ UNCHANGED text
     \/ /\ update.photos > MAX_GROUP_IMAGES
        /\ Goto("seen")
        /\ text' = {"notice"}
  /\ NoCall
  /\ UNCHANGED <<given, intent, profile, prompt, answer, result, back>>

\* Every photo is read from the Storage or, failing that, from Telegram; if
\* none is there the user is told so.
LoadGroup ==
  /\ pc = "group"
  /\ \/ Works /\ Goto("batches") /\ UNCHANGED sent
     \/ Fails /\ Goto("done") /\ sent' = sent \cup {"notice"}
  /\ UNCHANGED <<given, made, late, work, answer, result, billed, history>>

\* A batch is described or not; refused with a 400 it is cut in two, and the
\* halves are described as far as they can be.
_call_groq_vision(photos) ==
  \/ Answered("vision")
  \/ Unanswered
  \/ photos > 1 /\ AnsweredLate("vision")

\* The batches are described at the same time.  Whatever comes out, the
\* function ends without a return statement: reading "failed" of its None
\* raises out of _on_group_ready, and the aggregator logs it.
DescribeGroup ==
  /\ pc = "batches"
  /\ \E photos \in 1 .. update.photos :
       photos <= MAX_IMAGES_PER_BATCH /\ _call_groq_vision(photos)
  /\ Goto("lost")
  /\ UNCHANGED <<given, work, answer, result, back>>
-----------------------------------------------------------------------------
(* Speech. *)

\* The ffmpeg that listens decides before anything is charged; without it
\* nothing is silent.  A stored file is sent on as a URL.
is_silent ==
  /\ pc = "listen"
  /\ \/ ReturnDenied("vad_silence", "notice")
     \/ Goto(IF update.attached THEN "sign" ELSE "transcribe") /\ UNCHANGED result
  /\ NoCall
  /\ UNCHANGED <<given, work, answer, back>>

\* A failed call and an empty transcript deny the request.
transcribe ==
  /\ pc = "transcribe"
  /\ \/ /\ Unanswered \/ Answered("asr")
        /\ ReturnDenied("asr_failed", "notice")
        /\ UNCHANGED text
     \/ /\ Answered("asr")
        /\ StartPipeline({"transcript"})
        /\ UNCHANGED result
  /\ UNCHANGED <<given, intent, profile, prompt, answer, back>>

\* When the voice path raised, the message has neither transcript nor text.
Unheard ==
  /\ pc = "unheard"
  /\ ReturnDenied("empty_message", "nothing")
  /\ NoCall
  /\ UNCHANGED <<given, work, answer, back>>

MediaNext ==
  \/ TextMessage
  \/ handle_vision_attachment \/ AttachmentBytes \/ AttachmentUrl
  \/ _get_file_url \/ _download_image
  \/ _handle_vision_core \/ ClassifyCaption \/ Seen
  \/ handle_vision_group \/ LoadGroup \/ DescribeGroup
  \/ is_silent \/ transcribe \/ Unheard
=============================================================================
