--------------------------- MODULE Install_proofs ---------------------------
(***************************************************************************)
(* The safety properties of Install for every set of artifacts, versions   *)
(* and sw-descriptions.  The invariant has three parts: ControlInv says    *)
(* what is set up at which point of the code, MarkerInv that the code      *)
(* writes under "in_progress" only, CompleteInv which artifacts are in     *)
(* place.  Each part is preserved by every action (TypeStep, ControlStep,  *)
(* MarkerStep, CompleteStep); the theorems follow at the end.              *)
(***************************************************************************)
EXTENDS Install, TLAPS

USE VersionAssumption, NoImageAssumption, OutcomeAssumption, SwuAssumption

(* Every action of the installer keeps its variables in their types. *)
LEMMA TypeStep ==
  TypeOK /\ ControlInv /\ [Next]_vars => TypeOK'
<1> SUFFICES ASSUME TypeOK, ControlInv, [Next]_vars
           PROVE  TypeOK'
  OBVIOUS
<1> USE DEF TypeOK, PC, StreamPC, InstallPC, Torn, stream, volatile,
           persistent
<1>1. ASSUME NEW s \in Swu, Start(s) PROVE TypeOK'
  BY <1>1 DEF Start
<1>2. ASSUME NEW ok \in BOOLEAN, save_stream(ok) PROVE TypeOK'
  BY <1>2 DEF save_stream
<1>3. ASSUME NEW ok \in BOOLEAN, wait_description(ok) PROVE TypeOK'
  BY <1>3 DEF wait_description
<1>4. ASSUME NEW ok \in BOOLEAN, parse(ok) PROVE TypeOK'
  <2>1. Dropped \in SUBSET Image
    BY DEF Dropped, SwuRecord, NoSwu
  <2>2. sw' \in SwuRecord
    BY <1>4, <2>1, Zenon DEF parse, SwuRecord, ControlInv
  <2> QED BY <1>4, <2>1, <2>2 DEF parse
<1>5. ASSUME NEW ok \in BOOLEAN, skip_file(ok) PROVE TypeOK'
  BY <1>5 DEF skip_file
<1>6. ASSUME NEW i \in Image, copy_file(i) PROVE TypeOK'
  BY <1>6 DEF copy_file
<1>7. ASSUME NEW i \in Image, size_mismatch(i) PROVE TypeOK'
  BY <1>7 DEF size_mismatch
<1>8. ASSUME NEW i \in Image, install_from_stream(i) PROVE TypeOK'
  BY <1>8 DEF install_from_stream
<1>9. CASE copy_script
  BY <1>9 DEF copy_script
<1>10. CASE stream_mark
  BY <1>10 DEF stream_mark, WriteMarker
<1>11. CASE stream_mark2
  BY <1>11 DEF stream_mark2, WriteState
<1>12. ASSUME NEW i \in Image, stream_part(i) PROVE TypeOK'
  BY <1>12 DEF stream_part, HandlerStarts
<1>13. CASE stream_image
  BY <1>13, Zenon DEF stream_image, HandlerStarts
<1>14. ASSUME NEW ok \in BOOLEAN, stream_part_end(ok) PROVE TypeOK'
  BY <1>14 DEF stream_part_end, HandlerReturns, ControlInv, HandlerPC,
     SwuRecord
<1>15. ASSUME NEW ok \in BOOLEAN, stream_image_end(ok) PROVE TypeOK'
  BY <1>15 DEF stream_image_end, HandlerReturns, VersionRecorded, ControlInv,
     HandlerPC, SwuRecord
<1>16. CASE stream_end
  BY <1>16 DEF stream_end
<1>17. CASE mark
  BY <1>17 DEF mark, WriteMarker
<1>18. CASE mark2
  BY <1>18 DEF mark2, WriteState
<1>19. ASSUME NEW ok \in BOOLEAN, extract_scripts(ok) PROVE TypeOK'
  BY <1>19 DEF extract_scripts
<1>20. ASSUME NEW ok \in BOOLEAN, preinstall(ok) PROVE TypeOK'
  BY <1>20 DEF preinstall
<1>21. ASSUME NEW i \in Image, file_missing(i) PROVE TypeOK'
  BY <1>21 DEF file_missing
<1>22. ASSUME NEW i \in Image, install_image(i) PROVE TypeOK'
  BY <1>22 DEF install_image, HandlerStarts
<1>23. ASSUME NEW ok \in BOOLEAN, install_image_end(ok) PROVE TypeOK'
  BY <1>23 DEF install_image_end, HandlerReturns, VersionRecorded, ControlInv,
     HandlerPC, SwuRecord
<1>24. CASE images_done
  BY <1>24 DEF images_done
<1>25. ASSUME NEW ok \in BOOLEAN, postinstall(ok) PROVE TypeOK'
  BY <1>25 DEF postinstall
<1>26. ASSUME NEW ok \in BOOLEAN, update_bootloader_env(ok) PROVE TypeOK'
  BY <1>26 DEF update_bootloader_env, ControlInv, HandlerPC, SwuRecord
<1>27. ASSUME NEW ok \in BOOLEAN, generate_swversions(ok) PROVE TypeOK'
  BY <1>27 DEF generate_swversions
<1>28. CASE commit
  BY <1>28 DEF commit, WriteMarker
<1>29. ASSUME NEW ok \in BOOLEAN, commit2(ok) PROVE TypeOK'
  BY <1>29 DEF commit2, WriteState
<1>30. CASE fail_mark
  BY <1>30 DEF fail_mark, WriteMarker
<1>31. CASE fail_mark2
  BY <1>31 DEF fail_mark2, WriteState
<1>32. CASE postfailure
  BY <1>32 DEF postfailure
<1>33. CASE refused
  BY <1>33 DEF refused
<1>34. CASE cleanup_files
  BY <1>34, Zenon DEF cleanup_files, VolatileReset, NoSwu
<1>35. CASE PowerCut
  BY <1>35, Zenon DEF PowerCut, VolatileReset, NoSwu
<1>36. CASE Boot
  BY <1>36 DEF Boot
<1>37. CASE UNCHANGED vars
  BY <1>37 DEF vars
<1> QED BY <1>1, <1>2, <1>3, <1>4, <1>5, <1>6, <1>7, <1>8, <1>9, <1>10, <1>11,
           <1>12, <1>13, <1>14, <1>15, <1>16, <1>17, <1>18, <1>19, <1>20,
           <1>21, <1>22, <1>23, <1>24, <1>25, <1>26, <1>27, <1>28, <1>29,
           <1>30, <1>31, <1>32, <1>33, <1>34, <1>35, <1>36, <1>37, Zenon DEF Next,
           Extract, Installation

(* What is set up at which point of the installer's code: a handler runs
   exactly at the handler points, the locals are clear before an update. *)
LEMMA ControlStep ==
  TypeOK /\ ControlInv /\ [Next]_vars => ControlInv'
<1> SUFFICES ASSUME TypeOK, ControlInv, [Next]_vars
           PROVE  ControlInv'
  OBVIOUS
<1> USE DEF ControlInv, InstallPC, HandlerPC, Files, Committed, stream,
           volatile, persistent
<1>1. ASSUME NEW s \in Swu, Start(s) PROVE ControlInv'
  BY <1>1 DEF Start, SwuRecord, TypeOK, PC, StreamPC
<1>2. ASSUME NEW ok \in BOOLEAN, save_stream(ok) PROVE ControlInv'
  BY <1>2 DEF save_stream, TypeOK, PC, StreamPC
<1>3. ASSUME NEW ok \in BOOLEAN, wait_description(ok) PROVE ControlInv'
  BY <1>3 DEF wait_description, TypeOK, PC, StreamPC
<1>4. ASSUME NEW ok \in BOOLEAN, parse(ok) PROVE ControlInv'
  <2>1. sw' \in SwuRecord
    BY <1>4, Zenon DEF parse, SwuRecord, TypeOK
  <2>2. sw'.parts \subseteq sw'.images
    BY <1>4 DEF parse, SwuRecord
  <2> QED BY <1>4, <2>1, <2>2 DEF parse, TypeOK
<1>5. ASSUME NEW ok \in BOOLEAN, skip_file(ok) PROVE ControlInv'
  BY <1>5 DEF skip_file, TypeOK, PC, StreamPC
<1>6. ASSUME NEW i \in Image, copy_file(i) PROVE ControlInv'
  BY <1>6 DEF copy_file, TypeOK, PC, StreamPC
<1>7. ASSUME NEW i \in Image, size_mismatch(i) PROVE ControlInv'
  BY <1>7 DEF size_mismatch, TypeOK, PC, StreamPC
<1>8. ASSUME NEW i \in Image, install_from_stream(i) PROVE ControlInv'
  BY <1>8 DEF install_from_stream, TypeOK, PC, StreamPC
<1>9. CASE copy_script
  BY <1>9 DEF copy_script, TypeOK, PC, StreamPC
<1>10. CASE stream_mark
  BY <1>10 DEF stream_mark, WriteMarker, TypeOK, PC, StreamPC
<1>11. CASE stream_mark2
  BY <1>11 DEF stream_mark2, WriteState, TypeOK, PC, StreamPC
<1>12. ASSUME NEW i \in Image, stream_part(i) PROVE ControlInv'
  BY <1>12 DEF stream_part, HandlerStarts, TypeOK, PC, StreamPC
<1>13. CASE stream_image
  BY <1>13 DEF stream_image, HandlerStarts, SwuRecord, TypeOK, PC, StreamPC
<1>14. ASSUME NEW ok \in BOOLEAN, stream_part_end(ok) PROVE ControlInv'
  BY <1>14 DEF stream_part_end, HandlerReturns, SwuRecord, TypeOK, PC,
     StreamPC
<1>15. ASSUME NEW ok \in BOOLEAN, stream_image_end(ok) PROVE ControlInv'
  BY <1>15 DEF stream_image_end, HandlerReturns, VersionRecorded, TypeOK, PC,
     StreamPC
<1>16. CASE stream_end
  BY <1>16 DEF stream_end, TypeOK, PC, StreamPC
<1>17. CASE mark
  BY <1>17 DEF mark, WriteMarker, TypeOK, PC, StreamPC
<1>18. CASE mark2
  BY <1>18 DEF mark2, WriteState, TypeOK, PC, StreamPC
<1>19. ASSUME NEW ok \in BOOLEAN, extract_scripts(ok) PROVE ControlInv'
  BY <1>19 DEF extract_scripts, TypeOK, PC, StreamPC
<1>20. ASSUME NEW ok \in BOOLEAN, preinstall(ok) PROVE ControlInv'
  BY <1>20 DEF preinstall, TypeOK, PC, StreamPC
<1>21. ASSUME NEW i \in Image, file_missing(i) PROVE ControlInv'
  BY <1>21 DEF file_missing, TypeOK, PC, StreamPC
<1>22. ASSUME NEW i \in Image, install_image(i) PROVE ControlInv'
  BY <1>22 DEF install_image, HandlerStarts, TypeOK, PC, StreamPC
<1>23. ASSUME NEW ok \in BOOLEAN, install_image_end(ok) PROVE ControlInv'
  BY <1>23 DEF install_image_end, HandlerReturns, VersionRecorded, TypeOK, PC,
     StreamPC
<1>24. CASE images_done
  BY <1>24 DEF images_done, TypeOK, PC, StreamPC
<1>25. ASSUME NEW ok \in BOOLEAN, postinstall(ok) PROVE ControlInv'
  BY <1>25 DEF postinstall, TypeOK, PC, StreamPC
<1>26. ASSUME NEW ok \in BOOLEAN, update_bootloader_env(ok) PROVE ControlInv'
  BY <1>26 DEF update_bootloader_env, TypeOK, PC, StreamPC
<1>27. ASSUME NEW ok \in BOOLEAN, generate_swversions(ok) PROVE ControlInv'
  BY <1>27 DEF generate_swversions, TypeOK, PC, StreamPC
<1>28. CASE commit
  BY <1>28 DEF commit, WriteMarker, TypeOK, PC, StreamPC
<1>29. ASSUME NEW ok \in BOOLEAN, commit2(ok) PROVE ControlInv'
  BY <1>29 DEF commit2, WriteState, TypeOK, PC, StreamPC
<1>30. CASE fail_mark
  BY <1>30 DEF fail_mark, WriteMarker, TypeOK, PC, StreamPC
<1>31. CASE fail_mark2
  BY <1>31 DEF fail_mark2, WriteState, TypeOK, PC, StreamPC
<1>32. CASE postfailure
  BY <1>32 DEF postfailure, TypeOK, PC, StreamPC
<1>33. CASE refused
  BY <1>33 DEF refused, TypeOK, PC, StreamPC
<1>34. CASE cleanup_files
  BY <1>34 DEF cleanup_files, VolatileReset, NoSwu, TypeOK, PC, StreamPC
<1>35. CASE PowerCut
  BY <1>35 DEF PowerCut, VolatileReset, NoSwu, TypeOK, PC, StreamPC
<1>36. CASE Boot
  BY <1>36 DEF Boot, TypeOK, PC, StreamPC
<1>37. CASE UNCHANGED vars
  BY <1>37 DEF vars, TypeOK, PC, StreamPC
<1> QED BY <1>1, <1>2, <1>3, <1>4, <1>5, <1>6, <1>7, <1>8, <1>9, <1>10, <1>11,
           <1>12, <1>13, <1>14, <1>15, <1>16, <1>17, <1>18, <1>19, <1>20,
           <1>21, <1>22, <1>23, <1>24, <1>25, <1>26, <1>27, <1>28, <1>29,
           <1>30, <1>31, <1>32, <1>33, <1>34, <1>35, <1>36, <1>37, Zenon DEF Next,
           Extract, Installation

(* If the environment can be written, the update is marked "in_progress" from
   before its first write to flash up to its end. *)
LEMMA MarkerStep ==
  (EnvOutcome = {TRUE}) /\ TypeOK /\ ControlInv /\ MarkerInv /\ [Next]_vars => MarkerInv'
<1> SUFFICES ASSUME (EnvOutcome = {TRUE}), TypeOK, ControlInv, MarkerInv, [Next]_vars
           PROVE  MarkerInv'
  OBVIOUS
<1> USE DEF MarkerInv, MarkedWhileDirty, WritingPC, stream, volatile,
           persistent
<1>1. ASSUME NEW s \in Swu, Start(s) PROVE MarkerInv'
  BY <1>1 DEF Start, TypeOK, ControlInv, HandlerPC
<1>2. ASSUME NEW ok \in BOOLEAN, save_stream(ok) PROVE MarkerInv'
  BY <1>2 DEF save_stream, TypeOK, ControlInv, HandlerPC
<1>3. ASSUME NEW ok \in BOOLEAN, wait_description(ok) PROVE MarkerInv'
  BY <1>3 DEF wait_description, TypeOK, ControlInv, HandlerPC
<1>4. ASSUME NEW ok \in BOOLEAN, parse(ok) PROVE MarkerInv'
  BY <1>4 DEF parse, TypeOK, ControlInv, HandlerPC
<1>5. ASSUME NEW ok \in BOOLEAN, skip_file(ok) PROVE MarkerInv'
  BY <1>5 DEF skip_file, TypeOK, ControlInv, HandlerPC
<1>6. ASSUME NEW i \in Image, copy_file(i) PROVE MarkerInv'
  BY <1>6 DEF copy_file, TypeOK, ControlInv, HandlerPC
<1>7. ASSUME NEW i \in Image, size_mismatch(i) PROVE MarkerInv'
  BY <1>7 DEF size_mismatch, TypeOK, ControlInv, HandlerPC
<1>8. ASSUME NEW i \in Image, install_from_stream(i) PROVE MarkerInv'
  BY <1>8 DEF install_from_stream, TypeOK, ControlInv, HandlerPC
<1>9. CASE copy_script
  BY <1>9 DEF copy_script, TypeOK, ControlInv, HandlerPC
<1>10. CASE stream_mark
  BY <1>10 DEF stream_mark, WriteMarker, TypeOK, ControlInv, HandlerPC
<1>11. CASE stream_mark2
  BY <1>11 DEF stream_mark2, WriteState, TypeOK, ControlInv, HandlerPC
<1>12. ASSUME NEW i \in Image, stream_part(i) PROVE MarkerInv'
  BY <1>12 DEF stream_part, HandlerStarts, TypeOK, ControlInv, HandlerPC
<1>13. CASE stream_image
  BY <1>13 DEF stream_image, HandlerStarts, TypeOK, ControlInv, HandlerPC
<1>14. ASSUME NEW ok \in BOOLEAN, stream_part_end(ok) PROVE MarkerInv'
  BY <1>14 DEF stream_part_end, HandlerReturns, TypeOK, ControlInv, HandlerPC
<1>15. ASSUME NEW ok \in BOOLEAN, stream_image_end(ok) PROVE MarkerInv'
  BY <1>15 DEF stream_image_end, HandlerReturns, VersionRecorded, TypeOK,
     ControlInv, HandlerPC
<1>16. CASE stream_end
  BY <1>16 DEF stream_end, TypeOK, ControlInv, HandlerPC
<1>17. CASE mark
  BY <1>17 DEF mark, WriteMarker, TypeOK, ControlInv, HandlerPC
<1>18. CASE mark2
  BY <1>18 DEF mark2, WriteState, TypeOK, ControlInv, HandlerPC
<1>19. ASSUME NEW ok \in BOOLEAN, extract_scripts(ok) PROVE MarkerInv'
  BY <1>19 DEF extract_scripts, TypeOK, ControlInv, HandlerPC
<1>20. ASSUME NEW ok \in BOOLEAN, preinstall(ok) PROVE MarkerInv'
  BY <1>20 DEF preinstall, TypeOK, ControlInv, HandlerPC
<1>21. ASSUME NEW i \in Image, file_missing(i) PROVE MarkerInv'
  BY <1>21 DEF file_missing, TypeOK, ControlInv, HandlerPC
<1>22. ASSUME NEW i \in Image, install_image(i) PROVE MarkerInv'
  BY <1>22 DEF install_image, HandlerStarts, TypeOK, ControlInv, HandlerPC
<1>23. ASSUME NEW ok \in BOOLEAN, install_image_end(ok) PROVE MarkerInv'
  BY <1>23 DEF install_image_end, HandlerReturns, VersionRecorded, TypeOK,
     ControlInv, HandlerPC
<1>24. CASE images_done
  BY <1>24 DEF images_done, TypeOK, ControlInv, HandlerPC
<1>25. ASSUME NEW ok \in BOOLEAN, postinstall(ok) PROVE MarkerInv'
  BY <1>25 DEF postinstall, TypeOK, ControlInv, HandlerPC
<1>26. ASSUME NEW ok \in BOOLEAN, update_bootloader_env(ok) PROVE MarkerInv'
  BY <1>26 DEF update_bootloader_env, TypeOK, ControlInv, HandlerPC
<1>27. ASSUME NEW ok \in BOOLEAN, generate_swversions(ok) PROVE MarkerInv'
  BY <1>27 DEF generate_swversions, TypeOK, ControlInv, HandlerPC
<1>28. CASE commit
  BY <1>28, Zenon DEF commit, WriteMarker, TypeOK, ControlInv, HandlerPC
<1>29. ASSUME NEW ok \in BOOLEAN, commit2(ok) PROVE MarkerInv'
  BY <1>29 DEF commit2, WriteState, TypeOK, ControlInv, HandlerPC
<1>30. CASE fail_mark
  BY <1>30 DEF fail_mark, WriteMarker, TypeOK, ControlInv, HandlerPC
<1>31. CASE fail_mark2
  BY <1>31 DEF fail_mark2, WriteState, TypeOK, ControlInv, HandlerPC
<1>32. CASE postfailure
  BY <1>32 DEF postfailure, TypeOK, ControlInv, HandlerPC
<1>33. CASE refused
  BY <1>33 DEF refused, TypeOK, ControlInv, HandlerPC
<1>34. CASE cleanup_files
  BY <1>34 DEF cleanup_files, VolatileReset, NoSwu, TypeOK, ControlInv,
     HandlerPC
<1>35. CASE PowerCut
  BY <1>35 DEF PowerCut, VolatileReset, NoSwu, TypeOK, ControlInv, HandlerPC
<1>36. CASE Boot
  BY <1>36 DEF Boot, TypeOK, ControlInv, HandlerPC
<1>37. CASE UNCHANGED vars
  BY <1>37 DEF vars, TypeOK, ControlInv, HandlerPC
<1> QED BY <1>1, <1>2, <1>3, <1>4, <1>5, <1>6, <1>7, <1>8, <1>9, <1>10, <1>11,
           <1>12, <1>13, <1>14, <1>15, <1>16, <1>17, <1>18, <1>19, <1>20,
           <1>21, <1>22, <1>23, <1>24, <1>25, <1>26, <1>27, <1>28, <1>29,
           <1>30, <1>31, <1>32, <1>33, <1>34, <1>35, <1>36, <1>37, Zenon DEF Next,
           Extract, Installation

(* What handlers have finished stays as they left it, and at the end of
   install_images that is every artifact. *)
LEMMA CompleteStep ==
  TypeOK /\ ControlInv /\ CompleteInv /\ [Next]_vars => CompleteInv'
<1> SUFFICES ASSUME TypeOK, ControlInv, CompleteInv, [Next]_vars
           PROVE  CompleteInv'
  OBVIOUS
<1> USE DEF CompleteInv, Sound, FailPC, Committed, PartitionsFirst, Files,
           InstallPC, stream, volatile, persistent
<1>1. ASSUME NEW s \in Swu, Start(s) PROVE CompleteInv'
  BY <1>1 DEF Start, SwuRecord, TypeOK, ControlInv, HandlerPC, Todo
<1>2. ASSUME NEW ok \in BOOLEAN, save_stream(ok) PROVE CompleteInv'
  BY <1>2 DEF save_stream, TypeOK, ControlInv, HandlerPC, Todo
<1>3. ASSUME NEW ok \in BOOLEAN, wait_description(ok) PROVE CompleteInv'
  BY <1>3 DEF wait_description, TypeOK, ControlInv, HandlerPC, Todo
<1>4. ASSUME NEW ok \in BOOLEAN, parse(ok) PROVE CompleteInv'
  BY <1>4 DEF parse, TypeOK, ControlInv, HandlerPC, Todo
<1>5. ASSUME NEW ok \in BOOLEAN, skip_file(ok) PROVE CompleteInv'
  BY <1>5 DEF skip_file, TypeOK, ControlInv, HandlerPC, Todo
<1>6. ASSUME NEW i \in Image, copy_file(i) PROVE CompleteInv'
  BY <1>6 DEF copy_file, TypeOK, ControlInv, HandlerPC, Todo
<1>7. ASSUME NEW i \in Image, size_mismatch(i) PROVE CompleteInv'
  BY <1>7 DEF size_mismatch, TypeOK, ControlInv, HandlerPC, Todo
<1>8. ASSUME NEW i \in Image, install_from_stream(i) PROVE CompleteInv'
  BY <1>8 DEF install_from_stream, TypeOK, ControlInv, HandlerPC, Todo
<1>9. CASE copy_script
  BY <1>9 DEF copy_script, TypeOK, ControlInv, HandlerPC, Todo
<1>10. CASE stream_mark
  BY <1>10 DEF stream_mark, WriteMarker, TypeOK, ControlInv, HandlerPC, Todo
<1>11. CASE stream_mark2
  BY <1>11 DEF stream_mark2, WriteState, TypeOK, ControlInv, HandlerPC, Todo
<1>12. ASSUME NEW i \in Image, stream_part(i) PROVE CompleteInv'
  BY <1>12 DEF stream_part, HandlerStarts, TypeOK, ControlInv, HandlerPC, Todo
<1>13. CASE stream_image
  BY <1>13 DEF stream_image, HandlerStarts, TypeOK, ControlInv, HandlerPC,
     Todo
<1>14. ASSUME NEW ok \in BOOLEAN, stream_part_end(ok) PROVE CompleteInv'
  BY <1>14 DEF stream_part_end, HandlerReturns, SwuRecord, TypeOK, ControlInv,
     HandlerPC, Todo
<1>15. ASSUME NEW ok \in BOOLEAN, stream_image_end(ok) PROVE CompleteInv'
  BY <1>15 DEF stream_image_end, HandlerReturns, VersionRecorded, TypeOK,
     ControlInv, HandlerPC, Todo
<1>16. CASE stream_end
  BY <1>16 DEF stream_end, TypeOK, ControlInv, HandlerPC, Todo
<1>17. CASE mark
  BY <1>17 DEF mark, WriteMarker, TypeOK, ControlInv, HandlerPC, Todo
<1>18. CASE mark2
  BY <1>18 DEF mark2, WriteState, TypeOK, ControlInv, HandlerPC, Todo
<1>19. ASSUME NEW ok \in BOOLEAN, extract_scripts(ok) PROVE CompleteInv'
  BY <1>19 DEF extract_scripts, TypeOK, ControlInv, HandlerPC, Todo
<1>20. ASSUME NEW ok \in BOOLEAN, preinstall(ok) PROVE CompleteInv'
  BY <1>20 DEF preinstall, TypeOK, ControlInv, HandlerPC, Todo
<1>21. ASSUME NEW i \in Image, file_missing(i) PROVE CompleteInv'
  BY <1>21 DEF file_missing, TypeOK, ControlInv, HandlerPC, Todo
<1>22. ASSUME NEW i \in Image, install_image(i) PROVE CompleteInv'
  BY <1>22 DEF install_image, HandlerStarts, TypeOK, ControlInv, HandlerPC,
     Todo
<1>23. ASSUME NEW ok \in BOOLEAN, install_image_end(ok) PROVE CompleteInv'
  BY <1>23 DEF install_image_end, HandlerReturns, VersionRecorded, TypeOK,
     ControlInv, HandlerPC, Todo
<1>24. CASE images_done
  BY <1>24 DEF images_done, TypeOK, ControlInv, HandlerPC, Todo
<1>25. ASSUME NEW ok \in BOOLEAN, postinstall(ok) PROVE CompleteInv'
  BY <1>25 DEF postinstall, TypeOK, ControlInv, HandlerPC, Todo
<1>26. ASSUME NEW ok \in BOOLEAN, update_bootloader_env(ok) PROVE CompleteInv'
  BY <1>26 DEF update_bootloader_env, TypeOK, ControlInv, HandlerPC, Todo
<1>27. ASSUME NEW ok \in BOOLEAN, generate_swversions(ok) PROVE CompleteInv'
  BY <1>27 DEF generate_swversions, TypeOK, ControlInv, HandlerPC, Todo
<1>28. CASE commit
  BY <1>28 DEF commit, WriteMarker, TypeOK, ControlInv, HandlerPC, Todo
<1>29. ASSUME NEW ok \in BOOLEAN, commit2(ok) PROVE CompleteInv'
  BY <1>29 DEF commit2, WriteState, TypeOK, ControlInv, HandlerPC, Todo
<1>30. CASE fail_mark
  BY <1>30 DEF fail_mark, WriteMarker, TypeOK, ControlInv, HandlerPC, Todo
<1>31. CASE fail_mark2
  BY <1>31 DEF fail_mark2, WriteState, TypeOK, ControlInv, HandlerPC, Todo
<1>32. CASE postfailure
  BY <1>32 DEF postfailure, TypeOK, ControlInv, HandlerPC, Todo
<1>33. CASE refused
  BY <1>33 DEF refused, TypeOK, ControlInv, HandlerPC, Todo
<1>34. CASE cleanup_files
  BY <1>34 DEF cleanup_files, VolatileReset, NoSwu, TypeOK, ControlInv,
     HandlerPC, Todo
<1>35. CASE PowerCut
  BY <1>35 DEF PowerCut, VolatileReset, NoSwu, TypeOK, ControlInv, HandlerPC,
     Todo
<1>36. CASE Boot
  BY <1>36 DEF Boot, TypeOK, ControlInv, HandlerPC, Todo
<1>37. CASE UNCHANGED vars
  BY <1>37 DEF vars, TypeOK, ControlInv, HandlerPC, Todo
<1> QED BY <1>1, <1>2, <1>3, <1>4, <1>5, <1>6, <1>7, <1>8, <1>9, <1>10, <1>11,
           <1>12, <1>13, <1>14, <1>15, <1>16, <1>17, <1>18, <1>19, <1>20,
           <1>21, <1>22, <1>23, <1>24, <1>25, <1>26, <1>27, <1>28, <1>29,
           <1>30, <1>31, <1>32, <1>33, <1>34, <1>35, <1>36, <1>37, Zenon DEF Next,
           Extract, Installation

-----------------------------------------------------------------------------
(* The actions by what they do to flash and to the bootloader environment *)
QuietStep ==
  \/ \E s \in Swu : Start(s)
  \/ \E ok \in BOOLEAN : save_stream(ok) \/ wait_description(ok) \/ parse(ok)
       \/ skip_file(ok) \/ extract_scripts(ok) \/ preinstall(ok) \/
       postinstall(ok) \/ generate_swversions(ok)
  \/ \E i \in Image : copy_file(i) \/ size_mismatch(i) \/
       install_from_stream(i) \/ file_missing(i)
  \/ copy_script \/ stream_end \/ images_done \/ postfailure \/ refused \/
       cleanup_files \/ PowerCut \/ Boot
MarkStep ==
  \/ stream_mark \/ mark
FailStep == fail_mark
StateStep ==
  \/ stream_mark2 \/ mark2 \/ fail_mark2
  \/ \E ok \in BOOLEAN : commit2(ok)
HandlerStep ==
  \/ \E i \in Image : stream_part(i) \/ install_image(i)
  \/ stream_image
ReturnStep ==
  \/ \E ok \in BOOLEAN : stream_part_end(ok) \/ stream_image_end(ok) \/
       install_image_end(ok)
EnvStep == \E ok \in BOOLEAN : update_bootloader_env(ok)
CommitStep == commit

(* Every action of Next is in one of the classes. *)
LEMMA NextSplit ==
  Next => QuietStep \/ MarkStep \/ FailStep \/ StateStep
          \/ HandlerStep \/ ReturnStep \/ EnvStep \/ CommitStep
  BY Zenon DEF Next, Extract, Installation, QuietStep, MarkStep, FailStep,
     StateStep, HandlerStep, ReturnStep, EnvStep, CommitStep

-----------------------------------------------------------------------------
(* The part of the invariant that needs nothing of the bootloader *)
BaseInv == TypeOK /\ ControlInv /\ CompleteInv

(* A system that starts with nothing to install satisfies the invariant. *)
LEMMA InitBase == Init => BaseInv
<1> SUFFICES ASSUME Init PROVE BaseInv
  OBVIOUS
<1>1. sw = NoSwu /\ sw.parts = {} /\ sw.images = {} /\ sw.direct = {}
  BY DEF Init, NoSwu
<1>2. TypeOK
  BY Zenon DEF Init, TypeOK, PC
<1>3. ControlInv
  BY <1>1 DEF Init, ControlInv, HandlerPC, InstallPC, Committed
<1>4. CompleteInv
  BY <1>1 DEF Init, CompleteInv, Files, Committed, InstallPC, PartitionsFirst
<1> QED BY <1>2, <1>3, <1>4 DEF BaseInv

(* The invariant holds whether or not the environment can be written. *)
LEMMA BaseInvariant == Spec => []BaseInv
<1>1. BaseInv /\ [Next]_vars => BaseInv'
  BY TypeStep, ControlStep, CompleteStep DEF BaseInv
<1> QED BY InitBase, <1>1, PTL DEF Spec

(* Where the transaction is committed, nothing is missing. *)
LEMMA CompleteAtCommit ==
  BaseInv /\ ~sw.dry /\ (pc \in {"postinstall", "bootvars", "swversions"} \/ Committed)
    => \A i \in sw.images \ (sw.direct \cap sw.sized) : flash[i] = sw.version
<1> SUFFICES ASSUME BaseInv, ~sw.dry,
                    pc \in {"postinstall", "bootvars", "swversions"} \/ Committed,
                    NEW i \in sw.images \ (sw.direct \cap sw.sized)
             PROVE  flash[i] = sw.version
  OBVIOUS
<1>1. i \in Image /\ hnd \notin Image /\ cur = NoImage
  BY DEF BaseInv, TypeOK, ControlInv, SwuRecord, NoSwu, Committed, InstallPC, HandlerPC
<1>2. Sound /\ Files \subseteq provided /\ sw.images \subseteq sw.direct \cup done
  BY DEF BaseInv, CompleteInv, Sound, FailPC, Committed, InstallPC
<1>3. i \in done
  BY <1>1, <1>2 DEF BaseInv, CompleteInv, Files
<1> QED BY <1>1, <1>2, <1>3 DEF BaseInv, CompleteInv

(* The type invariant of the installer. *)
THEOREM TypeCorrect == Spec => []TypeOK
<1>1. BaseInv => TypeOK
  BY DEF BaseInv
<1> QED BY <1>1, BaseInvariant, PTL

(* When network_initializer commits or reports SUCCESS, every artifact is in
   place and the bootloader variables are active. *)
THEOREM SuccessCorrect == Spec => []SuccessMeansInstalled
<1>1. BaseInv => SuccessMeansInstalled
  BY CompleteAtCommit DEF BaseInv, CompleteInv, SuccessMeansInstalled
<1> QED BY <1>1, BaseInvariant, PTL

(* Partitioners run before images (install_images). *)
THEOREM OrderCorrect == Spec => []PartitionsFirst
<1>1. BaseInv => PartitionsFirst
  BY DEF BaseInv, CompleteInv
<1> QED BY <1>1, BaseInvariant, PTL

(* An artifact that is not streamed is written only after all files of the
   SWU were received and checked (STREAM_END of extract_files). *)
THEOREM VerifiedCorrect == Spec => []WrittenAfterVerified
<1>1. BaseInv => WrittenAfterVerified
  <2> SUFFICES ASSUME BaseInv, hnd \in Files \ sw.direct
               PROVE  Files \ sw.sized \subseteq provided \cap (copied \cup sw.direct)
    BY DEF WrittenAfterVerified
  <2>0. hnd \in Image
    <3>1. sw.images \subseteq Image
      BY DEF BaseInv, TypeOK, SwuRecord, NoSwu
    <3> QED BY <3>1 DEF Files
  <2>1. pc \in HandlerPC
    BY <2>0 DEF BaseInv, ControlInv
  <2>2. pc = "image"
    BY <2>1 DEF HandlerPC, BaseInv, ControlInv, Files
  <2> QED BY <2>2 DEF BaseInv, CompleteInv, InstallPC
<1> QED BY <1>1, BaseInvariant, PTL

(* If the bootloader environment can be written, the marker part holds too. *)
LEMMA MarkerInvariant == EnvOutcome = {TRUE} => (Spec => [](BaseInv /\ MarkerInv))
<1> SUFFICES ASSUME EnvOutcome = {TRUE} PROVE Spec => [](BaseInv /\ MarkerInv)
  OBVIOUS
<1>1. Init => MarkerInv
  BY DEF Init, MarkerInv, MarkedWhileDirty, WritingPC
<1>2. BaseInv /\ MarkerInv /\ [Next]_vars => MarkerInv'
  BY MarkerStep DEF BaseInv
<1> QED BY <1>1, <1>2, BaseInvariant, PTL DEF Spec

(* With a bootloader environment that can be written, flash that a marked
   update wrote and did not commit is visible in recovery_status. *)
THEOREM MarkerCorrect == EnvOutcome = {TRUE} => (Spec => []MarkedWhileDirty)
<1>1. MarkerInv => MarkedWhileDirty
  BY DEF MarkerInv
<1> QED BY <1>1, MarkerInvariant, PTL

(* update_bootloader_env changes the bootloader variables only when all
   artifacts are in place. *)
THEOREM BootenvCorrect == Spec => BootenvAfterImages
<1>1. BaseInv /\ [Next]_vars =>
        [bootenv' # bootenv =>
          \A i \in sw.images \ (sw.direct \cap sw.sized) : flash[i] = sw.version]_vars
  <2> SUFFICES ASSUME BaseInv, [Next]_vars, bootenv' # bootenv
               PROVE  \A i \in sw.images \ (sw.direct \cap sw.sized) : flash[i] = sw.version
    OBVIOUS
  <2>1. QuietStep \/ MarkStep \/ FailStep \/ StateStep \/ HandlerStep \/ ReturnStep
          \/ CommitStep \/ UNCHANGED vars => UNCHANGED bootenv
    BY DEF QuietStep, Start, save_stream, wait_description, parse, skip_file,
       copy_file, size_mismatch, install_from_stream, copy_script, stream_end,
       extract_scripts, preinstall, file_missing, images_done, postinstall,
       generate_swversions, postfailure, refused, cleanup_files, PowerCut, Boot,
       MarkStep, stream_mark, mark, FailStep, fail_mark, StateStep, stream_mark2,
       mark2, commit2, fail_mark2, HandlerStep, stream_part, stream_image,
       install_image, ReturnStep, stream_part_end, stream_image_end,
       install_image_end, CommitStep, commit, vars, persistent
  <2>2. PICK ok \in BOOLEAN : update_bootloader_env(ok)
    BY <2>1, NextSplit DEF EnvStep
  <2> QED BY <2>2, CompleteAtCommit DEF update_bootloader_env, BaseInv, ControlInv
<1> QED BY <1>1, BaseInvariant, PTL DEF Spec, BootenvAfterImages
(* In a dry run no step changes flash or the bootloader environment. *)
LEMMA DryStep == BaseInv /\ [Next]_vars /\ sw.dry => UNCHANGED persistent
<1> SUFFICES ASSUME BaseInv, [Next]_vars, sw.dry PROVE UNCHANGED persistent
  OBVIOUS
<1>1. CASE QuietStep
  BY <1>1 DEF QuietStep, Start, save_stream, wait_description, parse,
     skip_file, copy_file, size_mismatch, install_from_stream, copy_script,
     stream_end, extract_scripts, preinstall, file_missing, images_done,
     postinstall, generate_swversions, postfailure, refused, cleanup_files,
     PowerCut, Boot, VolatileReset, NoSwu, persistent
<1>2. CASE MarkStep
  BY <1>2 DEF MarkStep, stream_mark, mark, WriteMarker, persistent
<1>3. CASE FailStep
  BY <1>3 DEF FailStep, fail_mark, WriteMarker, persistent
<1>4. CASE StateStep
  BY <1>4 DEF StateStep, stream_mark2, mark2, commit2, fail_mark2, WriteState,
     persistent
<1>5. CASE HandlerStep
  BY <1>5 DEF HandlerStep, stream_part, stream_image, install_image,
     HandlerStarts, BaseInv, TypeOK, persistent
<1>6. CASE ReturnStep
  BY <1>6 DEF ReturnStep, stream_part_end, stream_image_end,
     install_image_end, HandlerReturns, VersionRecorded, persistent
<1>7. CASE EnvStep
  BY <1>7 DEF EnvStep, update_bootloader_env, BaseInv, ControlInv, persistent
<1>8. CASE CommitStep
  BY <1>8 DEF CommitStep, commit, WriteMarker, BaseInv, TypeOK, persistent
<1>9. CASE UNCHANGED vars
  BY <1>9 DEF vars, persistent
<1> QED BY <1>1, <1>2, <1>3, <1>4, <1>5, <1>6, <1>7, <1>8, <1>9, NextSplit

(* A dry run leaves flash and the bootloader environment alone. *)
THEOREM DryRunCorrect == Spec => DryRunTouchesNothing
<1>1. BaseInv /\ [Next]_vars => [sw.dry => UNCHANGED persistent]_vars
  BY DryStep
<1> QED BY <1>1, BaseInvariant, PTL DEF Spec, DryRunTouchesNothing

(* A step of the installer is a step of the transaction, or none. *)
LEMMA TransactionStep ==
  EnvOutcome = {TRUE} /\ BaseInv /\ MarkerInv /\ [Next]_vars => [Tx!TNext]_(Tx!tvars)
<1> SUFFICES ASSUME EnvOutcome = {TRUE}, BaseInv, MarkerInv, [Next]_vars
             PROVE  [Tx!TNext]_(Tx!tvars)
  OBVIOUS
<1> USE DEF Tx!TNext, Tx!tvars
<1>1. CASE QuietStep
  BY <1>1 DEF QuietStep, Start, save_stream, wait_description, parse,
     skip_file, copy_file, size_mismatch, install_from_stream, copy_script,
     stream_end, extract_scripts, preinstall, file_missing, images_done,
     postinstall, generate_swversions, postfailure, refused, cleanup_files,
     PowerCut, Boot, VolatileReset, NoSwu, persistent
<1>2. CASE MarkStep
  BY <1>2 DEF MarkStep, stream_mark, mark, WriteMarker, Tx!Begin, persistent
<1>3. CASE FailStep
  BY <1>3 DEF FailStep, fail_mark, WriteMarker, Tx!Abort, BaseInv, TypeOK,
     MarkerInv, WritingPC, persistent
<1>4. CASE StateStep
  BY <1>4 DEF StateStep, stream_mark2, mark2, commit2, fail_mark2, WriteState,
     persistent
<1>5. CASE HandlerStep
  BY <1>5, Zenon DEF HandlerStep, stream_part, stream_image, install_image,
     HandlerStarts, Tx!Write, BaseInv, TypeOK, MarkerInv, WritingPC,
     persistent
<1>6. CASE ReturnStep
  BY <1>6 DEF ReturnStep, stream_part_end, stream_image_end,
     install_image_end, HandlerReturns, VersionRecorded, persistent
<1>7. CASE EnvStep
  BY <1>7 DEF EnvStep, update_bootloader_env, persistent
<1>8. CASE CommitStep
  BY <1>8, Zenon DEF CommitStep, commit, WriteMarker, Tx!Commit, BaseInv, TypeOK,
     MarkerInv, WritingPC, persistent
<1>9. CASE UNCHANGED vars
  BY <1>9 DEF vars, persistent
<1> QED BY <1>1, <1>2, <1>3, <1>4, <1>5, <1>6, <1>7, <1>8, <1>9, NextSplit

(* With a bootloader environment that can be written, the installer
   implements the abstract transaction: every step is one of its steps or
   leaves marker and flash alone. *)
THEOREM TransactionRefinement == EnvOutcome = {TRUE} => (Spec => Transactional)
<1> SUFFICES ASSUME EnvOutcome = {TRUE} PROVE Spec => Transactional
  OBVIOUS
<1>1. Init => Tx!TInit
  BY DEF Init, Tx!TInit
<1>2. BaseInv /\ MarkerInv /\ [Next]_vars => [Tx!TNext]_(Tx!tvars)
  BY TransactionStep
<1> QED BY <1>1, <1>2, MarkerInvariant, PTL DEF Spec, Transactional, Tx!TSpec
=============================================================================
