------------------------------ MODULE WeatherText ------------------------------
(***************************************************************************)
(* What weather_parse_json of src/weather/weather.c reads out of a report. *)
(***************************************************************************)
EXTENDS JsonParse

IconSize == 50         \* of the buffer for "icon"

\* weather_icon, as far as a report can name them.
Icons == {"CLOUDY", "PARTLY_CLOUDY", "CLEAR", "RAIN", "THUNDER", "SLEET", "SNOW", "CLEAR_NIGHT"}

weather_get_icon_from_string(name) ==
  CASE name = <<"cloudy">> -> "CLOUDY"
    [] name \in {<<"partlycloudy">>, <<"partlysunny">>, <<"mostlycloudy">>, <<"mostlysunny">>}
         -> "PARTLY_CLOUDY"
    [] name \in {<<"clear">>, <<"sunny">>} -> "CLEAR"
    [] name = <<"rain">> -> "RAIN"
    [] name = <<"tstorms">> -> "THUNDER"
    [] name \in {<<"sleet">>, <<"flurries">>} -> "SLEET"
    [] name = <<"snow">> -> "SNOW"
    [] OTHER -> "CLEAR_NIGHT"

Int8(n) == ((n + 128) % 256) - 128

\* No error is looked at: what is not found is what the stack held, icons and
\* temperatures here any of them, of which two temperatures stand for all.
Temps == {Int8(99), Int8(-99)}

\* What weather_state may be.  Without "current" the parser itself is what the
\* stack held.
weather_parse_json(text) ==
  LET root == jsonparse_next(text, jsonparse_setup).st
      current == json_find_next_sibling(text, root, Names.current)
      state == jsonparse_next(text, current).st
      icon == FindTyped(text, state, Names.icon, "\"")
      temp == FindTyped(text, state, Names.temp, "0..9")
  IN  IF current = NotFound THEN [current_icon : Icons, temp : Temps]
      ELSE [current_icon : IF icon = NotFound THEN Icons
                           ELSE {weather_get_icon_from_string(
                                   jsonparse_copy_value(text, icon, IconSize))},
            temp : IF temp = NotFound THEN Temps
                   ELSE {Int8(jsonparse_get_value_as_int(text, temp))}]
=============================================================================
